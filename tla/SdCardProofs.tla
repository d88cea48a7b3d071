---------------------------- MODULE SdCardProofs ----------------------------
(***************************************************************************)
(* The driver and the card of module SdCard stay together on a sound line, *)
(* for any sector size, file, contents and number of tries: what each      *)
(* exchange does to the card, what a run of them does, hence what each     *)
(* command does; from that an inductive invariant, and from it that a card *)
(* waits for a command between words, that only SDC! writes and only its   *)
(* own two sectors, that no transfer fails, and that each moves its block. *)
(*                                                                         *)
(* The four CRCs are one function: bit by bit, eight rounds of each do to  *)
(* a number what the card's formula does, hence they tell the same of any  *)
(* bytes, and tell any two runs of bytes apart that differ in one.  Last   *)
(* come the types, which hold on a damaged line too, and what the driver   *)
(* makes of the first byte that is damaged.                                *)
(***************************************************************************)
EXTENDS SdCard, SequenceTheorems, WellFoundedInduction, TLAPS

-----------------------------------------------------------------------------
(* One exchange.                                                           *)

Card(i, r, s, a, b, at, k) ==
  [initstat |-> i, recv |-> r, send |-> s, cmd17 |-> a, cmd24 |-> b, at |-> at, crc |-> k]
Line(c, f, g) == [card |-> c, file |-> f, got |-> g]

\* What a card and a line are made of.
LEMMA CardFields ==
  ASSUME NEW i, NEW r, NEW s, NEW a, NEW b, NEW at, NEW k,
         NEW c, c = Card(i, r, s, a, b, at, k)
  PROVE  /\ c.initstat = i /\ c.recv = r /\ c.send = s /\ c.cmd17 = a
         /\ c.cmd24 = b /\ c.at = at /\ c.crc = k
  BY DEF Card

LEMMA LineFields ==
  ASSUME NEW c, NEW f, NEW g, NEW s, s = Line(c, f, g)
  PROVE  s.card = c /\ s.file = f /\ s.got = g
  BY DEF Line

\* What an exchange gives.
Gave(s, r, d) == [s EXCEPT !.got = Append(@, r), !.card = d]
LEMMA LineGave ==
  ASSUME NEW c, NEW f, NEW g, NEW s, s = Line(c, f, g), NEW r, NEW d
  PROVE  Gave(s, r, d) = Line(d, f, Append(g, r))
<1> DEFINE t == [s EXCEPT !.got = Append(g, r)]
<1>1. s.got = g
  BY LineFields
<1>2. Gave(s, r, d) = [t EXCEPT !.card = d]
  BY <1>1 DEF Gave
<1>3. t = Line(c, f, Append(g, r))
  BY DEF Line
<1> HIDE DEF t
<1> QED
  BY <1>2, <1>3 DEF Line

\* The first byte of a command.
Opens(v) == v \in 64..127

\* An exchange, case by case.
LEMMA SpixGave ==
  ASSUME NEW s, NEW v
  PROVE  LET c == s.card
         IN  Spix(s, v) =
               IF c.initstat < Woken THEN Gave(s, Idle, [c EXCEPT !.initstat = @ + 1])
               ELSE IF c.send # <<>> THEN Gave(s, Head(c.send), [c EXCEPT !.send = Tail(@)])
               ELSE IF c.cmd17 >= 0 THEN Gave(s, Getc(s), Reading(c, Getc(s)))
               ELSE IF c.cmd24 >= -1 THEN
                 [Gave(s, Idle, Writing(c, v)) EXCEPT !.file = IF c.cmd24 >= 0 THEN Putc(s, v) ELSE @]
               ELSE IF c.recv = <<>> /\ ~ Opens(v) THEN Gave(s, Idle, c)
               ELSE IF Len(c.recv) < 5 THEN Gave(s, Idle, [c EXCEPT !.recv = Append(@, v)])
               ELSE Gave(s, Idle, Command(c, Append(c.recv, v)))
  BY Zenon DEF Spix, Gave, Opens

\* A card that is not awake yet counts.
LEMMA AsleepSpix ==
  ASSUME NEW i \in Int, NEW r, NEW s, NEW a \in Int, NEW b \in Int, NEW at, NEW k,
         NEW f, NEW g, NEW v,
         i < Woken
  PROVE  Spix(Line(Card(i, r, s, a, b, at, k), f, g), v)
           = Line(Card(i + 1, r, s, a, b, at, k), f, Append(g, Idle))
<1> DEFINE c == Card(i, r, s, a, b, at, k)
           l == Line(c, f, g)
<1>1. c = Card(i, r, s, a, b, at, k) /\ l = Line(c, f, g)
  OBVIOUS
<1> HIDE DEF c, l
<1>2. /\ c.initstat = i /\ c.recv = r /\ c.send = s /\ c.cmd17 = a
      /\ c.cmd24 = b /\ c.at = at /\ c.crc = k
  BY <1>1, CardFields
<1>3. l.card = c /\ l.file = f /\ l.got = g
  BY <1>1, LineFields
<1>4. [c EXCEPT !.initstat = i + 1] = Card(i + 1, r, s, a, b, at, k)
  BY <1>1 DEF Card
<1>5. Spix(l, v) = Gave(l, Idle, [c EXCEPT !.initstat = i + 1])
  BY <1>2, <1>3, SpixGave
<1> QED
  BY <1>1, <1>4, <1>5, LineGave

\* Awake, it first sends what it has to.
LEMMA SendSpix ==
  ASSUME NEW i \in Int, NEW r, NEW s, NEW a \in Int, NEW b \in Int, NEW at, NEW k,
         NEW f, NEW g, NEW v,
         ~ (i < Woken), s # <<>>
  PROVE  Spix(Line(Card(i, r, s, a, b, at, k), f, g), v)
           = Line(Card(i, r, Tail(s), a, b, at, k), f, Append(g, Head(s)))
<1> DEFINE c == Card(i, r, s, a, b, at, k)
           l == Line(c, f, g)
<1>1. c = Card(i, r, s, a, b, at, k) /\ l = Line(c, f, g)
  OBVIOUS
<1> HIDE DEF c, l
<1>2. /\ c.initstat = i /\ c.recv = r /\ c.send = s /\ c.cmd17 = a
      /\ c.cmd24 = b /\ c.at = at /\ c.crc = k
  BY <1>1, CardFields
<1>3. l.card = c /\ l.file = f /\ l.got = g
  BY <1>1, LineFields
<1>4. [c EXCEPT !.send = Tail(s)] = Card(i, r, Tail(s), a, b, at, k)
  BY <1>1 DEF Card
<1>5. Spix(l, v) = Gave(l, Head(s), [c EXCEPT !.send = Tail(s)])
  BY <1>2, <1>3, SpixGave
<1> DEFINE d == Card(i, r, Tail(s), a, b, at, k)
           h == Head(s)
<1>6. Spix(l, v) = Gave(l, h, d)
  BY <1>4, <1>5
<1> HIDE DEF d, h
<1>7. Gave(l, h, d) = Line(d, f, Append(g, h))
  BY <1>1, LineGave
<1> QED
  BY <1>1, <1>6, <1>7 DEF d, h

\* The card after a byte of a sector, whose CRC is n so far.
ReadOn(i, r, s, a, b, at, k, n) ==
  IF a + 1 = Len512 THEN Card(i, r, <<High(n), Low(n)>>, -1, b, at, k)
                    ELSE Card(i, r, s, a + 1, b, at, n)

\* What the card becomes while it reads: the next byte, or the CRC.
LEMMA ReadingIs ==
  ASSUME NEW i, NEW r, NEW s, NEW a \in Int, NEW b, NEW at, NEW k, NEW c, c = Card(i, r, s, a, b, at, k),
         NEW w
  PROVE  Reading(c, w) = ReadOn(i, r, s, a, b, at, k, CardCrc16(k, w))
<1> DEFINE n == CardCrc16(k, w)
           d == [c EXCEPT !.cmd17 = -1]
           e == [c EXCEPT !.crc = n]
           h == <<High(n), Low(n)>>
<1>1. c.cmd17 = a /\ c.crc = k
  BY CardFields
<1>2. d = Card(i, r, s, -1, b, at, k) /\ e = Card(i, r, s, a, b, at, n)
  BY DEF Card
<1>3. Reading(c, w) = IF a + 1 = Len512 THEN [d EXCEPT !.send = h] ELSE [e EXCEPT !.cmd17 = a + 1]
  BY <1>1 DEF Reading
<1> HIDE DEF d, e, h, n
<1>4. [d EXCEPT !.send = h] = Card(i, r, h, -1, b, at, k)
  BY <1>2 DEF Card
<1>5. [e EXCEPT !.cmd17 = a + 1] = Card(i, r, s, a + 1, b, at, n)
  BY <1>2 DEF Card
<1>6. Reading(c, w) = IF a + 1 = Len512 THEN Card(i, r, h, -1, b, at, k)
                                      ELSE Card(i, r, s, a + 1, b, at, n)
  BY <1>3, <1>4, <1>5
<1> QED
  BY <1>6 DEF h, n, ReadOn

\* Then it reads, if it was told to.
LEMMA ReadSpix ==
  ASSUME NEW i \in Int, NEW r, NEW s, NEW a \in Int, NEW b \in Int, NEW at, NEW k,
         NEW f, NEW g, NEW v,
         ~ (i < Woken), s = <<>>, a >= 0,
         NEW w, w = (IF at \in Sectors THEN f[at][a + 1] ELSE Idle)
  PROVE  Spix(Line(Card(i, r, s, a, b, at, k), f, g), v)
           = Line(ReadOn(i, r, s, a, b, at, k, CardCrc16(k, w)), f, Append(g, w))
<1> DEFINE c == Card(i, r, s, a, b, at, k)
           l == Line(c, f, g)
<1>1. c = Card(i, r, s, a, b, at, k) /\ l = Line(c, f, g)
  OBVIOUS
<1> HIDE DEF c, l
<1>2. /\ c.initstat = i /\ c.recv = r /\ c.send = s /\ c.cmd17 = a
      /\ c.cmd24 = b /\ c.at = at /\ c.crc = k
  BY <1>1, CardFields
<1>3. l.card = c /\ l.file = f /\ l.got = g
  BY <1>1, LineFields
<1>4. Getc(l) = w
  BY <1>2, <1>3 DEF Getc
<1>7. Reading(c, w) = ReadOn(i, r, s, a, b, at, k, CardCrc16(k, w))
  BY <1>1, ReadingIs
<1>8. Spix(l, v) = Gave(l, w, Reading(c, w))
  BY <1>2, <1>3, <1>4, SpixGave
<1> QED
  BY <1>1, <1>7, <1>8, LineGave

\* What it becomes while it writes: the next byte, or its answer.
LEMMA WritingIs ==
  ASSUME NEW i, NEW r, NEW s, NEW a, NEW b \in -1..(Len512 + 1), NEW at, NEW k,
         NEW c, c = Card(i, r, s, a, b, at, k), NEW v
  PROVE  Writing(c, v) =
           IF b = -1 THEN Card(i, r, s, a, IF v = Idle THEN -1 ELSE IF v = Token THEN 0 ELSE -2, at, k)
           ELSE IF b <= Len512 THEN Card(i, r, s, a, b + 1, at, k)
           ELSE Card(i, r, <<5>>, a, -2, at, k)
<1> DEFINE d == [c EXCEPT !.cmd24 = -2]
           h == <<5>>
           m == IF v = Idle THEN -1 ELSE IF v = Token THEN 0 ELSE -2
<1>1. c.cmd24 = b /\ Len512 \in Nat
  BY CardFields, BoundsAssumption
<1>2. d = Card(i, r, s, a, -2, at, k)
  BY DEF Card
<1>3. CASE b = -1
  <2>1. Writing(c, v) = [c EXCEPT !.cmd24 = CASE v = Idle  -> -1
                                              [] v = Token -> 0
                                              [] OTHER     -> -2]
    BY <1>1, <1>3 DEF Writing
  <2>2. (CASE v = Idle -> -1 [] v = Token -> 0 [] OTHER -> -2) = m
    BY DEF Idle, Token
  <2> HIDE DEF m
  <2>3. [c EXCEPT !.cmd24 = m] = Card(i, r, s, a, m, at, k)
    BY DEF Card
  <2>4. Writing(c, v) = Card(i, r, s, a, m, at, k)
    BY <2>1, <2>2, <2>3
  <2> QED
    BY <1>3, <2>4 DEF m
<1>4. CASE b \in 0..Len512
  <2>1. Writing(c, v) = [c EXCEPT !.cmd24 = b + 1]
    BY <1>1, <1>4 DEF Writing
  <2>2. [c EXCEPT !.cmd24 = b + 1] = Card(i, r, s, a, b + 1, at, k)
    BY DEF Card
  <2> QED
    BY <1>1, <1>4, <2>1, <2>2
<1>5. CASE b = Len512 + 1
  <2>1. Writing(c, v) = [d EXCEPT !.send = h]
    BY <1>1, <1>5 DEF Writing
  <2> HIDE DEF d, h
  <2>2. [d EXCEPT !.send = h] = Card(i, r, h, a, -2, at, k)
    BY <1>2 DEF Card
  <2>3. Writing(c, v) = Card(i, r, h, a, -2, at, k)
    BY <2>1, <2>2
  <2> QED
    BY <1>1, <1>5, <2>3 DEF h
<1> QED
  BY <1>1, <1>3, <1>4, <1>5

\* Or it writes.
WithByte(f, at, i, v) == [f EXCEPT ![at] = [f[at] EXCEPT ![i] = v]]

\* Then it writes, if it was told to.
LEMMA WriteSpix ==
  ASSUME NEW i \in Int, NEW r, NEW s, NEW a \in Int, NEW b \in Int, NEW at, NEW k,
         NEW f, NEW g, NEW v,
         ~ (i < Woken), s = <<>>, a < 0, b \in -1..(Len512 + 1)
  PROVE  Spix(Line(Card(i, r, s, a, b, at, k), f, g), v)
           = Line(IF b = -1 THEN Card(i, r, s, a, IF v = Idle THEN -1 ELSE IF v = Token THEN 0 ELSE -2, at, k)
                  ELSE IF b <= Len512 THEN Card(i, r, s, a, b + 1, at, k)
                  ELSE Card(i, r, <<5>>, a, -2, at, k),
                  IF at \in Sectors /\ b \in 0..(Len512 - 1)
                    THEN WithByte(f, at, b + 1, v) ELSE f,
                  Append(g, Idle))
<1> DEFINE c == Card(i, r, s, a, b, at, k)
           l == Line(c, f, g)
<1>1. c = Card(i, r, s, a, b, at, k) /\ l = Line(c, f, g)
  OBVIOUS
<1> HIDE DEF c, l
<1>2. /\ c.initstat = i /\ c.recv = r /\ c.send = s /\ c.cmd17 = a
      /\ c.cmd24 = b /\ c.at = at /\ c.crc = k
  BY <1>1, CardFields
<1>3. l.card = c /\ l.file = f /\ l.got = g
  BY <1>1, LineFields
<1> DEFINE w == Writing(c, v)
           p == WithByte(f, at, b + 1, v)
           t == Gave(l, Idle, w)
           q == IF at \in Sectors /\ b \in 0..(Len512 - 1) THEN p ELSE f
<1>4. w = IF b = -1 THEN Card(i, r, s, a, IF v = Idle THEN -1 ELSE IF v = Token THEN 0 ELSE -2, at, k)
                  ELSE IF b <= Len512 THEN Card(i, r, s, a, b + 1, at, k)
                  ELSE Card(i, r, <<5>>, a, -2, at, k)
  BY <1>1, WritingIs
<1>5. Putc(l, v) = IF at \in Sectors /\ b < Len512 THEN p ELSE f
  BY <1>2, <1>3 DEF Putc, WithByte
<1>6. t = Line(w, f, Append(g, Idle)) /\ t.file = f
  <2> HIDE DEF w
  <2>1. t = Line(w, f, Append(g, Idle))
    BY <1>1, LineGave
  <2> HIDE DEF t
  <2> QED
    BY <2>1, LineFields
<1>7. Spix(l, v) = [t EXCEPT !.file = IF b >= 0 THEN Putc(l, v) ELSE f]
  <2> HIDE DEF w
  <2>1. ~ (c.initstat < Woken) /\ c.send = <<>> /\ ~ (c.cmd17 >= 0) /\ c.cmd24 >= -1
    BY <1>2
  <2>2. Spix(l, v) = [t EXCEPT !.file = IF c.cmd24 >= 0 THEN Putc(l, v) ELSE @]
    BY <1>3, <2>1, SpixGave DEF w
  <2> QED
    BY <1>2, <1>6, <2>2
<1>8. (IF b >= 0 THEN Putc(l, v) ELSE f) = q
  <2>1. Len512 \in Nat
    BY BoundsAssumption
  <2> HIDE DEF p
  <2> QED
    BY <1>5, <2>1
<1> HIDE DEF t, w, q
<1>9. Spix(l, v) = [t EXCEPT !.file = q]
  BY <1>7, <1>8
<1>10. [t EXCEPT !.file = q] = Line(w, q, Append(g, Idle))
  <2> DEFINE y == Append(g, Idle)
  <2>1. t = Line(w, f, y)
    BY <1>6
  <2> HIDE DEF y
  <2>2. [t EXCEPT !.file = q] = Line(w, q, y)
    BY <2>1 DEF Line
  <2> QED
    BY <2>2 DEF y
<1>11. Spix(l, v) = Line(w, q, Append(g, Idle))
  BY <1>9, <1>10
<1> QED
  BY <1>1, <1>4, <1>11 DEF q

\* Or it waits for a command, and silence or data are nothing to it.
LEMMA SilentSpix ==
  ASSUME NEW i \in Int, NEW r, NEW s, NEW a \in Int, NEW b \in Int, NEW at, NEW k,
         NEW f, NEW g, NEW v,
         ~ (i < Woken), s = <<>>, a < 0, b < -1, r = <<>>, ~ Opens(v)
  PROVE  Spix(Line(Card(i, r, s, a, b, at, k), f, g), v)
           = Line(Card(i, r, s, a, b, at, k), f, Append(g, Idle))
<1> DEFINE c == Card(i, r, s, a, b, at, k)
           l == Line(c, f, g)
<1>1. c = Card(i, r, s, a, b, at, k) /\ l = Line(c, f, g)
  OBVIOUS
<1> HIDE DEF c, l
<1>2. /\ c.initstat = i /\ c.recv = r /\ c.send = s /\ c.cmd17 = a
      /\ c.cmd24 = b /\ c.at = at /\ c.crc = k
  BY <1>1, CardFields
<1>3. l.card = c /\ l.file = f /\ l.got = g
  BY <1>1, LineFields
<1>4. Spix(l, v) = Gave(l, Idle, c)
  <2>1. /\ ~ (c.initstat < Woken) /\ c.send = <<>> /\ ~ (c.cmd17 >= 0)
        /\ ~ (c.cmd24 >= -1) /\ c.recv = <<>> /\ ~ Opens(v)
    BY <1>2
  <2> QED
    BY <1>3, <2>1, SpixGave
<1> QED
  BY <1>1, <1>4, LineGave

\* The bytes of a command are gathered,
LEMMA GatherSpix ==
  ASSUME NEW i \in Int, NEW r, NEW s, NEW a \in Int, NEW b \in Int, NEW at, NEW k,
         NEW f, NEW g, NEW v,
         ~ (i < Woken), s = <<>>, a < 0, b < -1, ~ (r = <<>> /\ ~ Opens(v)), Len(r) < 5
  PROVE  Spix(Line(Card(i, r, s, a, b, at, k), f, g), v)
           = Line(Card(i, Append(r, v), s, a, b, at, k), f, Append(g, Idle))
<1> DEFINE c == Card(i, r, s, a, b, at, k)
           l == Line(c, f, g)
<1>1. c = Card(i, r, s, a, b, at, k) /\ l = Line(c, f, g)
  OBVIOUS
<1> HIDE DEF c, l
<1>2. /\ c.initstat = i /\ c.recv = r /\ c.send = s /\ c.cmd17 = a
      /\ c.cmd24 = b /\ c.at = at /\ c.crc = k
  BY <1>1, CardFields
<1>3. l.card = c /\ l.file = f /\ l.got = g
  BY <1>1, LineFields
<1> DEFINE h == Append(r, v)
           d == [c EXCEPT !.recv = h]
<1>4. Spix(l, v) = Gave(l, Idle, d)
  <2>1. /\ ~ (c.initstat < Woken) /\ c.send = <<>> /\ ~ (c.cmd17 >= 0)
        /\ ~ (c.cmd24 >= -1) /\ ~ (c.recv = <<>> /\ ~ Opens(v)) /\ Len(c.recv) < 5
    BY <1>2
  <2> QED
    BY <1>2, <1>3, <2>1, SpixGave
<1>5. d = Card(i, h, s, a, b, at, k)
  <2> HIDE DEF h
  <2> QED
    BY <1>1 DEF Card
<1> HIDE DEF d
<1>6. Gave(l, Idle, d) = Line(d, f, Append(g, Idle))
  BY <1>1, LineGave
<1> QED
  BY <1>1, <1>4, <1>5, <1>6

\* and the sixth has it carried out.
LEMMA CommandSpix ==
  ASSUME NEW i \in Int, NEW r, NEW s, NEW a \in Int, NEW b \in Int, NEW at, NEW k,
         NEW f, NEW g, NEW v,
         ~ (i < Woken), s = <<>>, a < 0, b < -1, r # <<>>, ~ (Len(r) < 5)
  PROVE  Spix(Line(Card(i, r, s, a, b, at, k), f, g), v)
           = Line(Command(Card(i, r, s, a, b, at, k), Append(r, v)), f, Append(g, Idle))
<1> DEFINE c == Card(i, r, s, a, b, at, k)
           l == Line(c, f, g)
<1>1. c = Card(i, r, s, a, b, at, k) /\ l = Line(c, f, g)
  OBVIOUS
<1> HIDE DEF c, l
<1>2. /\ c.initstat = i /\ c.recv = r /\ c.send = s /\ c.cmd17 = a
      /\ c.cmd24 = b /\ c.at = at /\ c.crc = k
  BY <1>1, CardFields
<1>3. l.card = c /\ l.file = f /\ l.got = g
  BY <1>1, LineFields
<1> DEFINE d == Command(c, Append(r, v))
<1>4. Spix(l, v) = Gave(l, Idle, d)
  <2>1. /\ ~ (c.initstat < Woken) /\ c.send = <<>> /\ ~ (c.cmd17 >= 0)
        /\ ~ (c.cmd24 >= -1) /\ c.recv # <<>> /\ ~ (Len(c.recv) < 5)
    BY <1>2
  <2> QED
    BY <1>2, <1>3, <2>1, SpixGave
<1> HIDE DEF d
<1>6. Gave(l, Idle, d) = Line(d, f, Append(g, Idle))
  BY <1>1, LineGave
<1> QED
  BY <1>1, <1>4, <1>6 DEF d

-----------------------------------------------------------------------------
(* Runs of exchanges.                                                      *)

\* Numbers have no endless way down.
LEMMA LessIsWellFounded == IsWellFoundedOn({p \in Nat \X Nat : p[1] < p[2]}, Nat)
  BY NatLessThanWellFounded DEF OpToRel

\* What holds at 0 and goes on to the next number holds up to n.
LEMMA UpTo ==
  ASSUME NEW n \in Nat, NEW S, 0 \in S, \A i \in 1..n : i - 1 \in S => i \in S
  PROVE  0..n \subseteq S
<1> DEFINE R == {p \in Nat \X Nat : p[1] < p[2]}
           Bad == (0..n) \ S
<1>1. SUFFICES ASSUME Bad # {} PROVE FALSE
  OBVIOUS
<1>2. IsWellFoundedOn(R, Nat) /\ Bad \subseteq Nat
  BY LessIsWellFounded
<1> HIDE DEF R
<1>3. PICK m \in Bad : \A k \in Bad : <<k, m>> \notin R
  BY <1>1, <1>2, WFMin
<1>4. m \in 1..n /\ m - 1 \in 0..n /\ m - 1 \in Nat /\ m \in Nat /\ m - 1 < m
  BY <1>3
<1>5. <<m - 1, m>> \in R
  BY <1>4 DEF R
<1>6. m - 1 \in S
  BY <1>3, <1>4, <1>5
<1> QED
  BY <1>3, <1>4, <1>6

\* An exchange of a run; a wait ends at an answer, and one with a hit, whose bytes
\* say where in the run they are, hears one of them as another.
Hears(s, i, part, hit) ==
  IF hit.part = part /\ hit.nth = i THEN Hit(Spix(s, Idle), i, hit) ELSE Spix(s, Idle)
Go(how, s, v) ==
  IF how # "send" /\ s.got # <<>> /\ Last(s.got) # Idle THEN s
  ELSE IF how = "hit" THEN Hears(s, v[1], v[2], v[3]) ELSE Spix(s, v)
Begin(s) == [s EXCEPT !.got = <<>>]
Trace(h, how, s, bytes, n) ==
  h[0] = Begin(s) /\ \A i \in 1..n : h[i] = Go(how, h[i - 1], bytes[i])

\* A run of exchanges is a trace: Begin, then Go for each byte.
LEMMA Traced ==
  ASSUME NEW how, NEW s, NEW bytes, NEW n \in Nat
  PROVE  \E h : Trace(h, how, s, bytes, n)
<1> DEFINE S == {k \in 0..n : \E h : Trace(h, how, s, bytes, k)}
<1>1. 0 \in S
  <2> DEFINE h == [i \in 0..0 |-> Begin(s)]
  <2>1. Trace(h, how, s, bytes, 0)
    BY DEF Trace
  <2> HIDE DEF h
  <2> QED
    BY <2>1
<1>2. ASSUME NEW k \in 1..n, k - 1 \in S PROVE k \in S
  <2>1. PICK h : Trace(h, how, s, bytes, k - 1)
    BY <1>2
  <2> DEFINE g == [i \in 0..k |-> IF i = k THEN Go(how, h[k - 1], bytes[k]) ELSE h[i]]
  <2>2. g[0] = Begin(s)
    BY <2>1 DEF Trace
  <2>3. ASSUME NEW i \in 1..k PROVE g[i] = Go(how, g[i - 1], bytes[i])
    <3>1. i - 1 \in 0..k /\ i - 1 # k /\ g[i - 1] = h[i - 1] /\ i \in 0..k
      OBVIOUS
    <3>2. CASE i = k
      <4>1. g[i] = Go(how, h[k - 1], bytes[k])
        BY <3>2
      <4> QED
        BY <3>1, <3>2, <4>1
    <3>3. CASE i # k
      <4>1. i \in 1..(k - 1) /\ g[i] = h[i]
        BY <3>3
      <4>2. h[i] = Go(how, h[i - 1], bytes[i])
        BY <2>1, <4>1 DEF Trace
      <4> QED
        BY <3>1, <4>1, <4>2
    <3> QED
      BY <3>2, <3>3
  <2> HIDE DEF g
  <2>4. Trace(g, how, s, bytes, k)
    BY <2>2, <2>3 DEF Trace
  <2> QED
    BY <2>4
<1>3. n \in S
  <2> HIDE DEF S
  <2>1. 0..n \subseteq S
    BY <1>1, <1>2, UpTo
  <2> QED
    BY <2>1
<1> QED
  BY <1>3

\* What is sent leaves such a trace,
LEMMA SendsTrace ==
  ASSUME NEW s, NEW bytes, Len(bytes) \in Nat
  PROVE  \E h : Trace(h, "send", s, bytes, Len(bytes)) /\ Sends(s, bytes) = h[Len(bytes)]
<1> DEFINE n == Len(bytes)
           Step(f) == [i \in 0..n |-> IF i = 0 THEN Begin(s) ELSE Spix(f[i - 1], bytes[i])]
           run == CHOOSE f : f = Step(f)
<1>1. PICK h : Trace(h, "send", s, bytes, n)
  BY Traced
<1> DEFINE g == [i \in 0..n |-> h[i]]
<1>2. g = Step(g)
  <2>1. ASSUME NEW i \in 0..n PROVE g[i] = IF i = 0 THEN Begin(s) ELSE Spix(g[i - 1], bytes[i])
    BY <1>1 DEF Trace, Go
  <2>2. g = [i \in 0..n |-> g[i]]
    OBVIOUS
  <2> HIDE DEF g
  <2> QED
    BY <2>1, <2>2
<1> HIDE DEF g
<1>3. run = Step(run)
  BY <1>2
<1>4. Sends(s, bytes) = run[n]
  BY DEF Sends, Begin
<1> HIDE DEF run
<1>5. Trace(run, "send", s, bytes, n)
  <2>1. run[0] = Begin(s)
    BY <1>3
  <2>2. ASSUME NEW i \in 1..n PROVE run[i] = Go("send", run[i - 1], bytes[i])
    BY <1>3 DEF Go
  <2> QED
    BY <2>1, <2>2 DEF Trace
<1> QED
  BY <1>4, <1>5

Silence(n) == [i \in 1..n |-> Idle]

\* and so does a wait,
Heard(part, hit) == [i \in 1..Tries |-> <<i, part, hit>>]
LEMMA HitTrace ==
  ASSUME NEW s, NEW part, NEW hit
  PROVE  \E h : Trace(h, "hit", s, Heard(part, hit), Tries) /\ wait(s, part, hit) = h[Tries]
<1> DEFINE On(t, i) == IF t.got # <<>> /\ Last(t.got) # Idle THEN t ELSE Hears(t, i, part, hit)
           Step(f) == [i \in 0..Tries |-> IF i = 0 THEN Begin(s) ELSE On(f[i - 1], i)]
           run == CHOOSE f : f = Step(f)
<1>0. Tries \in Nat
  BY BoundsAssumption
<1>1. PICK h : Trace(h, "hit", s, Heard(part, hit), Tries)
  BY <1>0, Traced
<1> DEFINE g == [i \in 0..Tries |-> h[i]]
<1>6. ASSUME NEW i \in 1..Tries, NEW t PROVE Go("hit", t, Heard(part, hit)[i]) = On(t, i)
  <2>1. Heard(part, hit)[i] = <<i, part, hit>>
    BY DEF Heard
  <2>2. <<i, part, hit>>[1] = i /\ <<i, part, hit>>[2] = part /\ <<i, part, hit>>[3] = hit
    OBVIOUS
  <2> QED
    BY <2>1, <2>2 DEF Go
<1>2. g = Step(g)
  <2>1. ASSUME NEW i \in 0..Tries PROVE g[i] = IF i = 0 THEN Begin(s) ELSE On(g[i - 1], i)
    <3>1. CASE i = 0
      BY <1>0, <1>1, <3>1 DEF Trace
    <3>2. CASE i \in 1..Tries
      <4>1. i \in 0..Tries /\ i - 1 \in 0..Tries /\ i # 0 /\ g[i] = h[i] /\ g[i - 1] = h[i - 1]
        BY <1>0, <3>2
      <4>2. h[i] = Go("hit", h[i - 1], Heard(part, hit)[i])
        BY <1>1, <3>2 DEF Trace
      <4>3. h[i] = On(h[i - 1], i)
        BY <1>6, <3>2, <4>2
      <4> HIDE DEF g, On
      <4> QED
        BY <4>1, <4>3
    <3> QED
      BY <1>0, <3>1, <3>2
  <2>2. g = [i \in 0..Tries |-> g[i]]
    OBVIOUS
  <2> HIDE DEF g, On
  <2> QED
    BY <2>1, <2>2
<1> HIDE DEF g
<1>3. run = Step(run)
  BY <1>2
<1>4. wait(s, part, hit) = run[Tries]
  BY DEF wait, Begin, Hears
<1> HIDE DEF run
<1>5. Trace(run, "hit", s, Heard(part, hit), Tries)
  <2>1. run[0] = Begin(s)
    BY <1>0, <1>3
  <2>2. ASSUME NEW i \in 1..Tries PROVE run[i] = Go("hit", run[i - 1], Heard(part, hit)[i])
    <3>1. i \in 0..Tries /\ i # 0
      BY <1>0
    <3>2. run[i] = On(run[i - 1], i)
      BY <1>3, <3>1
    <3> QED
      BY <1>6, <3>2
  <2> QED
    BY <2>1, <2>2 DEF Trace
<1> QED
  BY <1>4, <1>5

\* which is a plain one where nothing is hit.
LEMMA PlainTrace ==
  ASSUME NEW s, NEW part, NEW hit, hit.part # part
  PROVE  \E h : Trace(h, "wait", s, Silence(Tries), Tries) /\ wait(s, part, hit) = h[Tries]
<1>1. PICK h : Trace(h, "hit", s, Heard(part, hit), Tries) /\ wait(s, part, hit) = h[Tries]
  BY HitTrace
<1>2. ASSUME NEW i \in 1..Tries PROVE h[i] = Go("wait", h[i - 1], Silence(Tries)[i])
  <2> DEFINE v == <<i, part, hit>>
  <2>1. Heard(part, hit)[i] = v /\ v[1] = i /\ v[2] = part /\ v[3] = hit /\ Silence(Tries)[i] = Idle
    BY DEF Heard, Silence
  <2>2. h[i] = Go("hit", h[i - 1], v)
    BY <1>1, <2>1 DEF Trace
  <2> HIDE DEF v
  <2> QED
    BY <2>1, <2>2 DEF Go, Hears
<1>3. Trace(h, "wait", s, Silence(Tries), Tries)
  BY <1>1, <1>2 DEF Trace
<1> QED
  BY <1>1, <1>3

\* A wait on a sound line.
waits(s) == wait(s, "wait", None)
LEMMA WaitTrace ==
  ASSUME NEW s
  PROVE  \E h : Trace(h, "wait", s, Silence(Tries), Tries) /\ waits(s) = h[Tries]
<1>1. None.part # "wait"
  BY DEF None
<1> QED
  BY <1>1, PlainTrace DEF waits

\* One run leads to one state.
LEMMA OneTrace ==
  ASSUME NEW how, NEW s, NEW bytes, NEW n \in Nat, NEW h, Trace(h, how, s, bytes, n),
         NEW g, Trace(g, how, s, bytes, n)
  PROVE  h[n] = g[n]
<1> DEFINE S == {i \in 0..n : h[i] = g[i]}
<1>1. 0 \in S
  BY DEF Trace
<1>2. ASSUME NEW i \in 1..n, i - 1 \in S PROVE i \in S
  BY <1>2 DEF Trace
<1> HIDE DEF S
<1>3. 0..n \subseteq S
  BY <1>1, <1>2, UpTo
<1> QED
  BY <1>3 DEF S

\* Which of its parts a wait is makes no difference if it is not hit.
LEMMA PlainWait ==
  ASSUME NEW s, NEW part, NEW hit, hit.part # part
  PROVE  wait(s, part, hit) = waits(s)
<1>1. PICK h : Trace(h, "wait", s, Silence(Tries), Tries) /\ wait(s, part, hit) = h[Tries]
  BY PlainTrace
<1>2. PICK g : Trace(g, "wait", s, Silence(Tries), Tries) /\ waits(s) = g[Tries]
  BY WaitTrace
<1>3. Tries \in Nat
  BY BoundsAssumption
<1> QED
  BY <1>1, <1>2, <1>3, OneTrace

\* A run starts with nothing got.
LEMMA BeginLine ==
  ASSUME NEW c, NEW f, NEW g PROVE Begin(Line(c, f, g)) = Line(c, f, <<>>)
<1> DEFINE s == Line(c, f, g)
           e == <<>>
<1>1. s = Line(c, f, g)
  OBVIOUS
<1> HIDE DEF s, e
<1>2. [s EXCEPT !.got = e] = Line(c, f, e)
  BY <1>1 DEF Line
<1> QED
  BY <1>2 DEF Begin, s, e

\* Silence, and one exchange more of it.
LEMMA SilenceGrows ==
  /\ Silence(0) = <<>>
  /\ \A n \in Nat : /\ Append(Silence(n), Idle) = Silence(n + 1)
                    /\ Len(Silence(n)) = n
                    /\ n # 0 => Last(Silence(n)) = Idle
<1>1. Silence(0) = <<>>
  BY DEF Silence
<1>2. ASSUME NEW n \in Nat
      PROVE  /\ Append(Silence(n), Idle) = Silence(n + 1) /\ Len(Silence(n)) = n
             /\ n # 0 => Last(Silence(n)) = Idle
  <2>1. Idle \in {Idle}
    OBVIOUS
  <2> HIDE DEF Idle
  <2>2. Silence(n) \in Seq({Idle}) /\ Len(Silence(n)) = n
    BY DEF Silence
  <2>3. Append(Silence(n), Idle) = Silence(n + 1)
    BY DEF Silence
  <2>4. n # 0 => Last(Silence(n)) = Idle
    BY <2>2 DEF Last, Silence
  <2> QED
    BY <2>2, <2>3, <2>4
<1> QED
  BY <1>1, <1>2

\* A card between commands.
Still(i, at, k) == Card(i, <<>>, <<>>, -1, -2, at, k)

\* Silence opens no command.
LEMMA IdleIsSilent == Idle = 255 /\ ~ Opens(Idle)
  BY DEF Idle, Opens

\* A card that waits for a command gives nothing.
LEMMA StillSpix ==
  ASSUME NEW i \in Int, ~ (i < Woken), NEW at, NEW k, NEW f, NEW g
  PROVE  Spix(Line(Still(i, at, k), f, g), Idle) = Line(Still(i, at, k), f, Append(g, Idle))
<1> DEFINE e == <<>>
           v == Idle
<1>1. ~ Opens(v)
  BY IdleIsSilent
<1>2. e = <<>>
  OBVIOUS
<1>3. -1 \in Int /\ -2 \in Int /\ -1 < 0 /\ -2 < -1
  OBVIOUS
<1> HIDE DEF e, v
<1>4. Spix(Line(Card(i, e, e, -1, -2, at, k), f, g), v)
        = Line(Card(i, e, e, -1, -2, at, k), f, Append(g, Idle))
  BY <1>1, <1>2, <1>3, SilentSpix
<1> QED
  BY <1>4 DEF Still, e, v

\* It stays as it is for as long as it is only listened to.
LEMMA StillGo ==
  ASSUME NEW i \in Int, ~ (i < Woken), NEW at, NEW k, NEW f, NEW how, how # "hit", NEW n \in Nat,
         NEW m, m = n + 1
  PROVE  Go(how, Line(Still(i, at, k), f, Silence(n)), Idle)
           = Line(Still(i, at, k), f, Silence(m))
<1> DEFINE s == Line(Still(i, at, k), f, Silence(n))
<1>1. s.got = Silence(n)
  BY LineFields
<1>2. ~ (s.got # <<>> /\ Last(s.got) # Idle)
  BY <1>1, SilenceGrows
<1>3. Spix(s, Idle) = Line(Still(i, at, k), f, Silence(m))
  <2> DEFINE x == Silence(n)
  <2>1. Append(x, Idle) = Silence(m)
    BY SilenceGrows
  <2> HIDE DEF x
  <2>2. Spix(Line(Still(i, at, k), f, x), Idle) = Line(Still(i, at, k), f, Append(x, Idle))
    BY StillSpix
  <2> QED
    BY <2>1, <2>2 DEF x
<1> HIDE DEF s
<1> QED
  BY <1>2, <1>3 DEF Go, s

\* So a wait on it ends with nothing got but silence,
LEMMA WaitStill ==
  ASSUME NEW i \in Int, ~ (i < Woken), NEW at, NEW k, NEW f, NEW g
  PROVE  waits(Line(Still(i, at, k), f, g)) = Line(Still(i, at, k), f, Silence(Tries))
<1> DEFINE s == Line(Still(i, at, k), f, g)
           e == [n \in 0..Tries |-> Line(Still(i, at, k), f, Silence(n))]
<1>0. Tries \in Nat
  BY BoundsAssumption
<1>1. PICK h : Trace(h, "wait", s, Silence(Tries), Tries) /\ waits(s) = h[Tries]
  BY WaitTrace
<1>2. e[0] = Begin(s)
  BY <1>0, BeginLine, SilenceGrows
<1>3. ASSUME NEW n \in 1..Tries PROVE e[n] = Go("wait", e[n - 1], Silence(Tries)[n])
  <2>1. n - 1 \in Nat /\ n - 1 \in 0..Tries /\ n \in 0..Tries /\ (n - 1) + 1 = n
        /\ Silence(Tries)[n] = Idle
    BY <1>0 DEF Silence
  <2>2. Go("wait", Line(Still(i, at, k), f, Silence(n - 1)), Idle)
          = Line(Still(i, at, k), f, Silence(n))
    <3> DEFINE p == n - 1
    <3>1. p \in Nat /\ n = p + 1
      BY <2>1
    <3> HIDE DEF p
    <3>2. Go("wait", Line(Still(i, at, k), f, Silence(p)), Idle) = Line(Still(i, at, k), f, Silence(n))
      BY <3>1, StillGo
    <3> QED
      BY <3>2 DEF p
  <2> QED
    BY <2>1, <2>2
<1>4. e[Tries] = Line(Still(i, at, k), f, Silence(Tries))
  BY <1>0
<1> HIDE DEF e, s
<1>5. h[Tries] = e[Tries]
  <2>1. Trace(e, "wait", s, Silence(Tries), Tries)
    BY <1>2, <1>3 DEF Trace
  <2> QED
    BY <1>0, <1>1, <2>1, OneTrace
<1> QED
  BY <1>1, <1>4, <1>5 DEF s

\* and so do exchanges that are not waited for.
LEMMA IdlesStill ==
  ASSUME NEW i \in Int, ~ (i < Woken), NEW at, NEW k, NEW f, NEW g, NEW m \in Nat
  PROVE  Idles(Line(Still(i, at, k), f, g), m) = Line(Still(i, at, k), f, Silence(m))
<1> DEFINE s == Line(Still(i, at, k), f, g)
           e == [n \in 0..m |-> Line(Still(i, at, k), f, Silence(n))]
<1>0. Len(Silence(m)) = m /\ Idles(s, m) = Sends(s, Silence(m))
  BY SilenceGrows DEF Idles, Silence
<1>1. PICK h : Trace(h, "send", s, Silence(m), m) /\ Idles(s, m) = h[m]
  BY <1>0, SendsTrace
<1>2. e[0] = Begin(s)
  BY BeginLine, SilenceGrows
<1>3. ASSUME NEW n \in 1..m PROVE e[n] = Go("send", e[n - 1], Silence(m)[n])
  <2>1. n - 1 \in Nat /\ n - 1 \in 0..m /\ n \in 0..m /\ (n - 1) + 1 = n
        /\ Silence(m)[n] = Idle
    BY DEF Silence
  <2>2. Go("send", Line(Still(i, at, k), f, Silence(n - 1)), Idle)
          = Line(Still(i, at, k), f, Silence(n))
    <3> DEFINE p == n - 1
    <3>1. p \in Nat /\ n = p + 1
      BY <2>1
    <3> HIDE DEF p
    <3>2. Go("send", Line(Still(i, at, k), f, Silence(p)), Idle) = Line(Still(i, at, k), f, Silence(n))
      BY <3>1, StillGo
    <3> QED
      BY <3>2 DEF p
  <2> QED
    BY <2>1, <2>2
<1>4. e[m] = Line(Still(i, at, k), f, Silence(m))
  OBVIOUS
<1> HIDE DEF e, s
<1>5. h[m] = e[m]
  <2>1. Trace(e, "send", s, Silence(m), m)
    BY <1>2, <1>3 DEF Trace
  <2> QED
    BY <1>1, <2>1, OneTrace
<1> QED
  BY <1>1, <1>4, <1>5 DEF s

\* The first wait of SDC$ wakes the card up.
LEMMA WaitAsleep ==
  ASSUME NEW at, NEW k, NEW f, NEW g
  PROVE  waits(Line(Still(0, at, k), f, g)) = Line(Still(Woken, at, k), f, Silence(Tries))
<1> DEFINE s == Line(Still(0, at, k), f, g)
           up(n) == IF n < Woken THEN n ELSE Woken
           e == [n \in 0..Tries |-> Line(Still(up(n), at, k), f, Silence(n))]
<1>0. Tries \in Nat /\ Woken \in Nat \ {0} /\ Woken <= Tries
  BY BoundsAssumption DEF Woken
<1>1. PICK h : Trace(h, "wait", s, Silence(Tries), Tries) /\ waits(s) = h[Tries]
  BY WaitTrace
<1>2. e[0] = Begin(s)
  <2>1. up(0) = 0 /\ 0 \in 0..Tries
    BY <1>0
  <2> HIDE DEF up
  <2> QED
    BY <2>1, BeginLine, SilenceGrows
<1>3. ASSUME NEW n \in 1..Tries PROVE e[n] = Go("wait", e[n - 1], Silence(Tries)[n])
  <2>1. n - 1 \in Nat /\ n - 1 \in 0..Tries /\ n \in 0..Tries /\ (n - 1) + 1 = n
        /\ Silence(Tries)[n] = Idle
    BY <1>0 DEF Silence
  <2>2. CASE n - 1 < Woken
    <3> DEFINE z == <<>>
               t == Line(Card(n - 1, z, z, -1, -2, at, k), f, Silence(n - 1))
    <3>1. Spix(t, Idle) = Line(Card((n - 1) + 1, z, z, -1, -2, at, k), f, Append(Silence(n - 1), Idle))
      <4>1. n - 1 \in Int /\ -1 \in Int /\ -2 \in Int
        OBVIOUS
      <4> HIDE DEF z
      <4> QED
        BY <2>2, <4>1, AsleepSpix
    <3>2. t = e[n - 1]
      BY <2>1, <2>2 DEF Still
    <3>3. (n - 1) + 1 = n /\ up(n) = n /\ Append(Silence(n - 1), Idle) = Silence(n)
      <4>1. (n - 1) + 1 = n /\ up(n) = n
        BY <1>0, <2>2
      <4>2. Append(Silence(n - 1), Idle) = Silence((n - 1) + 1)
        BY <2>1, SilenceGrows
      <4> QED
        BY <4>1, <4>2
    <3>4. Spix(t, Idle) = e[n]
      BY <2>1, <3>1, <3>3 DEF Still
    <3>5. t.got = Silence(n - 1)
      BY LineFields
    <3>6. ~ (t.got # <<>> /\ Last(t.got) # Idle)
      BY <2>1, <3>5, SilenceGrows
    <3> HIDE DEF t, e
    <3> QED
      BY <2>1, <3>2, <3>4, <3>6 DEF Go
  <2>3. CASE ~ (n - 1 < Woken)
    <3>1. up(n - 1) = Woken /\ up(n) = Woken /\ ~ (Woken < Woken) /\ Woken \in Int
      BY <1>0, <2>3
    <3> HIDE DEF up
    <3>2. Go("wait", Line(Still(Woken, at, k), f, Silence(n - 1)), Idle)
            = Line(Still(Woken, at, k), f, Silence(n))
      <4> DEFINE p == n - 1
      <4>1. p \in Nat /\ n = p + 1
        BY <2>1
      <4> HIDE DEF p
      <4>2. Go("wait", Line(Still(Woken, at, k), f, Silence(p)), Idle)
              = Line(Still(Woken, at, k), f, Silence(n))
        BY <3>1, <4>1, StillGo
      <4> QED
        BY <4>2 DEF p
    <3> QED
      BY <2>1, <3>1, <3>2
  <2> QED
    BY <2>2, <2>3
<1>4. e[Tries] = Line(Still(Woken, at, k), f, Silence(Tries))
  BY <1>0
<1> HIDE DEF e, s
<1>5. h[Tries] = e[Tries]
  <2>1. Trace(e, "wait", s, Silence(Tries), Tries)
    BY <1>2, <1>3 DEF Trace
  <2> QED
    BY <1>0, <1>1, <2>1, OneTrace
<1> QED
  BY <1>1, <1>4, <1>5 DEF s

\* A byte heard as another.
LEMMA HitLine ==
  ASSUME NEW c, NEW f, NEW g, NEW i, NEW hit
  PROVE  Hit(Line(c, f, g), i, hit) = Line(c, f, IF i \in DOMAIN g THEN [g EXCEPT ![i] = hit.as] ELSE g)
<1> DEFINE s == Line(c, f, g)
           y == [g EXCEPT ![i] = hit.as]
<1>1. s = Line(c, f, g) /\ s.got = g
  BY LineFields
<1> HIDE DEF s
<1>2. [s EXCEPT !.got = y] = Line(c, f, y)
  <2> HIDE DEF y
  <2> QED
    BY <1>1 DEF Line
<1> QED
  BY <1>1, <1>2 DEF Hit

\* Whatever a wait hears of a card that is still, the card stays still.
LEMMA StillHit ==
  ASSUME NEW i \in Int, ~ (i < Woken), NEW at, NEW k, NEW f, NEW g, NEW part, NEW hit
  PROVE  \E x : wait(Line(Still(i, at, k), f, g), part, hit) = Line(Still(i, at, k), f, x)
<1> DEFINE c == Still(i, at, k)
           s == Line(c, f, g)
<1>0. Tries \in Nat
  BY BoundsAssumption
<1>1. PICK h : Trace(h, "hit", s, Heard(part, hit), Tries) /\ wait(s, part, hit) = h[Tries]
  BY HitTrace
<1> DEFINE S == {n \in 0..Tries : \E x : h[n] = Line(c, f, x)}
<1>2. 0 \in S
  <2>1. Begin(s) = Line(c, f, <<>>)
    <3> HIDE DEF c
    <3> QED
      BY BeginLine
  <2>2. h[0] = Begin(s)
    BY <1>1 DEF Trace
  <2> HIDE DEF c, s
  <2> QED
    BY <1>0, <2>1, <2>2
<1>3. ASSUME NEW n \in 1..Tries, n - 1 \in S PROVE n \in S
  <2> DEFINE v == Heard(part, hit)[n]
             y(x) == IF v[1] \in DOMAIN x THEN [x EXCEPT ![v[1]] = v[3].as] ELSE x
  <2>1. PICK x : h[n - 1] = Line(c, f, x)
    BY <1>3
  <2>2. h[n] = Go("hit", Line(c, f, x), v)
    BY <1>1, <2>1 DEF Trace
  <2> HIDE DEF v
  <2> DEFINE t == Append(x, Idle)
             z == y(t)
  <2>3. Spix(Line(c, f, x), Idle) = Line(c, f, t)
    BY StillSpix
  <2> HIDE DEF c, t
  <2>4. Hit(Line(c, f, t), v[1], v[3]) = Line(c, f, z)
    BY HitLine
  <2> HIDE DEF z
  <2>5. h[n] = Line(c, f, x) \/ h[n] = Line(c, f, t) \/ h[n] = Line(c, f, z)
    BY <2>2, <2>3, <2>4 DEF Go, Hears
  <2>6. \E u : h[n] = Line(c, f, u)
    BY <2>5
  <2> QED
    BY <1>0, <2>6
<1>4. Tries \in S
  <2> HIDE DEF S
  <2>1. 0..Tries \subseteq S
    BY <1>0, <1>2, <1>3, UpTo
  <2> QED
    BY <1>0, <2>1
<1> QED
  BY <1>1, <1>4

\* The first byte that a card has to send, as the wait hears it.
LEMMA FirstHeard ==
  ASSUME NEW i \in Int, ~ (i < Woken), NEW r, NEW q, q # <<>>,
         NEW a \in Int, NEW b \in Int, NEW at, NEW k, NEW f, NEW g, NEW part, NEW hit,
         NEW x, x = (IF hit.part = part /\ hit.nth = 1 THEN hit.as ELSE Head(q)),
         NEW s, s = Line(Card(i, r, q, a, b, at, k), f, g)
  PROVE  Go("hit", Begin(s), Heard(part, hit)[1]) = Line(Card(i, r, Tail(q), a, b, at, k), f, <<x>>)
<1> DEFINE d == Card(i, r, Tail(q), a, b, at, k)
           w == Head(q)
           u == <<w>>
           y == IF 1 \in DOMAIN u THEN [u EXCEPT ![1] = hit.as] ELSE u
           z == <<>>
           t == Begin(s)
           v == <<1, part, hit>>
<1>1. t = Line(Card(i, r, q, a, b, at, k), f, z)
  <2> DEFINE c == Card(i, r, q, a, b, at, k)
  <2>1. s = Line(c, f, g)
    OBVIOUS
  <2> HIDE DEF c
  <2>2. Begin(s) = Line(c, f, <<>>)
    BY <2>1, BeginLine
  <2> QED
    BY <2>2 DEF c
<1>2. t.got = z
  <2> DEFINE c == Card(i, r, q, a, b, at, k)
  <2>1. t = Line(c, f, z)
    BY <1>1
  <2> HIDE DEF c, z, t
  <2> QED
    BY <2>1, LineFields
<1>3. Append(z, w) = u /\ y = <<hit.as>>
  OBVIOUS
<1>4. Heard(part, hit)[1] = v /\ v[1] = 1 /\ v[2] = part /\ v[3] = hit
  <2>1. 1 \in 1..Tries
    BY BoundsAssumption
  <2> QED
    BY <2>1 DEF Heard
<1>8. z = <<>>
  OBVIOUS
<1> HIDE DEF t, z, v
<1>5. Spix(t, Idle) = Line(Card(i, r, Tail(q), a, b, at, k), f, Append(z, Head(q)))
  BY <1>1, SendSpix
<1>6. Spix(t, Idle) = Line(d, f, u)
  BY <1>3, <1>5
<1> HIDE DEF d, w, y
<1>7. Hit(Line(d, f, u), 1, hit) = Line(d, f, y)
  <2> HIDE DEF u
  <2> QED
    BY HitLine DEF y
<1> DEFINE e == <<x>>
<1>9. e = (IF hit.part = part /\ hit.nth = 1 THEN y ELSE u)
  BY <1>3 DEF w
<1> HIDE DEF u, e
<1>10. Go("hit", t, v) = Line(d, f, e)
  BY <1>2, <1>4, <1>6, <1>7, <1>8, <1>9 DEF Go, Hears
<1> QED
  BY <1>4, <1>10 DEF t, d, e

\* A wait for an answer ends with it, as it is heard, unless it is heard as silence.
LEMMA HitAnswer ==
  ASSUME NEW i \in Int, ~ (i < Woken), NEW r, NEW q, q # <<>>,
         NEW a \in Int, NEW b \in Int, NEW at, NEW k, NEW f, NEW g, NEW part, NEW hit,
         NEW x, x = (IF hit.part = part /\ hit.nth = 1 THEN hit.as ELSE Head(q)), x # Idle
  PROVE  wait(Line(Card(i, r, q, a, b, at, k), f, g), part, hit)
           = Line(Card(i, r, Tail(q), a, b, at, k), f, <<x>>)
<1> DEFINE s == Line(Card(i, r, q, a, b, at, k), f, g)
           d == Card(i, r, Tail(q), a, b, at, k)
           u == <<x>>
           t == Line(d, f, u)
<1>0. Tries \in Nat \ {0}
  BY BoundsAssumption
<1>1. PICK h : Trace(h, "hit", s, Heard(part, hit), Tries) /\ wait(s, part, hit) = h[Tries]
  BY HitTrace
<1>2. h[1] = t
  <2>1. Go("hit", Begin(s), Heard(part, hit)[1]) = t
    BY FirstHeard
  <2>2. h[1] = Go("hit", h[1 - 1], Heard(part, hit)[1]) /\ h[0] = Begin(s) /\ 1 - 1 = 0
    BY <1>0, <1>1 DEF Trace
  <2> QED
    BY <2>1, <2>2
<1>3. t.got # <<>> /\ Last(t.got) # Idle
  <2>1. u # <<>> /\ Last(u) = x
    BY DEF Last
  <2> HIDE DEF u, d
  <2> QED
    BY <2>1, LineFields
<1> HIDE DEF s, t
<1> DEFINE S == {n \in 0..Tries : n # 0 => h[n] = t}
<1>4. ASSUME NEW n \in 1..Tries, n - 1 \in S PROVE n \in S
  <2>1. h[n] = Go("hit", h[n - 1], Heard(part, hit)[n])
    BY <1>1 DEF Trace
  <2>2. CASE n = 1
    BY <1>0, <1>2, <2>2
  <2>3. CASE n # 1
    <3>1. h[n - 1] = t
      BY <1>4, <2>3
    <3>2. h[n] = t
      BY <1>3, <2>1, <3>1 DEF Go
    <3> QED
      BY <1>0, <3>2
  <2> QED
    BY <2>2, <2>3
<1>5. h[Tries] = t
  <2>1. 0 \in S
    BY <1>0
  <2> HIDE DEF S
  <2>2. 0..Tries \subseteq S
    BY <1>0, <1>4, <2>1, UpTo
  <2>3. Tries \in S
    BY <1>0, <2>2
  <2> QED
    BY <1>0, <2>3 DEF S
<1> QED
  BY <1>1, <1>5 DEF s, t

\* On a sound line it ends with the answer.
LEMMA WaitAnswer ==
  ASSUME NEW i \in Int, ~ (i < Woken), NEW r, NEW q, q # <<>>, Head(q) # Idle,
         NEW a \in Int, NEW b \in Int, NEW at, NEW k, NEW f, NEW g
  PROVE  waits(Line(Card(i, r, q, a, b, at, k), f, g))
           = Line(Card(i, r, Tail(q), a, b, at, k), f, <<Head(q)>>)
<1> DEFINE x == Head(q)
           u == "wait"
<1>1. x = (IF None.part = u /\ None.nth = 1 THEN None.as ELSE Head(q)) /\ x # Idle
  BY DEF None
<1> HIDE DEF x, u
<1>2. wait(Line(Card(i, r, q, a, b, at, k), f, g), u, None)
        = Line(Card(i, r, Tail(q), a, b, at, k), f, <<x>>)
  BY <1>1, HitAnswer
<1> QED
  BY <1>2 DEF waits, x, u

\* An answer heard as silence is gone, and the wait goes on with what is behind it,
\* from the state t.
Missing(h, t, s, part, hit) ==
  h[1] = t /\ (\A n \in 2..Tries : h[n] = Go("wait", h[n - 1], Idle)) /\ wait(s, part, hit) = h[Tries]
LEMMA AnswerMissed ==
  ASSUME NEW i \in Int, ~ (i < Woken), NEW r, NEW q, q # <<>>,
         NEW a \in Int, NEW b \in Int, NEW at, NEW k, NEW f, NEW g, NEW part, NEW hit,
         hit.part = part, hit.nth = 1, hit.as = Idle,
         NEW s, s = Line(Card(i, r, q, a, b, at, k), f, g)
  PROVE  \E h : Missing(h, Line(Card(i, r, Tail(q), a, b, at, k), f, <<Idle>>), s, part, hit)
<1>0. Tries \in Nat \ {0}
  BY BoundsAssumption
<1>1. PICK h : Trace(h, "hit", s, Heard(part, hit), Tries) /\ wait(s, part, hit) = h[Tries]
  BY HitTrace
<1>2. h[1] = Line(Card(i, r, Tail(q), a, b, at, k), f, <<Idle>>)
  <2>0. Idle = (IF hit.part = part /\ hit.nth = 1 THEN hit.as ELSE Head(q))
    OBVIOUS
  <2> DEFINE x == Idle
  <2>3. x = (IF hit.part = part /\ hit.nth = 1 THEN hit.as ELSE Head(q))
    BY <2>0
  <2> HIDE DEF x
  <2>1. Go("hit", Begin(s), Heard(part, hit)[1]) = Line(Card(i, r, Tail(q), a, b, at, k), f, <<x>>)
    BY <2>3, FirstHeard
  <2>2. h[1] = Go("hit", h[1 - 1], Heard(part, hit)[1]) /\ h[0] = Begin(s) /\ 1 - 1 = 0
    BY <1>0, <1>1 DEF Trace
  <2> QED
    BY <2>1, <2>2 DEF x
<1>3. ASSUME NEW n \in 2..Tries PROVE h[n] = Go("wait", h[n - 1], Idle)
  <2> DEFINE v == <<n, part, hit>>
  <2>1. Heard(part, hit)[n] = v /\ v[1] = n /\ v[2] = part /\ v[3] = hit /\ n # 1 /\ n \in 1..Tries
    BY <1>0 DEF Heard
  <2>2. h[n] = Go("hit", h[n - 1], v)
    BY <1>1, <2>1 DEF Trace
  <2> HIDE DEF v
  <2> QED
    BY <2>1, <2>2 DEF Go, Hears
<1> QED
  BY <1>1, <1>2, <1>3 DEF Missing

-----------------------------------------------------------------------------
(* Commands.                                                               *)

\* The first n elements of w.
First(w, n) == [j \in 1..n |-> w[j]]

\* The first bytes of a sequence, and one more.
LEMMA FirstGrows ==
  ASSUME NEW w
  PROVE  /\ First(w, 0) = <<>>
         /\ \A n \in Nat : /\ Append(First(w, n), w[n + 1]) = First(w, n + 1)
                           /\ Len(First(w, n)) = n
                           /\ \A j \in 1..n : First(w, n)[j] = w[j]
<1>1. First(w, 0) = <<>>
  BY DEF First
<1>2. ASSUME NEW n \in Nat
      PROVE  /\ Append(First(w, n), w[n + 1]) = First(w, n + 1)
             /\ Len(First(w, n)) = n /\ \A j \in 1..n : First(w, n)[j] = w[j]
  <2> DEFINE V == {w[j] : j \in 1..(n + 1)}
  <2>1. First(w, n) \in Seq(V) /\ Len(First(w, n)) = n
    BY DEF First
  <2>2. Append(First(w, n), w[n + 1]) = First(w, n + 1)
    BY DEF First
  <2> QED
    BY <2>1, <2>2 DEF First
<1> QED
  BY <1>1, <1>2

\* A frame of six bytes is gathered and carried out.
LEMMA FrameSent ==
  ASSUME NEW i \in Int, ~ (i < Woken), NEW at, NEW k, NEW f, NEW g, NEW w, Len(w) = 6,
         Opens(w[1])
  PROVE  Sends(Line(Still(i, at, k), f, g), w)
           = Line(Command(Card(i, First(w, 5), <<>>, -1, -2, at, k), First(w, 6)), f, Silence(6))
<1> DEFINE s == Line(Still(i, at, k), f, g)
           z == <<>>
           told(n) == Line(Card(i, First(w, n), z, -1, -2, at, k), f, Silence(n))
           last == Line(Command(Card(i, First(w, 5), z, -1, -2, at, k), First(w, 6)), f, Silence(6))
           e == [n \in 0..6 |-> IF n = 6 THEN last ELSE told(n)]
<1>1. PICK h : Trace(h, "send", s, w, 6) /\ Sends(s, w) = h[6]
  BY SendsTrace
<1>2. e[0] = Begin(s)
  <2>1. First(w, 0) = z /\ Silence(0) = z
    BY FirstGrows, SilenceGrows
  <2>2. e[0] = Line(Still(i, at, k), f, z)
    BY <2>1 DEF Still
  <2> QED
    BY <2>2, BeginLine
<1>3. ASSUME NEW n \in 1..6 PROVE e[n] = Go("send", e[n - 1], w[n])
  <2> DEFINE p == n - 1
             r == First(w, p)
             y == Silence(p)
             v == w[n]
  <2>1. p \in 0..5 /\ p \in Nat /\ n = p + 1 /\ e[n - 1] = told(p)
    OBVIOUS
  <2>2. Append(r, v) = First(w, n) /\ Append(y, Idle) = Silence(n) /\ Len(r) = p
    BY <2>1, FirstGrows, SilenceGrows
  <2>3. r = <<>> => Opens(v)
    <3>1. r = <<>> => Len(r) = 0
      OBVIOUS
    <3>2. p = 0 => n = 1
      BY <2>1
    <3> QED
      BY <2>2, <3>1, <3>2
  <2>4. -1 \in Int /\ -2 \in Int /\ -1 < 0 /\ -2 < -1 /\ z = <<>>
    OBVIOUS
  <2>5. Go("send", told(p), v) = Spix(told(p), v)
    BY DEF Go
  <2>8. told(p) = Line(Card(i, r, z, -1, -2, at, k), f, y)
    OBVIOUS
  <2>9. told(n) = Line(Card(i, First(w, n), z, -1, -2, at, k), f, Silence(n))
    OBVIOUS
  <2>10. v = w[n]
    OBVIOUS
  <2>6. CASE n = 6
    <3>1. r # <<>> /\ ~ (Len(r) < 5)
      <4>1. Len(r) = 5 /\ Len(<<>>) = 0
        BY <2>1, <2>2, <2>6
      <4> HIDE DEF r
      <4> QED
        BY <4>1
    <3>3. p = 5 /\ r = First(w, 5) /\ e[n] = last
      BY <2>1, <2>6
    <3>4. last = Line(Command(Card(i, First(w, 5), z, -1, -2, at, k), First(w, 6)), f, Silence(6))
      OBVIOUS
    <3> HIDE DEF z, r, y, v, told, p, e, last
    <3>2. Spix(Line(Card(i, r, z, -1, -2, at, k), f, y), v)
            = Line(Command(Card(i, r, z, -1, -2, at, k), Append(r, v)), f, Append(y, Idle))
      BY <2>4, <3>1, CommandSpix
    <3> QED
      BY <2>1, <2>2, <2>5, <2>6, <2>8, <2>10, <3>2, <3>3, <3>4
  <2>7. CASE n # 6
    <3>1. Len(r) < 5
      BY <2>1, <2>2, <2>7
    <3>3. e[n] = told(n)
      BY <2>7
    <3> HIDE DEF z, r, y, v, told, p, e
    <3>2. Spix(Line(Card(i, r, z, -1, -2, at, k), f, y), v)
            = Line(Card(i, Append(r, v), z, -1, -2, at, k), f, Append(y, Idle))
      BY <2>3, <2>4, <3>1, GatherSpix
    <3> QED
      BY <2>1, <2>2, <2>5, <2>8, <2>9, <2>10, <3>2, <3>3
  <2> QED
    BY <2>6, <2>7
<1>4. e[6] = last
  OBVIOUS
<1> HIDE DEF e, s, last
<1>5. h[6] = e[6]
  <2>1. Trace(e, "send", s, w, 6)
    BY <1>2, <1>3 DEF Trace
  <2> QED
    BY <1>1, <2>1, OneTrace
<1> QED
  BY <1>1, <1>4, <1>5 DEF s, last

\* The bytes of a frame, the CRC of a command being nothing to an awake card.
Framed(w, c, a1, a2) ==
  /\ Len(w) = 6
  /\ w[1] = c /\ w[2] = High(a1) /\ w[3] = Low(a1) /\ w[4] = High(a2) /\ w[5] = Low(a2)

\* A frame has six bytes.
LEMMA SixBytes ==
  ASSUME NEW b1, NEW b2, NEW b3, NEW b4, NEW b5, NEW b6
  PROVE  LET w == Append(<<b1, b2, b3, b4, b5>>, b6)
         IN  Len(w) = 6 /\ w[1] = b1 /\ w[2] = b2 /\ w[3] = b3 /\ w[4] = b4 /\ w[5] = b5
  OBVIOUS

\* Which a command's frame is made of.
LEMMA FrameIs ==
  ASSUME NEW c, NEW a1, NEW a2
  PROVE  Framed(Frame(c, a1, a2), c, a1, a2)
<1> DEFINE f == <<c, High(a1), Low(a1), High(a2), Low(a2)>>
           x == 2 * (Crc(crc7, f) \div 2) + 1
<1>1. Frame(c, a1, a2) = Append(f, x)
  BY DEF Frame
<1> HIDE DEF x
<1>2. LET w == Append(<<c, High(a1), Low(a1), High(a2), Low(a2)>>, x)
      IN  /\ Len(w) = 6
          /\ w[1] = c /\ w[2] = High(a1) /\ w[3] = Low(a1) /\ w[4] = High(a2) /\ w[5] = Low(a2)
  BY SixBytes
<1> QED
  BY <1>1, <1>2 DEF Framed

\* A command on a sound line.
asks(c, a1, a2) == cmd(c, a1, a2, None)
LEMMA AsksIs ==
  ASSUME NEW c, NEW a1, NEW a2
  PROVE  asks(c, a1, a2) = waits(Sends(waits(Now), Frame(c, a1, a2)))
<1>1. None.part # "before"
  BY DEF None
<1>2. wait(Now, "before", None) = waits(Now)
  BY <1>1, PlainWait
<1> QED
  BY <1>2 DEF asks, cmd, waits

\* What the card makes of a command that is sent,
LEMMA Told ==
  ASSUME NEW c, Opens(c), NEW a1, NEW a2, NEW i \in Int, ~ (i < Woken), NEW at, NEW k, NEW g,
         NEW d,
         \A r, w : Framed(w, c, a1, a2) =>
           Command(Card(i, r, <<>>, -1, -2, at, k), w) = d
  PROVE  Sends(Line(Still(i, at, k), file, g), Frame(c, a1, a2)) = Line(d, file, Silence(6))
<1> DEFINE w == Frame(c, a1, a2)
           z == <<>>
           t == Line(Still(i, at, k), file, g)
<1>1. Framed(w, c, a1, a2)
  BY FrameIs
<1> HIDE DEF w
<1>2. Len(w) = 6 /\ Opens(w[1])
  BY <1>1 DEF Framed
<1>3. Framed(First(w, 6), c, a1, a2)
  <2>1. /\ Len(First(w, 6)) = 6
        /\ \A n \in 1..6 : First(w, 6)[n] = w[n]
    BY FirstGrows
  <2>2. /\ First(w, 6)[1] = w[1] /\ First(w, 6)[2] = w[2] /\ First(w, 6)[3] = w[3]
        /\ First(w, 6)[4] = w[4] /\ First(w, 6)[5] = w[5]
    BY <2>1
  <2> QED
    BY <1>1, <2>1, <2>2 DEF Framed
<1>4. Sends(t, w) = Line(Command(Card(i, First(w, 5), z, -1, -2, at, k), First(w, 6)), file, Silence(6))
  BY <1>2, FrameSent
<1>5. Command(Card(i, First(w, 5), z, -1, -2, at, k), First(w, 6)) = d
  BY <1>3
<1> QED
  BY <1>4, <1>5 DEF t, w

\* and of one that it answers.
LEMMA Asked ==
  ASSUME NEW c, Opens(c), NEW a1, NEW a2, NEW i \in Int, ~ (i < Woken), NEW at, NEW k, NEW g,
         waits(Now) = Line(Still(i, at, k), file, g),
         NEW q, q # <<>>, Head(q) # Idle,
         NEW j \in Int, ~ (j < Woken), NEW a \in Int, NEW b \in Int, NEW to, NEW l,
         \A r, w : Framed(w, c, a1, a2) =>
           Command(Card(i, r, <<>>, -1, -2, at, k), w) = Card(j, <<>>, q, a, b, to, l)
  PROVE  asks(c, a1, a2) = Line(Card(j, <<>>, Tail(q), a, b, to, l), file, <<Head(q)>>)
<1> DEFINE e == Card(j, <<>>, q, a, b, to, l)
           z == <<>>
           y == Silence(6)
<1>1. Sends(waits(Now), Frame(c, a1, a2)) = Line(e, file, y)
  BY Told
<1>2. asks(c, a1, a2) = waits(Line(e, file, y))
  BY <1>1, AsksIs
<1> HIDE DEF z, y
<1>7. waits(Line(Card(j, z, q, a, b, to, l), file, y))
        = Line(Card(j, z, Tail(q), a, b, to, l), file, <<Head(q)>>)
  BY WaitAnswer
<1> QED
  BY <1>2, <1>7 DEF z, e

\* A card that is awake takes four commands to be up.
LEMMA Steps4 ==
  /\ Woken \in Nat \ {0} /\ Up = Woken + 4 /\ Up \in Nat \ {0}
  BY BoundsAssumption DEF Woken, Up

\* What answering makes of a card.
LEMMA AnswersIs ==
  ASSUME NEW i, NEW r, NEW s, NEW a, NEW b, NEW at, NEW k,
         NEW c, c = Card(i, r, s, a, b, at, k), NEW q
  PROVE  Answers(c, q) = Card(i, <<>>, q, a, b, at, k)
<1> DEFINE z == <<>>
           d == [c EXCEPT !.recv = z]
<1>1. Answers(c, q) = [d EXCEPT !.send = q]
  BY DEF Answers
<1>2. d = Card(i, z, s, a, b, at, k)
  <2> HIDE DEF z
  <2> QED
    BY DEF Card
<1> HIDE DEF d, z
<1>3. [d EXCEPT !.send = q] = Card(i, z, q, a, b, at, k)
  BY <1>2 DEF Card
<1>4. Answers(c, q) = Card(i, z, q, a, b, at, k)
  BY <1>1, <1>3
<1> QED
  BY <1>4 DEF z

\* In the initialization a card takes a step on, or is back where it woke up.
StepOn(c, q) == [Answers(c, q) EXCEPT !.initstat = @ + 1]
Restart(c) == [Answers(c, <<>>) EXCEPT !.initstat = Woken]

\* What a step of the initialization makes of a card.
LEMMA StepOnIs ==
  ASSUME NEW i, NEW r, NEW s, NEW a, NEW b, NEW at, NEW k,
         NEW c, c = Card(i, r, s, a, b, at, k), NEW q
  PROVE  /\ StepOn(c, q) = Card(i + 1, <<>>, q, a, b, at, k)
         /\ Restart(c) = Card(Woken, <<>>, <<>>, a, b, at, k)
<1> DEFINE z == <<>>
           j == i + 1
           d == Answers(c, q)
           e == Answers(c, z)
<1>1. d = Card(i, z, q, a, b, at, k) /\ e = Card(i, z, z, a, b, at, k)
  BY AnswersIs
<1>2. StepOn(c, q) = [d EXCEPT !.initstat = d.initstat + 1]
  BY DEF StepOn
<1>3. Restart(c) = [e EXCEPT !.initstat = Woken]
  BY DEF Restart
<1> HIDE DEF d, e, z
<1>4. d.initstat = i
  BY <1>1, CardFields
<1> HIDE DEF j
<1>5. [d EXCEPT !.initstat = j] = Card(j, z, q, a, b, at, k)
  BY <1>1 DEF Card
<1>6. [e EXCEPT !.initstat = Woken] = Card(Woken, z, z, a, b, at, k)
  BY <1>1 DEF Card
<1>7. StepOn(c, q) = Card(j, z, q, a, b, at, k)
  BY <1>2, <1>4, <1>5 DEF j
<1>8. Restart(c) = Card(Woken, z, z, a, b, at, k)
  BY <1>3, <1>6
<1> QED
  BY <1>7, <1>8 DEF j, z

\* A command of the initialization, case by case.
LEMMA CommandIs ==
  ASSUME NEW c, NEW f, c.initstat \in Woken..Up
  PROVE  LET op6  == f[1] % 64
             arg1 == 256 * f[2] + f[3]
             arg2 == 256 * f[4] + f[5]
         IN  /\ c.initstat = Woken => Command(c, f) = IF op6 = 0 THEN StepOn(c, <<1>>) ELSE Restart(c)
             /\ c.initstat = Woken + 1 => Command(c, f) =
                  IF op6 = 8 /\ arg2 = 426 THEN StepOn(c, <<1, 0, 0, 1, 170>>) ELSE Restart(c)
             /\ c.initstat = Woken + 2 => Command(c, f) = IF op6 = 55 THEN StepOn(c, <<1>>) ELSE Restart(c)
             /\ c.initstat = Woken + 3 => Command(c, f) =
                  IF op6 = 41 /\ arg1 = 16384 THEN StepOn(c, <<0>>) ELSE Restart(c)
             /\ c.initstat = Up => Command(c, f) = CommandUp(c, op6, arg2)
<1>1. Woken \in Nat /\ Up = Woken + 4
  BY Steps4
<1> DEFINE op6 == f[1] % 64
           arg1 == 256 * f[2] + f[3]
           arg2 == 256 * f[4] + f[5]
           n == c.initstat
           A == IF op6 = 0 THEN StepOn(c, <<1>>) ELSE Restart(c)
           B == IF op6 = 8 /\ arg2 = 426 THEN StepOn(c, <<1, 0, 0, 1, 170>>) ELSE Restart(c)
           C == IF op6 = 55 THEN StepOn(c, <<1>>) ELSE Restart(c)
           D == IF op6 = 41 /\ arg1 = 16384 THEN StepOn(c, <<0>>) ELSE Restart(c)
           E == CommandUp(c, op6, arg2)
<1>2. Command(c, f) = CASE n = Woken -> A
                        [] n = Woken + 1 -> B
                        [] n = Woken + 2 -> C
                        [] n = Woken + 3 -> D
                        [] n = Up -> E
  BY DEF Command, StepOn, Restart
<1> HIDE DEF A, B, C, D, E
<1>3. /\ n = Woken => Command(c, f) = A
      /\ n = Woken + 1 => Command(c, f) = B
      /\ n = Woken + 2 => Command(c, f) = C
      /\ n = Woken + 3 => Command(c, f) = D
      /\ n = Up => Command(c, f) = E
  <2> HIDE DEF n
  <2> QED
    BY <1>1, <1>2
<1> QED
  BY <1>3 DEF A, B, C, D, E

\* The commands of a card that is up.
LEMMA CommandUpIs ==
  ASSUME NEW i, NEW r, NEW s, NEW a, NEW b, NEW at, NEW k,
         NEW c, c = Card(i, r, s, a, b, at, k), NEW op6, NEW arg
  PROVE  CommandUp(c, op6, arg) =
           IF op6 = 17 THEN Card(i, <<>>, <<0, Token>>, 0, b, arg, 0)
           ELSE IF op6 = 24 THEN Card(i, <<>>, <<0>>, a, -1, arg, 0)
           ELSE Card(i, <<>>, <<0>>, a, b, at, k)
<1> DEFINE z == <<>>
           q == <<0, Token>>
           u == <<0>>
           d == Answers(c, q)
           e == Answers(c, u)
           d1 == [d EXCEPT !.at = arg]
           d2 == [d1 EXCEPT !.cmd17 = 0]
           d3 == [d2 EXCEPT !.crc = 0]
           e1 == [e EXCEPT !.at = arg]
           e2 == [e1 EXCEPT !.cmd24 = -1]
           e3 == [e2 EXCEPT !.crc = 0]
<1>1. d = Card(i, z, q, a, b, at, k) /\ e = Card(i, z, u, a, b, at, k)
  BY AnswersIs
<1>2. CommandUp(c, op6, arg) = IF op6 = 17 THEN d3 ELSE IF op6 = 24 THEN e3 ELSE e
  BY DEF CommandUp
<1> HIDE DEF d, e, z, q, u
<1>3. d1 = Card(i, z, q, a, b, arg, k) /\ e1 = Card(i, z, u, a, b, arg, k)
  BY <1>1 DEF Card
<1> HIDE DEF d1, e1
<1>4. d2 = Card(i, z, q, 0, b, arg, k) /\ e2 = Card(i, z, u, a, -1, arg, k)
  BY <1>3 DEF Card
<1> HIDE DEF d2, e2
<1>5. d3 = Card(i, z, q, 0, b, arg, 0) /\ e3 = Card(i, z, u, a, -1, arg, 0)
  BY <1>4 DEF Card
<1> HIDE DEF d3, e3
<1>6. CommandUp(c, op6, arg) =
           IF op6 = 17 THEN Card(i, z, q, 0, b, arg, 0)
           ELSE IF op6 = 24 THEN Card(i, z, u, a, -1, arg, 0)
           ELSE Card(i, z, u, a, b, at, k)
  BY <1>1, <1>2, <1>5
<1> QED
  BY <1>6 DEF z, q, u

\* A card that answers q goes on as one that waits for a command.
LEMMA AskedStill ==
  ASSUME NEW c, Opens(c), NEW a1, NEW a2, NEW i \in Int, ~ (i < Woken), NEW at, NEW k, NEW g,
         waits(Now) = Line(Still(i, at, k), file, g),
         NEW q, q # Idle, NEW j \in Int, ~ (j < Woken),
         \A r, w : Framed(w, c, a1, a2) =>
           Command(Card(i, r, <<>>, -1, -2, at, k), w) = Card(j, <<>>, <<q>>, -1, -2, at, k)
  PROVE  asks(c, a1, a2) = Line(Still(j, at, k), file, <<q>>)
<1> DEFINE u == <<q>>
           z == <<>>
           m == -1
           n == -2
<1>1. u # <<>> /\ Head(u) = q /\ Tail(u) = z
  OBVIOUS
<1>2. m \in Int /\ n \in Int
  OBVIOUS
<1>3. \A r, w : Framed(w, c, a1, a2) =>
        Command(Card(i, r, <<>>, -1, -2, at, k), w) = Card(j, <<>>, u, m, n, at, k)
  OBVIOUS
<1> HIDE DEF u, m, n
<1>4. asks(c, a1, a2) = Line(Card(j, <<>>, Tail(u), m, n, at, k), file, <<Head(u)>>)
  BY <1>1, <1>2, <1>3, Asked
<1> QED
  BY <1>1, <1>4 DEF m, n, Still

\* A run of a word starts with the card as it is and nothing got.
LEMMA NowIs ==
  ASSUME NEW c, card = c PROVE Now = Line(c, file, <<>>)
  BY DEF Now, Line

\* The codes of the commands open a command,
LEMMA CodesOpen == Opens(64) /\ Opens(72) /\ Opens(119) /\ Opens(105) /\ Opens(122) /\ Opens(81) /\ Opens(88)
  BY DEF Opens

\* and each is the command it stands for.
LEMMA Codes ==
  /\ 64 % 64 = 0 /\ 72 % 64 = 8 /\ 119 % 64 = 55 /\ 105 % 64 = 41 /\ 122 % 64 = 58
  /\ 81 % 64 = 17 /\ 88 % 64 = 24
  /\ 256 * High(426) + Low(426) = 426 /\ 256 * High(16384) + Low(16384) = 16384
  BY DEF High, Low

\* A command that is in its turn takes the card a step on.
LEMMA InTurn ==
  ASSUME NEW i \in Int, NEW at, NEW k, NEW f1, NEW a1, NEW a2, NEW q,
         \A c, w : Framed(w, f1, a1, a2) /\ c.initstat = i => Command(c, w) = StepOn(c, q),
         NEW r, NEW w, Framed(w, f1, a1, a2)
  PROVE  Command(Card(i, r, <<>>, -1, -2, at, k), w) = Card(i + 1, <<>>, q, -1, -2, at, k)
<1> DEFINE z == <<>>
           m == -1
           n == -2
           c == Card(i, r, z, m, n, at, k)
<1>1. c = Card(i, r, z, m, n, at, k)
  OBVIOUS
<1> HIDE DEF z, m, n, c
<1>2. c.initstat = i
  BY <1>1, CardFields
<1>3. Command(c, w) = StepOn(c, q)
  BY <1>2
<1>4. StepOn(c, q) = Card(i + 1, <<>>, q, m, n, at, k)
  BY <1>1, StepOnIs
<1> QED
  BY <1>3, <1>4 DEF z, m, n, c

\* CMD0, to a card that was asleep.
LEMMA ResetAsleep ==
  ASSUME NEW at, NEW k, card = Still(0, at, k)
  PROVE  asks(64, 0, 0) = Line(Still(Woken + 1, at, k), file, <<1>>)
<1> DEFINE i == Woken
           j == i + 1
           q == <<1>>
<1>1. i \in Int /\ j \in Int /\ ~ (i < Woken) /\ ~ (j < Woken) /\ i \in Woken..Up
  BY Steps4
<1>2. waits(Now) = Line(Still(i, at, k), file, Silence(Tries))
  BY NowIs, WaitAsleep
<1>3. \A c, w : Framed(w, 64, 0, 0) /\ c.initstat = i => Command(c, w) = StepOn(c, q)
  BY <1>1, Codes, CommandIs DEF Framed
<1>4. 1 # Idle /\ Opens(64)
  BY CodesOpen, IdleIsSilent
<1> HIDE DEF i
<1>5. \A r, w : Framed(w, 64, 0, 0) =>
        Command(Card(i, r, <<>>, -1, -2, at, k), w) = Card(j, <<>>, q, -1, -2, at, k)
  <2> HIDE DEF q
  <2> QED
    BY <1>1, <1>3, InTurn
<1> HIDE DEF j
<1>6. asks(64, 0, 0) = Line(Still(j, at, k), file, <<1>>)
  BY <1>1, <1>2, <1>4, <1>5, AskedStill
<1> QED
  BY <1>6 DEF i, j

\* CMD55.
LEMMA AppAsked ==
  ASSUME NEW at, NEW k, card = Still(Woken + 2, at, k)
  PROVE  asks(119, 0, 0) = Line(Still(Woken + 3, at, k), file, <<1>>)
<1> DEFINE i == Woken + 2
           j == i + 1
           q == <<1>>
<1>1. i \in Int /\ j \in Int /\ ~ (i < Woken) /\ ~ (j < Woken) /\ i \in Woken..Up /\ j = Woken + 3
  BY Steps4
<1>2. waits(Now) = Line(Still(i, at, k), file, Silence(Tries))
  <2> HIDE DEF i
  <2> QED
    BY <1>1, NowIs, WaitStill DEF i
<1>3. \A c, w : Framed(w, 119, 0, 0) /\ c.initstat = i => Command(c, w) = StepOn(c, q)
  BY <1>1, Codes, CommandIs DEF Framed
<1>4. 1 # Idle /\ Opens(119)
  BY CodesOpen, IdleIsSilent
<1> HIDE DEF i
<1>5. \A r, w : Framed(w, 119, 0, 0) =>
        Command(Card(i, r, <<>>, -1, -2, at, k), w) = Card(j, <<>>, q, -1, -2, at, k)
  <2> HIDE DEF q
  <2> QED
    BY <1>1, <1>3, InTurn
<1> HIDE DEF j
<1>6. asks(119, 0, 0) = Line(Still(j, at, k), file, <<1>>)
  BY <1>1, <1>2, <1>4, <1>5, AskedStill
<1> QED
  BY <1>1, <1>6

\* CMD41.
LEMMA IdleLeft ==
  ASSUME NEW at, NEW k, card = Still(Woken + 3, at, k)
  PROVE  asks(105, 16384, 0) = Line(Still(Up, at, k), file, <<0>>)
<1> DEFINE i == Woken + 3
           j == i + 1
           q == <<0>>
<1>1. i \in Int /\ j \in Int /\ ~ (i < Woken) /\ ~ (j < Woken) /\ i \in Woken..Up /\ j = Up
  BY Steps4
<1>2. waits(Now) = Line(Still(i, at, k), file, Silence(Tries))
  <2> HIDE DEF i
  <2> QED
    BY <1>1, NowIs, WaitStill DEF i
<1>3. \A c, w : Framed(w, 105, 16384, 0) /\ c.initstat = i => Command(c, w) = StepOn(c, q)
  BY <1>1, Codes, CommandIs DEF Framed
<1>4. 0 # Idle /\ Opens(105)
  BY CodesOpen, IdleIsSilent
<1> HIDE DEF i
<1>5. \A r, w : Framed(w, 105, 16384, 0) =>
        Command(Card(i, r, <<>>, -1, -2, at, k), w) = Card(j, <<>>, q, -1, -2, at, k)
  <2> HIDE DEF q
  <2> QED
    BY <1>1, <1>3, InTurn
<1> HIDE DEF j
<1>6. asks(105, 16384, 0) = Line(Still(j, at, k), file, <<0>>)
  BY <1>1, <1>2, <1>4, <1>5, AskedStill
<1> QED
  BY <1>1, <1>6

\* CMD0, to a card that is already up: it stays up.
LEMMA ResetUp ==
  ASSUME NEW at, NEW k, card = Still(Up, at, k)
  PROVE  asks(64, 0, 0) = Line(Still(Up, at, k), file, <<0>>)
<1> DEFINE i == Up
           q == <<0>>
<1>1. i \in Int /\ ~ (i < Woken) /\ i \in Woken..Up
  BY Steps4
<1>2. waits(Now) = Line(Still(i, at, k), file, Silence(Tries))
  <2> HIDE DEF i
  <2> QED
    BY <1>1, NowIs, WaitStill DEF i
<1>3. 0 # Idle /\ Opens(64)
  BY CodesOpen, IdleIsSilent
<1>4. ASSUME NEW r, NEW w, Framed(w, 64, 0, 0)
      PROVE  Command(Card(i, r, <<>>, -1, -2, at, k), w) = Card(i, <<>>, q, -1, -2, at, k)
  <2> DEFINE z == <<>>
             m == -1
             n == -2
             c == Card(i, r, z, m, n, at, k)
             arg == 256 * w[4] + w[5]
  <2>1. c = Card(i, r, z, m, n, at, k)
    OBVIOUS
  <2>2. w[1] % 64 = 0
    BY <1>4, Codes DEF Framed
  <2> HIDE DEF z, m, n, c
  <2>3. c.initstat = i
    BY <2>1, CardFields
  <2>4. Command(c, w) = CommandUp(c, 0, arg)
    BY <1>1, <2>2, <2>3, CommandIs
  <2> HIDE DEF arg
  <2>5. CommandUp(c, 0, arg) = Card(i, <<>>, <<0>>, m, n, at, k)
    BY <2>1, CommandUpIs
  <2> QED
    BY <2>4, <2>5 DEF z, m, n, c
<1> HIDE DEF i
<1>5. asks(64, 0, 0) = Line(Still(i, at, k), file, <<0>>)
  BY <1>1, <1>2, <1>3, <1>4, AskedStill
<1> QED
  BY <1>5 DEF i

\* CMD58.
LEMMA SdhcAsked ==
  ASSUME NEW at, NEW k, card = Still(Up, at, k)
  PROVE  asks(122, 0, 0) = Line(Still(Up, at, k), file, <<0>>)
<1> DEFINE i == Up
           q == <<0>>
<1>1. i \in Int /\ ~ (i < Woken) /\ i \in Woken..Up
  BY Steps4
<1>2. waits(Now) = Line(Still(i, at, k), file, Silence(Tries))
  <2> HIDE DEF i
  <2> QED
    BY <1>1, NowIs, WaitStill DEF i
<1>3. 0 # Idle /\ Opens(122)
  BY CodesOpen, IdleIsSilent
<1>4. ASSUME NEW r, NEW w, Framed(w, 122, 0, 0)
      PROVE  Command(Card(i, r, <<>>, -1, -2, at, k), w) = Card(i, <<>>, q, -1, -2, at, k)
  <2> DEFINE z == <<>>
             m == -1
             n == -2
             c == Card(i, r, z, m, n, at, k)
             arg == 256 * w[4] + w[5]
  <2>1. c = Card(i, r, z, m, n, at, k)
    OBVIOUS
  <2>2. w[1] % 64 = 58
    BY <1>4, Codes DEF Framed
  <2> HIDE DEF z, m, n, c
  <2>3. c.initstat = i
    BY <2>1, CardFields
  <2>4. Command(c, w) = CommandUp(c, 58, arg)
    BY <1>1, <2>2, <2>3, CommandIs
  <2> HIDE DEF arg
  <2>5. CommandUp(c, 58, arg) = Card(i, <<>>, <<0>>, m, n, at, k)
    BY <2>1, CommandUpIs
  <2> QED
    BY <2>4, <2>5 DEF z, m, n, c
<1> HIDE DEF i
<1>5. asks(122, 0, 0) = Line(Still(i, at, k), file, <<0>>)
  BY <1>1, <1>2, <1>3, <1>4, AskedStill
<1> QED
  BY <1>5 DEF i

\* An SDHC card takes the number of the sector, which fits a word.
LEMMA WordBytes ==
  ASSUME NEW n \in Nat PROVE 256 * High(n) + Low(n) = n
  BY DEF High, Low

\* CMD17.
LEMMA ReadTold ==
  ASSUME NEW at, NEW k, NEW g, NEW to \in Nat
  PROVE  Sends(Line(Still(Up, at, k), file, g), Frame(81, 0, to))
           = Line(Card(Up, <<>>, <<0, Token>>, 0, -2, to, 0), file, Silence(6))
<1> DEFINE i == Up
           m == -1
           n == -2
           d == Card(i, <<>>, <<0, Token>>, 0, n, to, 0)
<1>1. i \in Int /\ ~ (i < Woken) /\ i \in Woken..Up
  BY Steps4
<1>3. Opens(81)
  BY CodesOpen
<1>4. ASSUME NEW r, NEW w, Framed(w, 81, 0, to)
      PROVE  Command(Card(i, r, <<>>, -1, -2, at, k), w) = d
  <2> DEFINE z == <<>>
             c == Card(i, r, z, m, n, at, k)
  <2>1. c = Card(i, r, z, m, n, at, k)
    OBVIOUS
  <2>2. w[1] % 64 = 17
    BY <1>4, Codes DEF Framed
  <2>6. 256 * w[4] + w[5] = to
    BY <1>4, WordBytes DEF Framed
  <2> HIDE DEF z, m, n, c, d
  <2>3. c.initstat = i
    BY <2>1, CardFields
  <2>4. Command(c, w) = CommandUp(c, 17, to)
    BY <1>1, <2>2, <2>3, <2>6, CommandIs
  <2>5. CommandUp(c, 17, to) = Card(i, <<>>, <<0, Token>>, 0, n, to, 0)
    BY <2>1, CommandUpIs
  <2> QED
    BY <2>4, <2>5 DEF z, m, n, c, d
<1> HIDE DEF i, d
<1> QED
  BY <1>1, <1>3, <1>4, Told DEF i, d, n

LEMMA ReadAsked ==
  ASSUME NEW at, NEW k, card = Still(Up, at, k), NEW to \in Nat
  PROVE  asks(81, 0, to) = Line(Card(Up, <<>>, <<Token>>, 0, -2, to, 0), file, <<0>>)
<1> DEFINE q == <<0, Token>>
           n == -2
           o == 0
           z == <<>>
           y == Silence(6)
<1>1. Up \in Int /\ ~ (Up < Woken) /\ o \in Int /\ n \in Int
  BY Steps4
<1>2. waits(Now) = Line(Still(Up, at, k), file, Silence(Tries))
  BY <1>1, NowIs, WaitStill
<1>3. asks(81, 0, to) = waits(Line(Card(Up, z, q, o, n, to, 0), file, y))
  BY <1>2, ReadTold, AsksIs
<1>5. q # <<>> /\ Head(q) = 0 /\ Tail(q) = <<Token>> /\ 0 # Idle
  BY IdleIsSilent
<1> HIDE DEF q, n, o, z, y
<1>6. waits(Line(Card(Up, z, q, o, n, to, 0), file, y))
        = Line(Card(Up, z, Tail(q), o, n, to, 0), file, <<Head(q)>>)
  BY <1>1, <1>5, WaitAnswer
<1> QED
  BY <1>3, <1>5, <1>6 DEF n, o, z

\* CMD24.
LEMMA WriteAsked ==
  ASSUME NEW at, NEW k, card = Still(Up, at, k), NEW to \in Nat
  PROVE  asks(88, 0, to) = Line(Card(Up, <<>>, <<>>, -1, -1, to, 0), file, <<0>>)
<1> DEFINE i == Up
           q == <<0>>
           x == <<>>
           m == -1
           n == -2
<1>1. i \in Int /\ ~ (i < Woken) /\ i \in Woken..Up /\ m \in Int /\ n \in Int
  BY Steps4
<1>2. waits(Now) = Line(Still(i, at, k), file, Silence(Tries))
  <2> HIDE DEF i
  <2> QED
    BY <1>1, NowIs, WaitStill DEF i
<1>3. 0 # Idle /\ Opens(88)
  BY CodesOpen, IdleIsSilent
<1>4. ASSUME NEW r, NEW w, Framed(w, 88, 0, to)
      PROVE  Command(Card(i, r, <<>>, -1, -2, at, k), w) = Card(i, <<>>, q, m, m, to, 0)
  <2> DEFINE z == <<>>
             c == Card(i, r, z, m, n, at, k)
  <2>1. c = Card(i, r, z, m, n, at, k)
    OBVIOUS
  <2>2. w[1] % 64 = 24
    BY <1>4, Codes DEF Framed
  <2>6. 256 * w[4] + w[5] = to
    BY <1>4, WordBytes DEF Framed
  <2> HIDE DEF z, n, c
  <2>3. c.initstat = i
    BY <2>1, CardFields
  <2>4. Command(c, w) = CommandUp(c, 24, to)
    BY <1>1, <2>2, <2>3, <2>6, CommandIs
  <2>5. CommandUp(c, 24, to) = Card(i, <<>>, <<0>>, m, -1, to, 0)
    <3> HIDE DEF m
    <3> QED
      BY <2>1, CommandUpIs
  <2> QED
    BY <2>4, <2>5 DEF z, n, c
<1>5. q # <<>> /\ Head(q) = 0 /\ Tail(q) = x
  OBVIOUS
<1> HIDE DEF i, q, m
<1>6. asks(88, 0, to) = Line(Card(i, <<>>, Tail(q), m, m, to, 0), file, <<Head(q)>>)
  BY <1>1, <1>2, <1>3, <1>4, <1>5, Asked
<1> QED
  BY <1>5, <1>6 DEF i, m

\* CMD8, whose answer goes on for four bytes more.
LEMMA VoltageAsked ==
  ASSUME NEW at, NEW k, card = Still(Woken + 1, at, k)
  PROVE  asks(72, 0, 426) = Line(Card(Woken + 2, <<>>, <<0, 0, 1, 170>>, -1, -2, at, k), file, <<1>>)
<1> DEFINE i == Woken + 1
           j == i + 1
           q == <<1, 0, 0, 1, 170>>
           x == <<0, 0, 1, 170>>
           m == -1
           n == -2
<1>1. /\ i \in Int /\ j \in Int /\ ~ (i < Woken) /\ ~ (j < Woken) /\ i \in Woken..Up
      /\ j = Woken + 2 /\ m \in Int /\ n \in Int
  BY Steps4
<1>2. waits(Now) = Line(Still(i, at, k), file, Silence(Tries))
  <2> HIDE DEF i
  <2> QED
    BY <1>1, NowIs, WaitStill DEF i
<1>3. \A c, w : Framed(w, 72, 0, 426) /\ c.initstat = i => Command(c, w) = StepOn(c, q)
  BY <1>1, Codes, CommandIs DEF Framed
<1>4. 1 # Idle /\ Opens(72)
  BY CodesOpen, IdleIsSilent
<1> HIDE DEF i
<1>5. \A r, w : Framed(w, 72, 0, 426) =>
        Command(Card(i, r, <<>>, -1, -2, at, k), w) = Card(j, <<>>, q, m, n, at, k)
  <2> HIDE DEF q
  <2> QED
    BY <1>1, <1>3, InTurn
<1> HIDE DEF j
<1>6. q # <<>> /\ Head(q) = 1 /\ Tail(q) = x
  OBVIOUS
<1> HIDE DEF q, m, n
<1>7. asks(72, 0, 426) = Line(Card(j, <<>>, Tail(q), m, n, at, k), file, <<Head(q)>>)
  BY <1>1, <1>2, <1>4, <1>5, <1>6, Asked
<1> QED
  BY <1>1, <1>6, <1>7 DEF m, n

\* Four bytes of five.
LEMMA FirstFour ==
  LET x == <<0, 0, 1, 170>>
  IN  /\ First(x, 4) = x
      /\ Tail(x) = <<0, 1, 170>> /\ Tail(<<0, 1, 170>>) = <<1, 170>>
      /\ Tail(<<1, 170>>) = <<170>> /\ Tail(<<170>>) = <<>>
<1> DEFINE x == <<0, 0, 1, 170>>
<1>1. x \in Seq(Nat) /\ Len(x) = 4
  OBVIOUS
<1>2. First(x, 4) = x
  <2> HIDE DEF x
  <2> QED
    BY <1>1 DEF First
<1>3. Tail(x) = <<0, 1, 170>>
  OBVIOUS
<1>4. Tail(<<0, 1, 170>>) = <<1, 170>>
  OBVIOUS
<1>5. Tail(<<1, 170>>) = <<170>> /\ Tail(<<170>>) = <<>>
  OBVIOUS
<1> QED
  BY <1>2, <1>3, <1>4, <1>5

\* The driver takes them.
Four(s) == Idles(s, 4)
LEMMA FourTaken ==
  ASSUME NEW i \in Int, ~ (i < Woken), NEW at, NEW k, NEW f, NEW g
  PROVE  Four(Line(Card(i, <<>>, <<0, 0, 1, 170>>, -1, -2, at, k), f, g))
           = Line(Still(i, at, k), f, <<0, 0, 1, 170>>)
<1> DEFINE z == <<>>
           m == -1
           o == -2
           x == <<0, 0, 1, 170>>
           y == Silence(4)
           left(q, n) == Line(Card(i, z, q, m, o, at, k), f, First(x, n))
           s == Line(Card(i, z, x, m, o, at, k), f, g)
<1>0. Len(y) = 4 /\ Four(s) = Sends(s, y) /\ m \in Int /\ o \in Int
  BY SilenceGrows DEF Four, Idles, Silence
<1> HIDE DEF s, y
<1>1. PICK h : Trace(h, "send", s, y, 4) /\ Four(s) = h[4]
  <2>1. Len(y) \in Nat
    BY <1>0
  <2>2. \E h : Trace(h, "send", s, y, Len(y)) /\ Sends(s, y) = h[Len(y)]
    BY <2>1, SendsTrace
  <2> HIDE DEF m, o
  <2> QED
    BY <1>0, <2>2
<1>2. ASSUME NEW q, NEW n \in Nat, NEW p, p = n + 1, NEW v, q # <<>>, Head(q) = x[p]
      PROVE  Go("send", left(q, n), v) = left(Tail(q), p)
  <2> DEFINE r == First(x, n)
             b == x[p]
  <2> HIDE DEF z, m, o, x
  <2>1. Append(r, b) = First(x, p)
    BY <1>2, FirstGrows
  <2> HIDE DEF r
  <2>2. Spix(Line(Card(i, z, q, m, o, at, k), f, r), v)
          = Line(Card(i, z, Tail(q), m, o, at, k), f, Append(r, Head(q)))
    BY <1>0, <1>2, SendSpix
  <2> QED
    BY <1>2, <2>1, <2>2 DEF Go, r
<1>3. h[0] = left(x, 0)
  <2> HIDE DEF z, m, o, x
  <2>1. First(x, 0) = <<>>
    BY FirstGrows
  <2>2. Begin(s) = Line(Card(i, z, x, m, o, at, k), f, <<>>)
    BY BeginLine DEF s
  <2> QED
    BY <1>1, <2>1, <2>2 DEF Trace
<1>4. /\ h[1] = Go("send", h[0], y[1]) /\ h[2] = Go("send", h[1], y[2])
      /\ h[3] = Go("send", h[2], y[3]) /\ h[4] = Go("send", h[3], y[4])
  BY <1>1 DEF Trace
<1>5. h[1] = left(<<0, 1, 170>>, 1)
  <2>1. x # <<>> /\ Head(x) = x[1] /\ Tail(x) = <<0, 1, 170>>
    BY FirstFour
  <2> HIDE DEF x, left
  <2>2. \A v : Go("send", left(x, 0), v) = left(Tail(x), 1)
    BY <1>2, <2>1
  <2> QED
    BY <1>3, <1>4, <2>1, <2>2
<1>6. h[2] = left(<<1, 170>>, 2)
  <2> DEFINE q == <<0, 1, 170>>
  <2>1. q # <<>> /\ Head(q) = x[2] /\ Tail(q) = <<1, 170>>
    BY FirstFour
  <2> HIDE DEF x, left, q
  <2>2. \A v : Go("send", left(q, 1), v) = left(Tail(q), 2)
    BY <1>2, <2>1
  <2> QED
    BY <1>4, <1>5, <2>1, <2>2 DEF q
<1>7. h[3] = left(<<170>>, 3)
  <2> DEFINE q == <<1, 170>>
  <2>1. q # <<>> /\ Head(q) = x[3] /\ Tail(q) = <<170>>
    BY FirstFour
  <2> HIDE DEF x, left, q
  <2>2. \A v : Go("send", left(q, 2), v) = left(Tail(q), 3)
    BY <1>2, <2>1
  <2> QED
    BY <1>4, <1>6, <2>1, <2>2 DEF q
<1>8. h[4] = left(<<>>, 4)
  <2> DEFINE q == <<170>>
  <2>1. q # <<>> /\ Head(q) = x[4] /\ Tail(q) = <<>>
    BY FirstFour
  <2> HIDE DEF x, left, q
  <2>2. \A v : Go("send", left(q, 3), v) = left(Tail(q), 4)
    BY <1>2, <2>1
  <2> QED
    BY <1>4, <1>7, <2>1, <2>2 DEF q
<1> QED
  BY <1>1, <1>8, FirstFour DEF s, Still

Steps(f, V, v0, n, step) ==
  f \in [0..n -> V] /\ \A i \in 0..n : f[i] = IF i = 0 THEN v0 ELSE step[i][f[i - 1]]

\* Doing a step n times from v0 stays where the step does.
LEMMA Repeated ==
  ASSUME NEW V, NEW v0 \in V, NEW n \in Nat, NEW step \in [1..n -> [V -> V]]
  PROVE  \E f : Steps(f, V, v0, n, step)
<1> DEFINE Eq(f, k) == \A i \in 0..k : f[i] = IF i = 0 THEN v0 ELSE step[i][f[i - 1]]
           S == {k \in 0..n : \E f \in [0..k -> V] : Eq(f, k)}
<1>1. 0 \in S
  <2> DEFINE g == [i \in 0..0 |-> v0]
  <2>1. g \in [0..0 -> V] /\ Eq(g, 0)
    OBVIOUS
  <2> HIDE DEF Eq, g
  <2> QED
    BY <2>1
<1>2. ASSUME NEW k \in 1..n, k - 1 \in S PROVE k \in S
  <2>1. PICK f \in [0..(k - 1) -> V] : Eq(f, k - 1)
    BY <1>2
  <2> DEFINE g == [i \in 0..k |-> IF i = k THEN step[k][f[k - 1]] ELSE f[i]]
  <2>2. f[k - 1] \in V /\ step[k][f[k - 1]] \in V
    OBVIOUS
  <2>3. g \in [0..k -> V]
    BY <2>2
  <2>4. ASSUME NEW i \in 0..k PROVE g[i] = IF i = 0 THEN v0 ELSE step[i][g[i - 1]]
    <3>1. i # 0 => i - 1 \in 0..k /\ i - 1 # k /\ g[i - 1] = f[i - 1]
      OBVIOUS
    <3>2. CASE i = k
      BY <3>1, <3>2
    <3>3. CASE i # k
      <4>1. i \in 0..(k - 1) /\ g[i] = f[i]
        BY <3>3
      <4> QED
        BY <2>1, <3>1, <4>1
    <3> QED
      BY <3>2, <3>3
  <2> HIDE DEF g
  <2>5. Eq(g, k)
    BY <2>4
  <2> HIDE DEF Eq
  <2> QED
    BY <2>3, <2>5
<1>3. n \in S
  <2> HIDE DEF S
  <2>1. 0..n \subseteq S
    BY <1>1, <1>2, UpTo
  <2> QED
    BY <2>1
<1> QED
  BY <1>3 DEF Steps

-----------------------------------------------------------------------------
(* The bits of a number.                                                   *)

\* Division has one quotient and one rest.
LEMMA Rest ==
  ASSUME NEW p \in Nat, p > 0, NEW a \in Nat
  PROVE  /\ a \div p \in Nat /\ a % p \in Nat /\ a % p < p
         /\ a = p * (a \div p) + (a % p)
  OBVIOUS

\* A number split into a multiple and less than one more has them.
LEMMA Quotient ==
  ASSUME NEW p \in Nat, p > 0, NEW q \in Nat, NEW r \in Nat, r < p, NEW a, a = p * q + r
  PROVE  a \div p = q /\ a % p = r
<1> DEFINE x == a \div p
           y == a % p
<1>1. a = p * x + y /\ y < p /\ y \in Nat /\ x \in Nat
  OBVIOUS
<1> HIDE DEF x, y
<1>2. p * x + y = p * q + r /\ y < p /\ y \in Nat /\ x \in Nat
  BY <1>1
<1>3. x < q => p * (q - x) >= p
  <2> DEFINE d == q - x - 1
  <2>1. x < q => d \in Nat /\ q - x = d + 1
    BY <1>2
  <2> HIDE DEF d
  <2>2. x < q => p * d \in Nat /\ p * (d + 1) = p * d + p
    BY <2>1
  <2> QED
    BY <2>1, <2>2
<1>4. q < x => p * (x - q) >= p
  <2> DEFINE d == x - q - 1
  <2>1. q < x => d \in Nat /\ x - q = d + 1
    BY <1>2
  <2> HIDE DEF d
  <2>2. q < x => p * d \in Nat /\ p * (d + 1) = p * d + p
    BY <2>1
  <2> QED
    BY <2>1, <2>2
<1>5. p * (q - x) = p * q - p * x /\ p * (x - q) = p * x - p * q
  BY <1>2
<1>6. x = q
  BY <1>2, <1>3, <1>4, <1>5
<1> QED
  BY <1>2, <1>6 DEF x, y

\* A number below the divisor is its own rest.
LEMMA Below ==
  ASSUME NEW p \in Nat, NEW a \in Nat, a < p
  PROVE  a \div p = 0 /\ a % p = a
<1> DEFINE q == 0
<1>1. q \in Nat /\ a = p * q + a /\ p > 0
  OBVIOUS
<1> HIDE DEF q
<1>2. a \div p = q /\ a % p = a
  BY <1>1, Quotient
<1> QED
  BY <1>2 DEF q

Pow(k) == 2^k

\* Each power of two is twice the one before.
LEMMA Powers ==
  /\ Pow(0) = 1
  /\ \A k \in 0..18 : Pow(k) \in Nat /\ Pow(k) > 0
  /\ \A k \in 0..17 : Pow(k + 1) = 2 * Pow(k)
<1>1. ASSUME NEW k \in 0..17
      PROVE Pow(k) \in Nat /\ Pow(k) > 0 /\ Pow(k + 1) \in Nat /\ Pow(k + 1) > 0
            /\ Pow(k + 1) = 2 * Pow(k)
  <2>1. \/ k = 0 \/ k = 1 \/ k = 2 \/ k = 3 \/ k = 4 \/ k = 5 \/ k = 6 \/ k = 7 \/ k = 8
        \/ k = 9 \/ k = 10 \/ k = 11 \/ k = 12 \/ k = 13 \/ k = 14 \/ k = 15 \/ k = 16 \/ k = 17
    OBVIOUS
  <2>2. /\ 2^0 = 1 /\ 2^1 = 2 /\ 2^2 = 4 /\ 2^3 = 8 /\ 2^4 = 16 /\ 2^5 = 32 /\ 2^6 = 64
        /\ 2^7 = 128 /\ 2^8 = 256 /\ 2^9 = 512 /\ 2^10 = 1024 /\ 2^11 = 2048 /\ 2^12 = 4096
        /\ 2^13 = 8192 /\ 2^14 = 16384 /\ 2^15 = 32768 /\ 2^16 = 65536 /\ 2^17 = 131072
        /\ 2^18 = 262144
    OBVIOUS
  <2>3. /\ Pow(0) = 1 /\ Pow(1) = 2 /\ Pow(2) = 4 /\ Pow(3) = 8 /\ Pow(4) = 16 /\ Pow(5) = 32
        /\ Pow(6) = 64 /\ Pow(7) = 128 /\ Pow(8) = 256 /\ Pow(9) = 512 /\ Pow(10) = 1024
        /\ Pow(11) = 2048 /\ Pow(12) = 4096 /\ Pow(13) = 8192 /\ Pow(14) = 16384
        /\ Pow(15) = 32768 /\ Pow(16) = 65536 /\ Pow(17) = 131072 /\ Pow(18) = 262144
    BY <2>2 DEF Pow
  <2> QED
    BY <2>1, <2>3
<1>2. Pow(0) = 1
  BY DEF Pow
<1>3. ASSUME NEW k \in 0..18 PROVE Pow(k) \in Nat /\ Pow(k) > 0
  <2> DEFINE j == k - 1
  <2>1. CASE k = 18
    <3>1. j \in 0..17 /\ j + 1 = k
      BY <2>1
    <3> HIDE DEF j
    <3> QED
      BY <1>1, <3>1
  <2>2. CASE k # 18
    BY <1>1, <2>2
  <2> QED
    BY <2>1, <2>2
<1> QED
  BY <1>1, <1>2, <1>3

\* A power is an even multiple of each one below it.
LEMMA PowersOver ==
  ASSUME NEW i \in 0..18, NEW j \in 0..18, i < j
  PROVE  \E m \in Nat : Pow(j) = Pow(i) * (2 * m)
<1> DEFINE N == 17 - i
           p == Pow(i)
           S == {d \in 0..N : \E m \in Nat : Pow(i + d + 1) = p * (2 * m)}
<1>1. N \in Nat /\ p \in Nat
  BY Powers
<1>2. 0 \in S
  <2>1. Pow(i + 1) = p * (2 * 1) /\ i + 0 + 1 = i + 1
    BY Powers
  <2>2. Pow(i + 0 + 1) = p * (2 * 1) /\ 1 \in Nat /\ 0 \in 0..N
    BY <2>1
  <2> HIDE DEF p, N
  <2> QED
    BY <2>2
<1>3. ASSUME NEW d \in 1..N, d - 1 \in S PROVE d \in S
  <2>1. PICK m \in Nat : Pow(i + (d - 1) + 1) = p * (2 * m)
    BY <1>3
  <2> DEFINE k == i + d
             x == 2 * m
  <2>2. k \in 0..17 /\ i + (d - 1) + 1 = k /\ i + d + 1 = k + 1 /\ x \in Nat
    OBVIOUS
  <2>3. Pow(k) = p * x
    BY <2>1, <2>2
  <2> HIDE DEF k, p, x
  <2>4. Pow(k + 1) = 2 * Pow(k) /\ 2 * (p * x) = p * (2 * x)
    BY <1>1, <2>2, Powers
  <2> QED
    BY <2>2, <2>3, <2>4
<1>4. 0..N \subseteq S
  <2> HIDE DEF S, N
  <2> QED
    BY <1>1, <1>2, <1>3, UpTo
<1> DEFINE e == j - i - 1
<1>5. e \in 0..N /\ i + e + 1 = j
  OBVIOUS
<1> HIDE DEF e, N
<1> QED
  BY <1>4, <1>5

\* Powers multiply by adding up.
LEMMA PowersTimes ==
  ASSUME NEW i \in 0..18, NEW j \in 0..18, i + j <= 18
  PROVE  Pow(i + j) = Pow(i) * Pow(j)
<1> DEFINE p == Pow(i)
           N == 18 - i
           S == {d \in 0..N : Pow(i + d) = p * Pow(d)}
<1>1. N \in Nat /\ p \in Nat
  BY Powers
<1>2. 0 \in S
  BY <1>1, Powers
<1>3. ASSUME NEW d \in 1..N, d - 1 \in S PROVE d \in S
  <2> DEFINE e == d - 1
             k == i + e
             x == Pow(e)
  <2>1. k \in 0..17 /\ e \in 0..17 /\ i + d = k + 1 /\ d = e + 1
    OBVIOUS
  <2>2. Pow(k) = p * x
    BY <1>3
  <2> HIDE DEF p, k, e
  <2>3. Pow(k + 1) = 2 * Pow(k) /\ Pow(e + 1) = 2 * x /\ x \in Nat
    BY <2>1, Powers
  <2> HIDE DEF x
  <2>4. 2 * (p * x) = p * (2 * x)
    BY <1>1, <2>3
  <2> QED
    BY <2>1, <2>2, <2>3, <2>4
<1>4. 0..N \subseteq S
  <2> HIDE DEF S, N
  <2> QED
    BY <1>1, <1>2, <1>3, UpTo
<1>5. j \in 0..N
  OBVIOUS
<1> HIDE DEF N
<1> QED
  BY <1>4, <1>5

\* What is twice as high leaves a bit alone.
LEMMA BitAbove ==
  ASSUME NEW a \in Nat, NEW m \in Nat, NEW i \in 0..18
  PROVE  Bit(a + Pow(i) * (2 * m), i) <=> Bit(a, i)
<1> DEFINE p == Pow(i)
           q == a \div p
           r == a % p
           b == a + p * (2 * m)
<1>1. p \in Nat /\ p > 0
  BY Powers
<1>2. q \in Nat /\ r \in Nat /\ r < p /\ a = p * q + r
  <2> HIDE DEF p
  <2> QED
    BY <1>1, Rest
<1>3. b = p * (q + 2 * m) + r
  <2> HIDE DEF p, q, r
  <2> QED
    BY <1>1, <1>2
<1>4. b \div p = q + 2 * m
  <2> DEFINE x == q + 2 * m
  <2>1. x \in Nat
    BY <1>2
  <2> HIDE DEF p, q, r, b, x
  <2>2. b = p * x + r
    BY <1>3 DEF x
  <2>3. b \div p = x
    BY <1>1, <1>2, <2>1, <2>2, Quotient
  <2> QED
    BY <2>3 DEF x
<1>5. (q + 2 * m) % 2 = q % 2
  BY <1>2
<1> HIDE DEF q, b
<1>6. Bit(b, i) <=> (b \div p) % 2 = 1
  BY DEF Bit, Pow
<1>7. Bit(a, i) <=> q % 2 = 1
  BY DEF Bit, Pow, q
<1> QED
  BY <1>4, <1>5, <1>6, <1>7 DEF b

\* Adding a power sets its bit and leaves those below.
LEMMA BitAdded ==
  ASSUME NEW a \in Nat, NEW j \in 0..18, a < Pow(j)
  PROVE  /\ ~ Bit(a, j) /\ Bit(a + Pow(j), j)
         /\ \A i \in 0..(j - 1) : Bit(a + Pow(j), i) <=> Bit(a, i)
<1> DEFINE p == Pow(j)
           b == a + p
<1>1. p \in Nat /\ p > 0
  BY Powers
<1>2. a \div p = 0 /\ b \div p = 1
  <2>1. a = p * 0 + a /\ b = p * 1 + a /\ a < p
    BY <1>1
  <2> HIDE DEF p, b
  <2> QED
    BY <1>1, <2>1, Quotient
<1>3. ~ Bit(a, j) /\ Bit(b, j)
  <2> HIDE DEF b
  <2>1. (Bit(a, j) <=> (a \div p) % 2 = 1) /\ (Bit(b, j) <=> (b \div p) % 2 = 1)
    BY DEF Bit, Pow
  <2> QED
    BY <1>2, <2>1
<1>4. ASSUME NEW i \in 0..(j - 1) PROVE Bit(b, i) <=> Bit(a, i)
  <2>1. i \in 0..18 /\ i < j
    OBVIOUS
  <2>2. PICK m \in Nat : Pow(j) = Pow(i) * (2 * m)
    BY <2>1, PowersOver
  <2> QED
    BY <2>1, <2>2, BitAbove
<1> QED
  BY <1>3, <1>4

Sums(at, S, n) ==
  /\ at[0] = 0
  /\ \A i \in 1..n : at[i] = at[i - 1] + (IF (i - 1) \in S THEN Pow(i - 1) ELSE 0)

\* FromBits adds the powers one after another.
LEMMA Builds ==
  ASSUME NEW S, NEW n \in 0..18
  PROVE  \E at : Sums(at, S, n) /\ FromBits(S, n) = at[n]
<1> DEFINE Step(f) == [i \in 0..n |-> IF i = 0 THEN 0
                         ELSE f[i - 1] + (IF (i - 1) \in S THEN 2^(i - 1) ELSE 0)]
           sum == CHOOSE f : f = Step(f)
           T == {k \in 0..n : \E f : f = [i \in 0..k |-> IF i = 0 THEN 0
                         ELSE f[i - 1] + (IF (i - 1) \in S THEN 2^(i - 1) ELSE 0)]}
<1>1. 0 \in T
  <2> DEFINE g == [i \in 0..0 |-> 0]
  <2>1. g = [i \in 0..0 |-> IF i = 0 THEN 0
                         ELSE g[i - 1] + (IF (i - 1) \in S THEN 2^(i - 1) ELSE 0)]
    OBVIOUS
  <2> HIDE DEF g
  <2> QED
    BY <2>1
<1>2. ASSUME NEW k \in 1..n, k - 1 \in T PROVE k \in T
  <2>1. PICK f : f = [i \in 0..(k - 1) |-> IF i = 0 THEN 0
                         ELSE f[i - 1] + (IF (i - 1) \in S THEN 2^(i - 1) ELSE 0)]
    BY <1>2
  <2> DEFINE w(i) == IF (i - 1) \in S THEN 2^(i - 1) ELSE 0
             g == [i \in 0..k |-> IF i = k THEN f[k - 1] + w(k) ELSE f[i]]
  <2>2. ASSUME NEW i \in 0..k PROVE g[i] = IF i = 0 THEN 0 ELSE g[i - 1] + w(i)
    <3> HIDE DEF w
    <3>1. i # 0 => i - 1 \in 0..k /\ i - 1 # k /\ g[i - 1] = f[i - 1]
      OBVIOUS
    <3>2. CASE i = k
      BY <3>1, <3>2
    <3>3. CASE i # k
      <4>1. i \in 0..(k - 1) /\ g[i] = f[i]
        BY <3>3
      <4>2. f[i] = IF i = 0 THEN 0 ELSE f[i - 1] + w(i)
        BY <2>1, <4>1 DEF w
      <4> QED
        BY <3>1, <4>1, <4>2
    <3> QED
      BY <3>2, <3>3
  <2>3. g = [i \in 0..k |-> g[i]]
    OBVIOUS
  <2> HIDE DEF g
  <2>4. g = [i \in 0..k |-> IF i = 0 THEN 0
                         ELSE g[i - 1] + (IF (i - 1) \in S THEN 2^(i - 1) ELSE 0)]
    BY <2>2, <2>3
  <2> QED
    BY <2>4
<1>3. n \in T
  <2> HIDE DEF T
  <2>1. 0..n \subseteq T
    BY <1>1, <1>2, UpTo
  <2> QED
    BY <2>1
<1>4. sum = Step(sum)
  BY <1>3
<1>5. FromBits(S, n) = sum[n]
  BY DEF FromBits
<1> HIDE DEF sum
<1>6. sum[0] = 0
  BY <1>4
<1>7. ASSUME NEW i \in 1..n PROVE sum[i] = sum[i - 1] + (IF (i - 1) \in S THEN Pow(i - 1) ELSE 0)
  <2>1. i \in 0..n /\ i # 0
    OBVIOUS
  <2> QED
    BY <1>4, <2>1 DEF Pow
<1>8. \A i \in 1..n : sum[i] = sum[i - 1] + (IF (i - 1) \in S THEN Pow(i - 1) ELSE 0)
  BY <1>7
<1>9. Sums(sum, S, n)
  BY <1>6, <1>8 DEF Sums
<1> QED
  BY <1>5, <1>9

\* The number made of some bits has these and no others.
LEMMA BitsBuilt ==
  ASSUME NEW S, NEW n \in 0..18
  PROVE  /\ FromBits(S, n) \in Nat /\ FromBits(S, n) < Pow(n)
         /\ \A i \in 0..(n - 1) : Bit(FromBits(S, n), i) <=> i \in S
<1>0. PICK at : Sums(at, S, n) /\ FromBits(S, n) = at[n]
  BY Builds
<1>1. /\ at[0] = 0 /\ FromBits(S, n) = at[n]
      /\ \A i \in 1..n : at[i] = at[i - 1] + (IF (i - 1) \in S THEN Pow(i - 1) ELSE 0)
  BY <1>0 DEF Sums
<1> DEFINE Fits(k) == at[k] \in Nat /\ at[k] < Pow(k)
                      /\ \A i \in 0..(k - 1) : Bit(at[k], i) <=> i \in S
           T == {k \in 0..n : Fits(k)}
<1>2. 0 \in T
  BY <1>1, Powers
<1>3. ASSUME NEW k \in 1..n, k - 1 \in T PROVE k \in T
  <2> DEFINE j == k - 1
             a == at[j]
  <2>1. j \in 0..17 /\ k = j + 1 /\ j \in 0..18
    OBVIOUS
  <2>2. a \in Nat /\ a < Pow(j) /\ \A i \in 0..(j - 1) : Bit(a, i) <=> i \in S
    BY <1>3
  <2>3. at[k] = a + (IF j \in S THEN Pow(j) ELSE 0)
    BY <1>1
  <2>6. ASSUME NEW i \in 0..(k - 1) PROVE i \in 0..(j - 1) \/ i = j
    OBVIOUS
  <2> HIDE DEF a, j
  <2>4. ~ Bit(a, j) /\ Bit(a + Pow(j), j) /\ \A i \in 0..(j - 1) : Bit(a + Pow(j), i) <=> Bit(a, i)
    BY <2>1, <2>2, BitAdded
  <2>5. Pow(k) = 2 * Pow(j) /\ Pow(j) \in Nat
    BY <2>1, Powers
  <2>7. at[k] \in Nat /\ at[k] < Pow(k)
    BY <2>2, <2>3, <2>5
  <2>8. ASSUME NEW i \in 0..(k - 1) PROVE Bit(at[k], i) <=> i \in S
    <3>1. CASE j \in S
      <4>1. at[k] = a + Pow(j)
        BY <2>3, <3>1
      <4> QED
        BY <2>2, <2>4, <2>6, <3>1, <4>1
    <3>2. CASE j \notin S
      <4>1. at[k] = a
        BY <2>2, <2>3, <3>2
      <4> QED
        BY <2>2, <2>4, <2>6, <3>2, <4>1
    <3> QED
      BY <3>1, <3>2
  <2> QED
    BY <2>7, <2>8
<1>4. n \in T
  <2> HIDE DEF T
  <2>1. 0..n \subseteq T
    BY <1>2, <1>3, UpTo
  <2> QED
    BY <2>1
<1> QED
  BY <1>1, <1>4

\* Xor has the bits that one of two numbers has.
LEMMA XorBits ==
  ASSUME NEW a, NEW b, NEW n \in 0..18
  PROVE  /\ Xor(a, b, n) \in Nat /\ Xor(a, b, n) < Pow(n)
         /\ \A i \in 0..(n - 1) : Bit(Xor(a, b, n), i) <=> ~ (Bit(a, i) <=> Bit(b, i))
<1> DEFINE x == BitsOf(a, n)
           y == BitsOf(b, n)
           S == (x \ y) \cup (y \ x)
<1>1. Xor(a, b, n) = FromBits(S, n)
  BY DEF Xor
<1>2. \A i \in 0..(n - 1) : i \in S <=> ~ (Bit(a, i) <=> Bit(b, i))
  BY DEF BitsOf
<1> HIDE DEF S
<1> QED
  BY <1>1, <1>2, BitsBuilt

\* Numbers with the same bits are the same.
LEMMA SameBits ==
  ASSUME NEW n \in 0..18, NEW v \in Nat, v < Pow(n), NEW w \in Nat, w < Pow(n),
         \A i \in 0..(n - 1) : Bit(v, i) <=> Bit(w, i)
  PROVE  v = w
<1>1. ASSUME NEW p \in Nat, p > 0, NEW a \in Nat
      PROVE  a % (2 * p) = (a % p) + (IF (a \div p) % 2 = 1 THEN p ELSE 0)
  <2> DEFINE q == a \div p
             r == a % p
             h == q \div 2
             b == q % 2
             s == r + (IF b = 1 THEN p ELSE 0)
             d == 2 * p
  <2>1. q \in Nat /\ r \in Nat /\ r < p /\ a = p * q + r
    BY <1>1, Rest
  <2>2. h \in Nat /\ b \in {0, 1} /\ q = 2 * h + b
    <3> HIDE DEF q
    <3> QED
      BY <2>1
  <2>3. s \in Nat /\ s < d /\ d \in Nat /\ d > 0
    <3> HIDE DEF r, b
    <3> QED
      BY <1>1, <2>1
  <2>4. a = d * h + s
    <3>1. p * q = p * (2 * h) + p * b
      <4> HIDE DEF q, h, b
      <4> QED
        BY <1>1, <2>2
    <3>2. p * (2 * h) = d * h /\ p * b = IF b = 1 THEN p ELSE 0
      <4> HIDE DEF h, b
      <4> QED
        BY <1>1, <2>2
    <3> HIDE DEF q, h, b, r
    <3> QED
      BY <1>1, <2>1, <2>2, <3>1, <3>2
  <2>5. a % d = s
    <3> HIDE DEF d, h, s, q, r, b
    <3> QED
      BY <2>2, <2>3, <2>4, Quotient
  <2> QED
    BY <2>5
<1> DEFINE T == {k \in 0..n : v % Pow(k) = w % Pow(k)}
<1>2. 0 \in T
  BY Powers
<1>3. ASSUME NEW k \in 1..n, k - 1 \in T PROVE k \in T
  <2> DEFINE j == k - 1
             p == Pow(j)
  <2>1. j \in 0..(n - 1) /\ j \in 0..17 /\ k = j + 1 /\ v % Pow(j) = w % Pow(j)
    BY <1>3
  <2>2. p \in Nat /\ p > 0 /\ Pow(j + 1) = 2 * p
    <3> HIDE DEF j
    <3> QED
      BY <2>1, Powers
  <2>3. (v \div p) % 2 = 1 <=> (w \div p) % 2 = 1
    <3>1. Bit(v, j) <=> Bit(w, j)
      BY <2>1
    <3> HIDE DEF j
    <3> QED
      BY <3>1 DEF Bit, Pow
  <2>4. v % p = w % p /\ Pow(k) = 2 * p
    BY <2>1, <2>2
  <2> HIDE DEF p
  <2>5. v % (2 * p) = w % (2 * p)
    BY <1>1, <2>2, <2>3, <2>4
  <2> QED
    BY <2>4, <2>5
<1>4. n \in T
  <2> HIDE DEF T
  <2>1. 0..n \subseteq T
    BY <1>2, <1>3, UpTo
  <2> QED
    BY <2>1
<1>5. v % Pow(n) = v /\ w % Pow(n) = w
  BY Powers, Below
<1> QED
  BY <1>4, <1>5

\* Cutting a number leaves the bits below the cut.
LEMMA BitWrapped ==
  ASSUME NEW x \in Nat, NEW n \in 0..18, NEW i \in 0..(n - 1)
  PROVE  Bit(x % Pow(n), i) <=> Bit(x, i)
<1> DEFINE w == Pow(n)
           q == x \div w
           r == x % w
<1>1. w \in Nat /\ w > 0
  BY Powers
<1>2. q \in Nat /\ r \in Nat /\ x = w * q + r
  <2> HIDE DEF w
  <2> QED
    BY <1>1, Rest
<1>3. i \in 0..18 /\ i < n
  OBVIOUS
<1>4. PICK m \in Nat : w = Pow(i) * (2 * m)
  BY <1>3, PowersOver
<1> DEFINE k == m * q
           p == Pow(i)
<1>5. k \in Nat /\ p \in Nat
  BY <1>2, <1>3, Powers
<1>6. x = r + p * (2 * k)
  <2>1. w = p * (2 * m)
    BY <1>4
  <2> HIDE DEF w, q, r, p
  <2>2. w * q = p * (2 * (m * q))
    BY <1>2, <1>5, <2>1
  <2> HIDE DEF k
  <2>3. w * q = p * (2 * k)
    BY <2>2 DEF k
  <2>4. p * (2 * k) \in Nat
    BY <1>5
  <2> QED
    BY <1>2, <2>3, <2>4
<1> HIDE DEF r, k, q
<1>7. Bit(r + Pow(i) * (2 * k), i) <=> Bit(r, i)
  BY <1>2, <1>3, <1>5, BitAbove
<1> QED
  BY <1>6, <1>7 DEF r

\* Multiplied by a power the bits move up.
LEMMA BitRaised ==
  ASSUME NEW c \in Nat, NEW k \in 0..18, NEW i \in 0..18
  PROVE  Bit(c * Pow(k), i) <=> i >= k /\ Bit(c, i - k)
<1>1. CASE i < k
  <2>1. PICK m \in Nat : Pow(k) = Pow(i) * (2 * m)
    BY <1>1, PowersOver
  <2> DEFINE p == Pow(i)
             h == c * m
             z == 0
  <2>2. h \in Nat /\ p \in Nat /\ p > 0 /\ z \in Nat
    BY Powers
  <2>3. c * Pow(k) = z + p * (2 * h)
    <3>1. Pow(k) = p * (2 * m)
      BY <2>1
    <3> HIDE DEF p
    <3>2. c * (p * (2 * m)) = p * (2 * (c * m)) /\ p * (2 * (c * m)) \in Nat
      BY <2>2
    <3> QED
      BY <3>1, <3>2
  <2> HIDE DEF h, z
  <2>4. Bit(z + Pow(i) * (2 * h), i) <=> Bit(z, i)
    BY <2>2, BitAbove
  <2>5. ~ Bit(z, i)
    <3>1. z < p
      BY <2>2 DEF z
    <3> QED
      BY <2>2, <3>1, BitAdded
  <2> QED
    BY <1>1, <2>3, <2>4, <2>5
<1>2. CASE i >= k
  <2> DEFINE j == i - k
             p == Pow(j)
             s == Pow(k)
             q == c \div p
             r == c % p
             t == s * r
             d == p * s
             a == c * s
  <2>1. j \in 0..18 /\ i = j + k
    BY <1>2
  <2> HIDE DEF j
  <2>2. p \in Nat /\ p > 0 /\ s \in Nat /\ s > 0 /\ Pow(i) = d
    <3>1. Pow(j + k) = Pow(j) * Pow(k)
      BY <2>1, PowersTimes
    <3> QED
      BY <2>1, <3>1, Powers
  <2> HIDE DEF p, s
  <2>3. q \in Nat /\ r \in Nat /\ r < p /\ c = p * q + r
    BY <2>2, Rest
  <2> HIDE DEF q, r
  <2>4. t \in Nat /\ t < d /\ d \in Nat /\ d > 0
    <3> DEFINE e == p - r - 1
    <3>1. e \in Nat /\ p = r + e + 1
      BY <2>2, <2>3
    <3> HIDE DEF e
    <3>2. d = s * r + s * e + s /\ s * e \in Nat /\ s * r \in Nat
      BY <2>2, <2>3, <3>1
    <3> QED
      BY <2>2, <3>2
  <2>5. a = d * q + t
    BY <2>2, <2>3
  <2> HIDE DEF a, t, d
  <2>6. a \div d = q
    BY <2>3, <2>4, <2>5, Quotient
  <2>7. Bit(c, j) <=> q % 2 = 1
    BY DEF Bit, Pow, q, p
  <2>8. Bit(a, i) <=> (a \div Pow(i)) % 2 = 1
    BY DEF Bit, Pow
  <2> QED
    BY <1>2, <2>2, <2>6, <2>7, <2>8 DEF a, s, j
<1> QED
  BY <1>1, <1>2

\* Divided by a power they move down.
LEMMA BitLowered ==
  ASSUME NEW c \in Nat, NEW k \in 0..18, NEW i \in 0..18, i + k <= 18
  PROVE  Bit(c \div Pow(k), i) <=> Bit(c, i + k)
<1> DEFINE p == Pow(i)
           s == Pow(k)
           j == i + k
           d == Pow(j)
           a == c \div s
           b == c % s
           q == a \div p
           r == a % p
           t == s * r + b
<1>1. p \in Nat /\ p > 0 /\ s \in Nat /\ s > 0 /\ d = s * p /\ d \in Nat /\ d > 0
  <2>1. j \in 0..18 /\ i + k = k + i
    OBVIOUS
  <2>2. Pow(k + i) = Pow(k) * Pow(i)
    BY PowersTimes
  <2> QED
    BY <2>1, <2>2, Powers
<1> HIDE DEF p, s, d, j
<1>2. a \in Nat /\ b \in Nat /\ b < s /\ c = s * a + b
  BY <1>1, Rest
<1> HIDE DEF a, b
<1>3. q \in Nat /\ r \in Nat /\ r < p /\ a = p * q + r
  BY <1>1, <1>2, Rest
<1> HIDE DEF q, r
<1>4. t \in Nat /\ t < d
  <2> DEFINE e == p - r - 1
  <2>1. e \in Nat /\ p = r + e + 1
    BY <1>1, <1>3
  <2> HIDE DEF e
  <2>2. d = s * r + s * e + s /\ s * e \in Nat /\ s * r \in Nat
    BY <1>1, <1>3, <2>1
  <2> QED
    BY <1>1, <1>2, <2>2
<1>5. c = d * q + t
  <2>1. s * a = s * (p * q) + s * r /\ s * (p * q) = (s * p) * q
    BY <1>1, <1>2, <1>3
  <2>2. s * (p * q) \in Nat /\ s * r \in Nat
    BY <1>1, <1>3
  <2> QED
    BY <1>1, <1>2, <2>1, <2>2
<1> HIDE DEF t
<1>6. c \div d = q
  BY <1>1, <1>3, <1>4, <1>5, Quotient
<1>7. Bit(a, i) <=> q % 2 = 1
  BY DEF Bit, Pow, q, p
<1>8. Bit(c, j) <=> (c \div d) % 2 = 1
  BY DEF Bit, Pow, d
<1> QED
  BY <1>6, <1>7, <1>8 DEF a, s, j

\* A number below a power has no bits from there on.
LEMMA BitsEnd ==
  ASSUME NEW n \in 0..18, NEW c \in Nat, c < Pow(n), NEW i \in n..18
  PROVE  ~ Bit(c, i)
<1> DEFINE p == Pow(i)
<1>1. i \in 0..18 /\ p \in Nat /\ c < p
  <2>1. CASE i = n
    BY <2>1, Powers
  <2>2. CASE i # n
    <3>1. n < i /\ i \in 0..18
      BY <2>2
    <3>2. PICK m \in Nat : Pow(i) = Pow(n) * (2 * m)
      BY <3>1, PowersOver
    <3> DEFINE w == Pow(n)
    <3>3. w \in Nat /\ p \in Nat /\ p > 0 /\ p = w * (2 * m)
      BY <3>1, <3>2, Powers
    <3> HIDE DEF w, p
    <3>4. m >= 1
      BY <3>3
    <3> DEFINE e == 2 * m - 1
    <3>5. e \in Nat /\ 2 * m = e + 1
      BY <3>4
    <3> HIDE DEF e
    <3>6. w * (e + 1) = w * e + w /\ w * e \in Nat
      BY <3>3, <3>5
    <3>7. p >= w
      BY <3>3, <3>5, <3>6
    <3> QED
      BY <3>1, <3>3, <3>7 DEF w
  <2> QED
    BY <2>1, <2>2
<1> QED
  BY <1>1, BitAdded

\* The values of the powers.
LEMMA PowerValues ==
  /\ Pow(1) = 2 /\ Pow(4) = 16 /\ Pow(5) = 32 /\ Pow(8) = 256 /\ Pow(12) = 4096
  /\ Pow(15) = 32768 /\ Pow(16) = 65536 /\ Pow(18) = 262144
<1>1. /\ 2^1 = 2 /\ 2^4 = 16 /\ 2^5 = 32 /\ 2^8 = 256 /\ 2^12 = 4096
      /\ 2^15 = 32768 /\ 2^16 = 65536 /\ 2^18 = 262144
  OBVIOUS
<1> QED
  BY <1>1 DEF Pow

-----------------------------------------------------------------------------
(* A round of each CRC.                                                    *)

\* The polynomial's bits.
LEMMA Taps ==
  /\ \A i \in 0..17 : Bit(4129, i) <=> i \in {0, 5, 12}
  /\ \A i \in 0..7 : (Bit(33, i) <=> i \in {0, 5}) /\ (Bit(16, i) <=> i = 4)
<1>1. /\ 2^0 = 1 /\ 2^1 = 2 /\ 2^2 = 4 /\ 2^3 = 8 /\ 2^4 = 16 /\ 2^5 = 32 /\ 2^6 = 64
      /\ 2^7 = 128 /\ 2^8 = 256 /\ 2^9 = 512 /\ 2^10 = 1024 /\ 2^11 = 2048 /\ 2^12 = 4096
      /\ 2^13 = 8192 /\ 2^14 = 16384 /\ 2^15 = 32768 /\ 2^16 = 65536 /\ 2^17 = 131072
  OBVIOUS
<1>2. /\ Bit(4129, 0) /\ ~ Bit(4129, 1) /\ ~ Bit(4129, 2) /\ ~ Bit(4129, 3)
      /\ ~ Bit(4129, 4) /\ Bit(4129, 5) /\ ~ Bit(4129, 6) /\ ~ Bit(4129, 7)
      /\ ~ Bit(4129, 8) /\ ~ Bit(4129, 9) /\ ~ Bit(4129, 10) /\ ~ Bit(4129, 11)
      /\ Bit(4129, 12) /\ ~ Bit(4129, 13) /\ ~ Bit(4129, 14) /\ ~ Bit(4129, 15)
      /\ ~ Bit(4129, 16) /\ ~ Bit(4129, 17)
  BY <1>1 DEF Bit
<1>3. /\ Bit(33, 0) /\ ~ Bit(33, 1) /\ ~ Bit(33, 2) /\ ~ Bit(33, 3)
      /\ ~ Bit(33, 4) /\ Bit(33, 5) /\ ~ Bit(33, 6) /\ ~ Bit(33, 7)
      /\ ~ Bit(16, 0) /\ ~ Bit(16, 1) /\ ~ Bit(16, 2) /\ ~ Bit(16, 3)
      /\ Bit(16, 4) /\ ~ Bit(16, 5) /\ ~ Bit(16, 6) /\ ~ Bit(16, 7)
  BY <1>1 DEF Bit
<1> QED
  BY <1>2, <1>3

ShiftedUp(d, c, n) ==
  d \in Nat /\ d < Pow(n) /\ \A i \in 0..(n - 1) : Bit(d, i) <=> i >= 1 /\ Bit(c, i - 1)

\* A number shifted left and cut.
LEMMA Doubles ==
  ASSUME NEW c \in Nat, NEW n \in 1..18, NEW w, w = Pow(n)
  PROVE  ShiftedUp((2 * c) % w, c, n)
<1> DEFINE a == 2 * c
           d == a % w
<1>1. a \in Nat /\ a = c * Pow(1)
  BY PowerValues
<1>2. w \in Nat /\ w > 0
  BY Powers
<1> HIDE DEF a
<1>3. d \in Nat /\ d < w
  BY <1>1, <1>2, Rest
<1> HIDE DEF d
<1>4. ASSUME NEW i \in 0..(n - 1) PROVE Bit(d, i) <=> i >= 1 /\ Bit(c, i - 1)
  <2>1. i \in 0..18 /\ 1 \in 0..18 /\ n \in 0..18
    OBVIOUS
  <2>2. Bit(a % Pow(n), i) <=> Bit(a, i)
    BY <1>1, <2>1, BitWrapped
  <2> DEFINE k == 1
  <2> HIDE DEF k
  <2>3. Bit(c * Pow(k), i) <=> i >= k /\ Bit(c, i - k)
    BY <2>1, BitRaised DEF k
  <2> QED
    BY <1>1, <2>2, <2>3 DEF k, d
<1>5. ShiftedUp(d, c, n)
  BY <1>3, <1>4 DEF ShiftedUp
<1> QED
  BY <1>5 DEF d, a

\* A bit of the number that counts double is the next.
LEMMA TopIs == ASSUME NEW c \in Nat, c < 65536 PROVE Top(c) <=> Bit(c, 15)
<1>1. 2^15 = 32768
  OBVIOUS
<1>2. (c \div 32768) % 2 = 1 <=> c >= 32768
  OBVIOUS
<1> QED
  BY <1>1, <1>2 DEF Bit, Top

\* << $1021 XOR.
LEMMA ShiftBits ==
  ASSUME NEW c \in Nat, c < 65536
  PROVE  /\ Shift(c) \in Nat /\ Shift(c) < 65536
         /\ \A i \in 0..15 : Bit(Shift(c), i) <=>
              ~ (i >= 1 /\ Bit(c, i - 1) <=> i \in {0, 5, 12} /\ Bit(c, 15))
<1> DEFINE d == (2 * c) % 65536
           x == Xor(d, 4129, 16)
<1>1. d \in Nat /\ d < 65536 /\ \A i \in 0..15 : Bit(d, i) <=> i >= 1 /\ Bit(c, i - 1)
  <2> DEFINE n == 16
             w == 65536
  <2>1. n \in 1..18 /\ w = Pow(n) /\ n - 1 = 15
    BY PowerValues
  <2> HIDE DEF n, w
  <2>3. ShiftedUp((2 * c) % w, c, n)
    BY <2>1, Doubles
  <2>2. ShiftedUp(d, c, n) /\ w = 65536
    BY <2>3 DEF w
  <2> HIDE DEF d
  <2> QED
    BY <2>1, <2>2 DEF ShiftedUp
<1> HIDE DEF d
<1>2. x \in Nat /\ x < 65536 /\ \A i \in 0..15 : Bit(x, i) <=> ~ (Bit(d, i) <=> Bit(4129, i))
  <2> DEFINE n == 16
  <2>1. n \in 0..18 /\ Pow(n) = 65536
    BY PowerValues
  <2>3. n - 1 = 15
    OBVIOUS
  <2>4. x = Xor(d, 4129, n)
    OBVIOUS
  <2> HIDE DEF n, x
  <2>2. /\ Xor(d, 4129, n) \in Nat /\ Xor(d, 4129, n) < Pow(n)
        /\ \A i \in 0..(n - 1) : Bit(Xor(d, 4129, n), i) <=> ~ (Bit(d, i) <=> Bit(4129, i))
    BY <2>1, XorBits
  <2> QED
    BY <2>1, <2>2, <2>3, <2>4
<1>3. Shift(c) = IF Bit(c, 15) THEN x ELSE d
  <2>1. Shift(c) = IF Top(c) THEN x ELSE d
    BY DEF Shift, d
  <2> QED
    BY <2>1, TopIs
<1> HIDE DEF x
<1>4. \A i \in 0..15 : Bit(4129, i) <=> i \in {0, 5, 12}
  BY Taps
<1>5. Shift(c) \in Nat /\ Shift(c) < 65536
  BY <1>1, <1>2, <1>3
<1>6. ASSUME NEW i \in 0..15
      PROVE  Bit(Shift(c), i) <=> ~ (i >= 1 /\ Bit(c, i - 1) <=> i \in {0, 5, 12} /\ Bit(c, 15))
  <2>1. (Bit(d, i) <=> i >= 1 /\ Bit(c, i - 1)) /\ (Bit(x, i) <=> ~ (Bit(d, i) <=> Bit(4129, i)))
        /\ (Bit(4129, i) <=> i \in {0, 5, 12})
    BY <1>1, <1>2, <1>4
  <2>2. CASE Bit(c, 15)
    <3>1. Shift(c) = x
      BY <1>3, <2>2
    <3> QED
      BY <2>1, <2>2, <3>1
  <2>3. CASE ~ Bit(c, 15)
    <3>1. Shift(c) = d
      BY <1>3, <2>3
    <3> QED
      BY <2>1, <2>3, <3>1
  <2> QED
    BY <2>2, <2>3
<1> QED
  BY <1>5, <1>6

\* Two bytes make a word, bit by bit.
LEMMA BytesBits ==
  ASSUME NEW h \in Nat, NEW l \in Nat, l < 256, NEW i \in 0..18
  PROVE  Bit(h * 256 + l, i) <=> IF i < 8 THEN Bit(l, i) ELSE Bit(h, i - 8)
<1> DEFINE w == h * 256 + l
           p == Pow(8)
           n == 8
<1>1. w \in Nat /\ p = 256
  BY PowerValues
<1>2. w \div p = h /\ w % p = l
  <2>1. w = p * h + l /\ p \in Nat /\ p > 0 /\ l < p
    BY <1>1
  <2> HIDE DEF w, p
  <2> QED
    BY <2>1, Quotient
<1> HIDE DEF w, p, n
<1>3. CASE i < 8
  <2>1. n \in 0..18 /\ i \in 0..(n - 1)
    BY <1>3 DEF n
  <2>2. Bit(w % Pow(n), i) <=> Bit(w, i)
    BY <1>1, <2>1, BitWrapped
  <2> QED
    BY <1>2, <1>3, <2>2 DEF p, n, w
<1>4. CASE i >= 8
  <2> DEFINE j == i - n
  <2>1. n \in 0..18 /\ j \in 0..18 /\ j + n <= 18 /\ j + n = i
    BY <1>4 DEF n
  <2> HIDE DEF j
  <2>2. Bit(w \div Pow(n), j) <=> Bit(w, j + n)
    BY <1>1, <2>1, BitLowered
  <2> QED
    BY <1>2, <1>4, <2>1, <2>2 DEF p, n, w, j
<1> QED
  BY <1>3, <1>4

Word16 == {c \in Nat : c < 65536}

\* Shifting is doubling below the top.
LEMMA ShiftIs ==
  ASSUME NEW c \in Word16
  PROVE  /\ Shift(c) \in Word16
         /\ \A i \in 0..15 : Bit(Shift(c), i) <=>
              ~ (i >= 1 /\ Bit(c, i - 1) <=> i \in {0, 5, 12} /\ Bit(c, 15))
  BY ShiftBits DEF Word16

\* A word in two bytes.
LEMMA Halves ==
  ASSUME NEW c \in Word16
  PROVE  /\ High(c) \in Nat /\ High(c) < 256 /\ Low(c) \in Nat /\ Low(c) < 256
         /\ c = High(c) * 256 + Low(c)
  BY DEF Word16, High, Low

\* A Xor of two bytes is a byte with the bits they differ in,
LEMMA XorByte ==
  ASSUME NEW a, NEW b
  PROVE  /\ Xor(a, b, 8) \in Nat /\ Xor(a, b, 8) < 256
         /\ \A i \in 0..7 : Bit(Xor(a, b, 8), i) <=> ~ (Bit(a, i) <=> Bit(b, i))
<1> DEFINE n == 8
<1>1. n \in 0..18 /\ Pow(n) = 256 /\ n - 1 = 7
  BY PowerValues
<1> HIDE DEF n
<1>2. /\ Xor(a, b, n) \in Nat /\ Xor(a, b, n) < Pow(n)
      /\ \A i \in 0..(n - 1) : Bit(Xor(a, b, n), i) <=> ~ (Bit(a, i) <=> Bit(b, i))
  BY <1>1, XorBits
<1>3. /\ Xor(a, b, n) \in Nat /\ Xor(a, b, n) < 256
      /\ \A i \in 0..7 : Bit(Xor(a, b, n), i) <=> ~ (Bit(a, i) <=> Bit(b, i))
  BY <1>1, <1>2
<1> QED
  BY <1>3 DEF n

\* as is one of two words.
LEMMA XorWord ==
  ASSUME NEW a, NEW b
  PROVE  /\ Xor(a, b, 16) \in Word16
         /\ \A i \in 0..15 : Bit(Xor(a, b, 16), i) <=> ~ (Bit(a, i) <=> Bit(b, i))
<1> DEFINE n == 16
<1>1. n \in 0..18 /\ Pow(n) = 65536 /\ n - 1 = 15
  BY PowerValues
<1> HIDE DEF n
<1>2. /\ Xor(a, b, n) \in Nat /\ Xor(a, b, n) < Pow(n)
      /\ \A i \in 0..(n - 1) : Bit(Xor(a, b, n), i) <=> ~ (Bit(a, i) <=> Bit(b, i))
  BY <1>1, XorBits
<1>3. /\ Xor(a, b, n) \in Word16
      /\ \A i \in 0..15 : Bit(Xor(a, b, n), i) <=> ~ (Bit(a, i) <=> Bit(b, i))
  BY <1>1, <1>2 DEF Word16
<1> QED
  BY <1>3 DEF n

\* Words with the same bits are the same.
LEMMA SameWord ==
  ASSUME NEW v \in Word16, NEW w \in Word16, \A i \in 0..15 : Bit(v, i) <=> Bit(w, i)
  PROVE  v = w
<1> DEFINE n == 16
<1>1. n \in 0..18 /\ Pow(n) = 65536 /\ n - 1 = 15
  BY PowerValues
<1> HIDE DEF n
<1> QED
  BY <1>1, SameBits DEF Word16

\* A number cut to a word.
LEMMA CutWord ==
  ASSUME NEW c \in Nat, NEW d, d = c % 65536
  PROVE  d \in Word16 /\ \A i \in 0..15 : Bit(d, i) <=> Bit(c, i)
<1> DEFINE n == 16
           w == 65536
<1>1. n \in 0..18 /\ Pow(n) = w /\ n - 1 = 15
  BY PowerValues
<1>2. d \in Word16 /\ d = c % w
  BY DEF Word16
<1> HIDE DEF n, w
<1>3. ASSUME NEW i \in 0..15 PROVE Bit(d, i) <=> Bit(c, i)
  <2>1. i \in 0..(n - 1)
    BY <1>1
  <2>2. Bit(c % Pow(n), i) <=> Bit(c, i)
    BY <1>1, <2>1, BitWrapped
  <2> QED
    BY <1>1, <1>2, <2>2
<1> QED
  BY <1>2, <1>3

\* The Z80 shifts two bytes where the Forth word shifts one word.
LEMMA Z80Shifts ==
  ASSUME NEW c \in Word16
  PROVE  Z80Round(c) = Shift(c)
<1> DEFINE h == High(c)
           l == Low(c)
           e == (2 * l) % 256
           d == ((2 * h) % 256) + (IF l >= 128 THEN 1 ELSE 0)
           w == (2 * c) % 65536
           x == Xor(d, 16, 8)
           y == Xor(e, 33, 8)
           z == Xor(w, 4129, 16)
<1>1. h \in Nat /\ h < 256 /\ l \in Nat /\ l < 256 /\ c = h * 256 + l /\ c \in Nat
  BY Halves DEF Word16
<1>2. Z80Round(c) = IF h >= 128 THEN x * 256 + y ELSE d * 256 + e
  BY DEF Z80Round
<1>3. Shift(c) = IF c >= 32768 THEN z ELSE w
  BY DEF Shift, Top
<1> HIDE DEF h, l
<1>4. h >= 128 <=> c >= 32768
  BY <1>1
<1>5. e \in Nat /\ e < 256 /\ d \in Nat /\ d < 256 /\ w = d * 256 + e
  BY <1>1
<1> HIDE DEF e, d, w
<1>6. x \in Nat /\ x < 256 /\ \A i \in 0..7 : Bit(x, i) <=> ~ (Bit(d, i) <=> i = 4)
  <2> DEFINE t == 16
  <2>1. x = Xor(d, t, 8)
    OBVIOUS
  <2>2. \A i \in 0..7 : Bit(t, i) <=> i = 4
    BY Taps
  <2> HIDE DEF t, x
  <2>3. x \in Nat /\ x < 256 /\ \A i \in 0..7 : Bit(x, i) <=> ~ (Bit(d, i) <=> Bit(t, i))
    BY <2>1, XorByte
  <2> QED
    BY <2>2, <2>3
<1>7. y \in Nat /\ y < 256 /\ \A i \in 0..7 : Bit(y, i) <=> ~ (Bit(e, i) <=> i \in {0, 5})
  <2> DEFINE t == 33
  <2>1. y = Xor(e, t, 8)
    OBVIOUS
  <2>2. \A i \in 0..7 : Bit(t, i) <=> i \in {0, 5}
    BY Taps
  <2> HIDE DEF t, y
  <2>3. y \in Nat /\ y < 256 /\ \A i \in 0..7 : Bit(y, i) <=> ~ (Bit(e, i) <=> Bit(t, i))
    BY <2>1, XorByte
  <2> QED
    BY <2>2, <2>3
<1>8. z \in Word16 /\ \A i \in 0..15 : Bit(z, i) <=> ~ (Bit(w, i) <=> i \in {0, 5, 12})
  <2> DEFINE t == 4129
  <2>1. z = Xor(w, t, 16)
    OBVIOUS
  <2>2. \A i \in 0..15 : Bit(t, i) <=> i \in {0, 5, 12}
    BY Taps
  <2> HIDE DEF t, z
  <2>3. z \in Word16 /\ \A i \in 0..15 : Bit(z, i) <=> ~ (Bit(w, i) <=> Bit(t, i))
    BY <2>1, XorWord
  <2> QED
    BY <2>2, <2>3
<1> HIDE DEF x, y, z
<1>9. x * 256 + y = z
  <2> DEFINE v == x * 256 + y
  <2>1. v \in Word16
    BY <1>6, <1>7 DEF Word16
  <2>2. ASSUME NEW i \in 0..15 PROVE Bit(v, i) <=> Bit(z, i)
    <3>1. i \in 0..18
      OBVIOUS
    <3>2. Bit(v, i) <=> IF i < 8 THEN Bit(y, i) ELSE Bit(x, i - 8)
      BY <1>6, <1>7, <3>1, BytesBits
    <3>3. Bit(w, i) <=> IF i < 8 THEN Bit(e, i) ELSE Bit(d, i - 8)
      BY <1>5, <3>1, BytesBits
    <3> HIDE DEF v
    <3>4. CASE i < 8
      <4>1. Bit(y, i) <=> ~ (Bit(e, i) <=> i \in {0, 5})
        BY <1>7, <3>4
      <4>2. i \in {0, 5, 12} <=> i \in {0, 5}
        BY <3>4
      <4> QED
        BY <1>8, <3>2, <3>3, <3>4, <4>1, <4>2
    <3>5. CASE i >= 8
      <4>1. Bit(x, i - 8) <=> ~ (Bit(d, i - 8) <=> i - 8 = 4)
        BY <1>6, <3>5
      <4>2. i \in {0, 5, 12} <=> i - 8 = 4
        BY <3>5
      <4> QED
        BY <1>8, <3>2, <3>3, <3>5, <4>1, <4>2
    <3> QED
      BY <3>4, <3>5
  <2> HIDE DEF v
  <2>3. v = z
    BY <1>8, <2>1, <2>2, SameWord
  <2> QED
    BY <2>3 DEF v
<1> QED
  BY <1>2, <1>3, <1>4, <1>5, <1>9

Word18 == {c \in Nat : c < 262144}

\* csum.c shifts the same in the lower sixteen bits.
LEMMA CsumShifts ==
  ASSUME NEW c \in Nat, c < 262144
  PROVE  CsumRound(c) \in Word18 /\ CsumRound(c) % 65536 = Shift(c % 65536)
<1> DEFINE a == c % 65536
           m == 262144
           w == (2 * c) % m
           z == Xor(w, 4129, 18)
           r == CsumRound(c)
<1>2. r = IF (c \div 32768) % 2 = 1 THEN z ELSE w
  BY DEF CsumRound
<1>3. (c \div 32768) % 2 = 1 <=> Bit(c, 15)
  <2>1. 2^15 = 32768
    OBVIOUS
  <2> QED
    BY <2>1 DEF Bit
<1>4. a \in Word16 /\ \A i \in 0..15 : Bit(a, i) <=> Bit(c, i)
  BY CutWord
<1>5. w \in Nat /\ w < 262144 /\ \A i \in 0..15 : Bit(w, i) <=> i >= 1 /\ Bit(c, i - 1)
  <2> DEFINE n == 18
  <2>1. n \in 1..18 /\ m = Pow(n)
    BY PowerValues
  <2>2. m = 262144 /\ n - 1 = 17
    OBVIOUS
  <2> HIDE DEF n, m, w, a, z, r
  <2>3. ShiftedUp((2 * c) % m, c, n)
    BY <2>1, Doubles
  <2>4. ShiftedUp(w, c, n)
    BY <2>3 DEF w
  <2>5. \A i \in 0..15 : i \in 0..(n - 1)
    BY <2>2
  <2> QED
    BY <2>1, <2>2, <2>4, <2>5 DEF ShiftedUp
<1> HIDE DEF w
<1>6. z \in Nat /\ z < 262144 /\ \A i \in 0..15 : Bit(z, i) <=> ~ (Bit(w, i) <=> i \in {0, 5, 12})
  <2> DEFINE n == 18
             t == 4129
  <2>1. n \in 0..18 /\ Pow(n) = 262144 /\ n - 1 = 17 /\ z = Xor(w, t, n)
    BY PowerValues
  <2>2. \A i \in 0..17 : Bit(t, i) <=> i \in {0, 5, 12}
    BY Taps
  <2> HIDE DEF n, z, t
  <2>3. /\ Xor(w, t, n) \in Nat /\ Xor(w, t, n) < Pow(n)
        /\ \A i \in 0..(n - 1) : Bit(Xor(w, t, n), i) <=> ~ (Bit(w, i) <=> Bit(t, i))
    BY <2>1, XorBits
  <2>4. \A i \in 0..15 : i \in 0..17
    OBVIOUS
  <2> QED
    BY <2>1, <2>2, <2>3, <2>4
<1> HIDE DEF z, r
<1>7. r \in Nat /\ r < 262144
  BY <1>2, <1>5, <1>6
<1> DEFINE s == Shift(a)
           b == r % 65536
<1>8. s \in Word16 /\ \A i \in 0..15 : Bit(s, i) <=>
              ~ (i >= 1 /\ Bit(a, i - 1) <=> i \in {0, 5, 12} /\ Bit(a, 15))
  <2> HIDE DEF a
  <2> QED
    BY <1>4, ShiftIs
<1>9. b \in Word16 /\ \A i \in 0..15 : Bit(b, i) <=> Bit(r, i)
  BY <1>7, CutWord
<1> HIDE DEF s, a, b
<1>10. ASSUME NEW i \in 0..15 PROVE Bit(b, i) <=> Bit(s, i)
  <2>1. i >= 1 => (Bit(a, i - 1) <=> Bit(c, i - 1))
    BY <1>4
  <2>2. Bit(a, 15) <=> Bit(c, 15)
    BY <1>4
  <2>3. Bit(s, i) <=> ~ (i >= 1 /\ Bit(c, i - 1) <=> i \in {0, 5, 12} /\ Bit(c, 15))
    BY <1>8, <2>1, <2>2
  <2>4. CASE Bit(c, 15)
    <3>1. r = z
      BY <1>2, <1>3, <2>4
    <3> QED
      BY <1>5, <1>6, <1>9, <2>3, <2>4, <3>1
  <2>5. CASE ~ Bit(c, 15)
    <3>1. r = w
      BY <1>2, <1>3, <2>5
    <3> QED
      BY <1>5, <1>9, <2>3, <2>5, <3>1
  <2> QED
    BY <2>4, <2>5
<1>11. b = s
  BY <1>8, <1>9, <1>10, SameWord
<1> QED
  BY <1>7, <1>11 DEF b, s, a, r, Word18

Shifts(r, c) ==
  /\ r[0] = c /\ \A i \in 0..8 : r[i] \in Word16
  /\ \A i \in 1..8 : r[i] = Shift(r[i - 1])

\* Eight rounds of the Forth word and of the Z80's are the same.
LEMMA EightRounds ==
  ASSUME NEW c \in Word16
  PROVE  \E r : Shifts(r, c) /\ Rounds(Shift, c) = r[8] /\ Rounds(Z80Round, c) = r[8]
<1> DEFINE step == [i \in 1..8 |-> [x \in Word16 |-> Shift(x)]]
           Step(f) == [i \in 0..8 |-> IF i = 0 THEN c ELSE Shift(f[i - 1])]
           Zstep(f) == [i \in 0..8 |-> IF i = 0 THEN c ELSE Z80Round(f[i - 1])]
           r == CHOOSE f : f = Step(f)
           z == CHOOSE f : f = Zstep(f)
<1>1. step \in [1..8 -> [Word16 -> Word16]]
  BY ShiftIs
<1>2. PICK f : Steps(f, Word16, c, 8, step)
  <2> DEFINE n == 8
  <2>1. n \in Nat /\ step \in [1..n -> [Word16 -> Word16]] /\ n = 8
    BY <1>1
  <2> HIDE DEF step, n
  <2>2. \E f : Steps(f, Word16, c, n, step)
    BY <2>1, Repeated
  <2> QED
    BY <2>1, <2>2
<1>3. f = [i \in 0..8 |-> f[i]] /\ \A i \in 0..8 : f[i] \in Word16
  BY <1>2 DEF Steps
<1>4. ASSUME NEW i \in 0..8 PROVE f[i] = IF i = 0 THEN c ELSE Shift(f[i - 1])
  <2>1. f[i] = IF i = 0 THEN c ELSE step[i][f[i - 1]]
    BY <1>2 DEF Steps
  <2>2. i # 0 => i \in 1..8 /\ i - 1 \in 0..8
    OBVIOUS
  <2>3. i # 0 => step[i][f[i - 1]] = Shift(f[i - 1])
    BY <1>3, <2>2
  <2> QED
    BY <2>1, <2>3
<1>5. ASSUME NEW i \in 0..8 PROVE f[i] = IF i = 0 THEN c ELSE Z80Round(f[i - 1])
  <2>1. i # 0 => i - 1 \in 0..8
    OBVIOUS
  <2> QED
    BY <1>3, <1>4, <2>1, Z80Shifts
<1>6. r = Step(r)
  <2>1. f = Step(f)
    BY <1>3, <1>4
  <2> QED
    BY <2>1
<1>7. z = Zstep(z)
  <2>1. f = Zstep(f)
    BY <1>3, <1>5
  <2> QED
    BY <2>1
<1>8. Rounds(Shift, c) = r[8] /\ Rounds(Z80Round, c) = z[8]
  BY DEF Rounds
<1> HIDE DEF r, z
<1> DEFINE S == {i \in 0..8 : r[i] = f[i] /\ z[i] = f[i]}
           n == 8
<1>9. 0 \in S
  BY <1>4, <1>6, <1>7
<1>10. ASSUME NEW i \in 1..n, i - 1 \in S PROVE i \in S
  <2>1. i \in 0..8 /\ i # 0 /\ r[i - 1] = f[i - 1] /\ z[i - 1] = f[i - 1]
    BY <1>10
  <2>2. r[i] = Shift(r[i - 1]) /\ z[i] = Z80Round(z[i - 1])
    BY <1>6, <1>7, <2>1
  <2> QED
    BY <1>4, <1>5, <2>1, <2>2
<1>11. 0..n \subseteq S /\ n \in Nat /\ n = 8
  <2> DEFINE m == n
  <2>1. m \in Nat /\ m = n
    OBVIOUS
  <2> HIDE DEF S, m
  <2>2. 0..m \subseteq S
    <3>1. \A i \in 1..m : i - 1 \in S => i \in S
      BY <1>10, <2>1
    <3> QED
      BY <1>9, <2>1, <3>1, UpTo
  <2> QED
    BY <2>1, <2>2
<1>12. r[8] = f[8] /\ z[8] = f[8]
  BY <1>11
<1>13. Shifts(f, c)
  <2>1. \A i \in 1..8 : i \in 0..8 /\ i # 0
    OBVIOUS
  <2> QED
    BY <1>3, <1>4, <2>1 DEF Shifts
<1> QED
  BY <1>8, <1>12, <1>13

Csums(s, c) == s[0] = c /\ \A i \in 1..8 : s[i] = CsumRound(s[i - 1])

\* The rounds of csum.c are counted one after another.
LEMMA CsumEight ==
  ASSUME NEW c \in Word18
  PROVE  \E s : Csums(s, c) /\ Rounds(CsumRound, c) = s[8]
<1> DEFINE step == [i \in 1..8 |-> [x \in Word18 |-> CsumRound(x)]]
           Step(f) == [i \in 0..8 |-> IF i = 0 THEN c ELSE CsumRound(f[i - 1])]
           s == CHOOSE f : f = Step(f)
<1>0. \A x \in Word18 : CsumRound(x) \in Word18 /\ CsumRound(x) % 65536 = Shift(x % 65536)
  BY CsumShifts DEF Word18
<1>1. step \in [1..8 -> [Word18 -> Word18]]
  BY <1>0
<1>2. PICK f : Steps(f, Word18, c, 8, step)
  <2> DEFINE n == 8
  <2>1. n \in Nat /\ step \in [1..n -> [Word18 -> Word18]] /\ n = 8
    BY <1>1
  <2> HIDE DEF step, n
  <2>2. \E f : Steps(f, Word18, c, n, step)
    BY <2>1, Repeated
  <2> QED
    BY <2>1, <2>2
<1>3. f = [i \in 0..8 |-> f[i]] /\ \A i \in 0..8 : f[i] \in Word18
  BY <1>2 DEF Steps
<1>4. ASSUME NEW i \in 0..8 PROVE f[i] = IF i = 0 THEN c ELSE CsumRound(f[i - 1])
  <2>1. f[i] = IF i = 0 THEN c ELSE step[i][f[i - 1]]
    BY <1>2 DEF Steps
  <2>2. i # 0 => i \in 1..8 /\ i - 1 \in 0..8
    OBVIOUS
  <2>3. i # 0 => step[i][f[i - 1]] = CsumRound(f[i - 1])
    BY <1>3, <2>2
  <2> QED
    BY <2>1, <2>3
<1>5. s = Step(s)
  <2>1. f = Step(f)
    BY <1>3, <1>4
  <2> QED
    BY <2>1
<1>6. Rounds(CsumRound, c) = s[8]
  BY DEF Rounds
<1> HIDE DEF s
<1>7. Csums(s, c)
  <2>1. \A i \in 1..8 : i \in 0..8 /\ i # 0
    OBVIOUS
  <2> QED
    BY <1>5, <2>1 DEF Csums
<1> QED
  BY <1>6, <1>7

\* They agree with those of the Forth word in the lower sixteen bits.
LEMMA CsumRounds ==
  ASSUME NEW c \in Word18, NEW d \in Word16, d = c % 65536
  PROVE  /\ Rounds(CsumRound, c) \in Word18
         /\ Rounds(CsumRound, c) % 65536 = Rounds(Shift, d)
<1>0. \A x \in Word18 : CsumRound(x) \in Word18 /\ CsumRound(x) % 65536 = Shift(x % 65536)
  BY CsumShifts DEF Word18
<1>6. PICK s : Csums(s, c) /\ Rounds(CsumRound, c) = s[8]
  BY CsumEight
<1>7. PICK r : Shifts(r, d) /\ Rounds(Shift, d) = r[8]
  BY EightRounds
<1> DEFINE S == {i \in 0..8 : s[i] \in Word18 /\ s[i] % 65536 = r[i]}
           n == 8
<1>8. 0 \in S
  <2>1. s[0] = c /\ r[0] = d
    BY <1>6, <1>7 DEF Shifts, Csums
  <2> QED
    BY <2>1
<1>9. ASSUME NEW i \in 1..n, i - 1 \in S PROVE i \in S
  <2>1. i \in 0..8 /\ i # 0 /\ s[i - 1] \in Word18 /\ s[i - 1] % 65536 = r[i - 1]
    BY <1>9
  <2>2. s[i] = CsumRound(s[i - 1]) /\ r[i] = Shift(r[i - 1])
    BY <1>6, <1>7, <2>1 DEF Shifts, Csums
  <2>3. CsumRound(s[i - 1]) % 65536 = Shift(s[i - 1] % 65536) /\ CsumRound(s[i - 1]) \in Word18
    BY <1>0, <2>1
  <2> QED
    BY <2>1, <2>2, <2>3
<1>10. 0..n \subseteq S /\ n = 8
  <2> DEFINE m == n
  <2>1. m \in Nat /\ m = n
    OBVIOUS
  <2> HIDE DEF S, m
  <2>2. 0..m \subseteq S
    <3>1. \A i \in 1..m : i - 1 \in S => i \in S
      BY <1>9, <2>1
    <3> QED
      BY <1>8, <2>1, <3>1, UpTo
  <2> QED
    BY <2>1, <2>2
<1>11. s[8] \in Word18 /\ s[8] % 65536 = r[8]
  BY <1>10
<1> QED
  BY <1>6, <1>7, <1>11

-----------------------------------------------------------------------------
(* The card's formula.                                                     *)

\* Which bits the polynomial has brought in after k rounds.
Fed(x, k, j) == j \in 0..(k - 1) /\ Bit(x, 8 - k + j)
Odd(a, b, c, d) == ~ (~ (a <=> b) <=> ~ (c <=> d))
After(r, c, x, k) ==
  \A i \in 0..15 : Bit(r[k], i) <=>
    Odd(i >= k /\ Bit(c, i - k), Fed(x, k, i), Fed(x, k, i - 5), Fed(x, k, i - 12))

\* The top bit of each of eight rounds is one of the eight bits of x.
LEMMA Feeding ==
  ASSUME NEW c \in Word16, NEW r, Shifts(r, c), NEW x,
         \A j \in 0..7 : Bit(x, j) <=> ~ (Bit(c, 8 + j) <=> j < 4 /\ Bit(c, 12 + j))
  PROVE  After(r, c, x, 8)
<1> DEFINE S == {k \in 0..8 : After(r, c, x, k)}
           n == 8
<1>1. 0 \in S
  <2>1. ASSUME NEW i \in 0..15
        PROVE  Bit(r[0], i) <=>
          Odd(i >= 0 /\ Bit(c, i - 0), Fed(x, 0, i), Fed(x, 0, i - 5), Fed(x, 0, i - 12))
    <3>1. ~ Fed(x, 0, i) /\ ~ Fed(x, 0, i - 5) /\ ~ Fed(x, 0, i - 12)
      BY DEF Fed
    <3>2. r[0] = c /\ i >= 0 /\ i - 0 = i
      BY DEF Shifts
    <3> QED
      BY <3>1, <3>2 DEF Odd
  <2> QED
    BY <2>1 DEF After
<1>2. ASSUME NEW k \in 1..n, k - 1 \in S PROVE k \in S
  <2> DEFINE q == r[k - 1]
             T == Bit(x, 8 - k)
  <2>1. k \in 1..8 /\ k - 1 \in 0..8 /\ q \in Word16 /\ r[k] = Shift(q)
    BY DEF Shifts
  <2>2. ASSUME NEW i \in 0..15
        PROVE  Bit(q, i) <=> Odd(i >= k - 1 /\ Bit(c, i - (k - 1)),
                 Fed(x, k - 1, i), Fed(x, k - 1, i - 5), Fed(x, k - 1, i - 12))
    BY <1>2 DEF After
  <2>3. ASSUME NEW i \in 0..15
        PROVE  Bit(r[k], i) <=> ~ (i >= 1 /\ Bit(q, i - 1) <=> i \in {0, 5, 12} /\ Bit(q, 15))
    BY <2>1, ShiftIs
  <2> HIDE DEF q
  <2>4. Bit(q, 15) <=> T
    <3>1. ~ Fed(x, k - 1, 15) /\ ~ Fed(x, k - 1, 10)
      BY <2>1 DEF Fed
    <3>2. Bit(q, 15) <=> Odd(15 >= k - 1 /\ Bit(c, 15 - (k - 1)),
                 Fed(x, k - 1, 15), Fed(x, k - 1, 15 - 5), Fed(x, k - 1, 15 - 12))
      BY <2>2
    <3>3. 15 - 5 = 10 /\ 15 - 12 = 3 /\ 15 >= k - 1 /\ 15 - (k - 1) = 16 - k
      BY <2>1
    <3>4. Bit(q, 15) <=> ~ (Bit(c, 16 - k) <=> Fed(x, k - 1, 3))
      BY <3>1, <3>2, <3>3 DEF Odd
    <3> DEFINE j == 8 - k
    <3>5. j \in 0..7 /\ 8 + j = 16 - k /\ 12 + j = 20 - k
      BY <2>1
    <3>6. T <=> ~ (Bit(c, 16 - k) <=> j < 4 /\ Bit(c, 20 - k))
      BY <3>5
    <3>7. CASE j < 4
      <4> DEFINE m == 12 - k
      <4>1. m \in 4..7 /\ m \in 0..7 /\ 8 + m = 20 - k /\ ~ (m < 4)
        BY <2>1, <3>7
      <4>2. Bit(x, m) <=> Bit(c, 20 - k)
        BY <4>1
      <4>3. Fed(x, k - 1, 3) <=> Bit(x, m)
        <5>1. 3 \in 0..((k - 1) - 1) /\ 8 - (k - 1) + 3 = m
          BY <2>1, <3>7
        <5> QED
          BY <5>1 DEF Fed
      <4> QED
        BY <3>4, <3>6, <3>7, <4>2, <4>3
    <3>8. CASE ~ (j < 4)
      <4>1. ~ Fed(x, k - 1, 3)
        BY <2>1, <3>8 DEF Fed
      <4> QED
        BY <3>4, <3>6, <3>8, <4>1
    <3> QED
      BY <3>7, <3>8
  <2>5. ASSUME NEW j \in Int
        PROVE  Fed(x, k, j) <=> IF j = 0 THEN T ELSE Fed(x, k - 1, j - 1)
    <3>1. CASE j = 0
      <4>1. 0 \in 0..(k - 1) /\ 8 - k + 0 = 8 - k
        BY <2>1
      <4> QED
        BY <3>1, <4>1 DEF Fed
    <3>2. CASE j # 0
      <4>1. (j \in 0..(k - 1)) <=> (j - 1) \in 0..((k - 1) - 1)
        BY <2>1, <3>2
      <4>2. 8 - (k - 1) + (j - 1) = 8 - k + j
        BY <2>1
      <4> QED
        BY <3>2, <4>1, <4>2 DEF Fed
    <3> QED
      BY <3>1, <3>2
  <2> HIDE DEF T
  <2>6. ASSUME NEW i \in 0..15
        PROVE  Bit(r[k], i) <=>
          Odd(i >= k /\ Bit(c, i - k), Fed(x, k, i), Fed(x, k, i - 5), Fed(x, k, i - 12))
    <3> DEFINE A == i >= k /\ Bit(c, i - k)
               P == Fed(x, k - 1, i - 1)
               Q == Fed(x, k - 1, i - 6)
               R == Fed(x, k - 1, i - 13)
    <3>1. /\ Fed(x, k, i) <=> IF i = 0 THEN T ELSE P
          /\ Fed(x, k, i - 5) <=> IF i = 5 THEN T ELSE Q
          /\ Fed(x, k, i - 12) <=> IF i = 12 THEN T ELSE R
      <4>1. i \in Int /\ i - 5 \in Int /\ i - 12 \in Int /\ (i - 5) - 1 = i - 6
            /\ (i - 12) - 1 = i - 13 /\ (i - 5 = 0 <=> i = 5) /\ (i - 12 = 0 <=> i = 12)
        OBVIOUS
      <4>2. Fed(x, k, i) <=> IF i = 0 THEN T ELSE Fed(x, k - 1, i - 1)
        BY <2>5, <4>1
      <4>3. Fed(x, k, i - 5) <=> IF i - 5 = 0 THEN T ELSE Fed(x, k - 1, (i - 5) - 1)
        BY <2>5, <4>1
      <4>4. Fed(x, k, i - 12) <=> IF i - 12 = 0 THEN T ELSE Fed(x, k - 1, (i - 12) - 1)
        BY <2>5, <4>1
      <4> QED
        BY <4>1, <4>2, <4>3, <4>4
    <3>2. i >= 1 => (Bit(q, i - 1) <=> Odd(A, P, Q, R))
      <4> SUFFICES ASSUME i >= 1 PROVE Bit(q, i - 1) <=> Odd(A, P, Q, R)
        OBVIOUS
      <4> DEFINE j == i - 1
      <4>1. j \in 0..15 /\ (j >= k - 1 <=> i >= k) /\ j - (k - 1) = i - k
            /\ j - 5 = i - 6 /\ j - 12 = i - 13
        BY <2>1
      <4> HIDE DEF j
      <4>2. Bit(q, j) <=> Odd(j >= k - 1 /\ Bit(c, j - (k - 1)),
                 Fed(x, k - 1, j), Fed(x, k - 1, j - 5), Fed(x, k - 1, j - 12))
        BY <2>2, <4>1
      <4> QED
        BY <4>1, <4>2 DEF j
    <3>3. i = 0 => ~ A /\ ~ P /\ ~ Q /\ ~ R
      BY <2>1 DEF Fed
    <3>4. (i <= 5 => ~ Q) /\ (i <= 12 => ~ R)
      BY <2>1 DEF Fed
    <3> HIDE DEF A, P, Q, R
    <3>5. Bit(r[k], i) <=> ~ (i >= 1 /\ Bit(q, i - 1) <=> i \in {0, 5, 12} /\ T)
      BY <2>3, <2>4
    <3>6. CASE i = 0
      BY <3>1, <3>3, <3>5, <3>6 DEF Odd, A
    <3>7. CASE i = 5
      <4>1. i >= 1 /\ i \in {0, 5, 12}
        BY <3>7
      <4> QED
        BY <3>1, <3>2, <3>4, <3>5, <3>7, <4>1 DEF Odd, A
    <3>8. CASE i = 12
      <4>1. i >= 1 /\ i \in {0, 5, 12}
        BY <3>8
      <4> QED
        BY <3>1, <3>2, <3>4, <3>5, <3>8, <4>1 DEF Odd, A
    <3>9. CASE i \notin {0, 5, 12}
      <4>1. i >= 1
        BY <3>9
      <4> QED
        BY <3>1, <3>2, <3>5, <3>9, <4>1 DEF Odd, A
    <3> QED
      BY <3>6, <3>7, <3>8, <3>9
  <2>7. After(r, c, x, k)
    BY <2>6 DEF After
  <2> QED
    BY <2>1, <2>7
<1>3. 0..n \subseteq S /\ n = 8
  <2> DEFINE m == n
  <2>1. m \in Nat /\ m = n
    OBVIOUS
  <2> HIDE DEF S, m
  <2>2. 0..m \subseteq S
    <3>1. \A i \in 1..m : i - 1 \in S => i \in S
      BY <1>2, <2>1
    <3> QED
      BY <1>1, <2>1, <3>1, UpTo
  <2> QED
    BY <2>1, <2>2
<1> QED
  BY <1>3

Byte8 == {b \in Nat : b < 256}

\* The word a byte starts the eight rounds with.
Joined(c, n) == Xor((n * 256) % 65536, c, 16)

\* A byte in the upper half of a word.
LEMMA Upper ==
  ASSUME NEW n \in Byte8
  PROVE  \A i \in 0..15 : Bit((n * 256) % 65536, i) <=> i >= 8 /\ Bit(n, i - 8)
<1> DEFINE w == (n * 256) % 65536
           z == 0
<1>1. n \in Nat /\ w = n * 256 + z /\ z \in Nat /\ z < 256
  BY DEF Byte8
<1>2. \A i \in 0..18 : ~ Bit(z, i)
  <2>1. z \in Nat /\ \A i \in 0..18 : Pow(i) \in Nat /\ z < Pow(i)
    BY Powers
  <2> HIDE DEF z
  <2> QED
    BY <2>1, BitAdded
<1> HIDE DEF w, z
<1>3. ASSUME NEW i \in 0..15 PROVE Bit(w, i) <=> i >= 8 /\ Bit(n, i - 8)
  <2>1. i \in 0..18
    OBVIOUS
  <2>2. Bit(n * 256 + z, i) <=> IF i < 8 THEN Bit(z, i) ELSE Bit(n, i - 8)
    BY <1>1, <2>1, BytesBits
  <2>3. i < 8 <=> ~ (i >= 8)
    OBVIOUS
  <2> QED
    BY <1>1, <1>2, <2>1, <2>2, <2>3
<1> QED
  BY <1>3 DEF w

\* Bit by bit, a byte joined on top of a word.
LEMMA JoinedBits ==
  ASSUME NEW c \in Word16, NEW n \in Byte8
  PROVE  /\ Joined(c, n) \in Word16
         /\ \A i \in 0..15 : Bit(Joined(c, n), i) <=>
              IF i < 8 THEN Bit(Low(c), i) ELSE ~ (Bit(n, i - 8) <=> Bit(High(c), i - 8))
<1> DEFINE w == (n * 256) % 65536
           h == High(c)
           l == Low(c)
<1>1. \A i \in 0..15 : Bit(w, i) <=> i >= 8 /\ Bit(n, i - 8)
  BY Upper
<1>2. h \in Nat /\ h < 256 /\ l \in Nat /\ l < 256 /\ c = h * 256 + l
  BY Halves
<1> HIDE DEF w, h, l
<1>3. /\ Xor(w, c, 16) \in Word16
      /\ \A i \in 0..15 : Bit(Xor(w, c, 16), i) <=> ~ (Bit(w, i) <=> Bit(c, i))
  BY XorWord
<1>4. ASSUME NEW i \in 0..15
      PROVE  Bit(Xor(w, c, 16), i) <=>
               IF i < 8 THEN Bit(l, i) ELSE ~ (Bit(n, i - 8) <=> Bit(h, i - 8))
  <2>1. i \in 0..18 /\ (i < 8 <=> ~ (i >= 8))
    OBVIOUS
  <2>2. Bit(c, i) <=> IF i < 8 THEN Bit(l, i) ELSE Bit(h, i - 8)
    BY <1>2, <2>1, BytesBits
  <2>3. (Bit(w, i) <=> i >= 8 /\ Bit(n, i - 8)) /\ (Bit(Xor(w, c, 16), i) <=> ~ (Bit(w, i) <=> Bit(c, i)))
    BY <1>1, <1>3
  <2> QED
    BY <2>1, <2>2, <2>3
<1>5. Joined(c, n) = Xor(w, c, 16)
  BY DEF Joined, w
<1> QED
  BY <1>3, <1>4, <1>5 DEF h, l

\* The Forth word and the Z80 one agree on a byte.
LEMMA Z80Same ==
  ASSUME NEW c \in Word16, NEW n \in Byte8
  PROVE  Z80CRC16(c, n) = ForthCRC16(c, n)
<1> DEFINE h == High(c)
           l == Low(c)
           m == Joined(c, n)
           x == Xor(n, h, 8)
           v == x * 256 + l
<1>1. m \in Word16 /\ \A i \in 0..15 : Bit(m, i) <=>
              IF i < 8 THEN Bit(l, i) ELSE ~ (Bit(n, i - 8) <=> Bit(h, i - 8))
  BY JoinedBits
<1>2. h \in Nat /\ h < 256 /\ l \in Nat /\ l < 256
  BY Halves
<1>3. ForthCRC16(c, n) = Rounds(Shift, m) /\ Z80CRC16(c, n) = Rounds(Z80Round, v)
  BY DEF ForthCRC16, Z80CRC16, Joined
<1> HIDE DEF h, l, m
<1>4. x \in Nat /\ x < 256 /\ \A i \in 0..7 : Bit(x, i) <=> ~ (Bit(n, i) <=> Bit(h, i))
  BY XorByte
<1> HIDE DEF x
<1>5. v \in Word16
  BY <1>2, <1>4 DEF Word16
<1>6. ASSUME NEW i \in 0..15 PROVE Bit(v, i) <=> Bit(m, i)
  <2>1. i \in 0..18
    OBVIOUS
  <2>2. Bit(v, i) <=> IF i < 8 THEN Bit(l, i) ELSE Bit(x, i - 8)
    BY <1>2, <1>4, <2>1, BytesBits
  <2>3. ~ (i < 8) => i - 8 \in 0..7
    OBVIOUS
  <2> QED
    BY <1>1, <1>4, <2>2, <2>3
<1> HIDE DEF v
<1>7. v = m
  BY <1>1, <1>5, <1>6, SameWord
<1>8. Rounds(Z80Round, m) = Rounds(Shift, m)
  <2>1. \E r : Shifts(r, m) /\ Rounds(Shift, m) = r[8] /\ Rounds(Z80Round, m) = r[8]
    BY <1>1, EightRounds
  <2> QED
    BY <2>1
<1> QED
  BY <1>3, <1>7, <1>8

\* The card's bits.
LEMMA CardBits ==
  ASSUME NEW c \in Word16, NEW n \in Byte8
  PROVE  \E x \in Byte8 :
    /\ \A j \in 0..7 : Bit(x, j) <=>
         ~ (Bit(Joined(c, n), 8 + j) <=> j < 4 /\ Bit(Joined(c, n), 12 + j))
    /\ CardCrc16(c, n) \in Word16
    /\ \A i \in 0..15 : Bit(CardCrc16(c, n), i) <=>
         Odd(i >= 8 /\ Bit(Low(c), i - 8), i < 8 /\ Bit(x, i),
             i \in 5..12 /\ Bit(x, i - 5), i >= 12 /\ Bit(x, i - 12))
<1> DEFINE h == High(c)
           l == Low(c)
           m == Joined(c, n)
           y == Xor(h, n, 8)
           x == Xor(y, y \div 16, 8)
           a == (c * 256) % 65536
           b == (x * 4096) % 65536
           d == x * 32
           u == Xor(a, b, 16)
           v == Xor(u, d, 16)
           w == Xor(v, x, 16)
<1>1. \A i \in 0..15 : Bit(m, i) <=>
              IF i < 8 THEN Bit(l, i) ELSE ~ (Bit(n, i - 8) <=> Bit(h, i - 8))
  BY JoinedBits
<1>2. h \in Nat /\ h < 256 /\ l \in Nat /\ l < 256 /\ c = h * 256 + l
  BY Halves
<1>3. CardCrc16(c, n) = w
  BY DEF CardCrc16
<1>4. a = (l * 256) % 65536 /\ l \in Byte8
  BY <1>2 DEF Byte8
<1> HIDE DEF h, l, m
<1>5. \A i \in 0..15 : Bit(a, i) <=> i >= 8 /\ Bit(l, i - 8)
  BY <1>4, Upper
<1> HIDE DEF a
<1>6. y \in Nat /\ y < 256 /\ \A i \in 0..7 : Bit(y, i) <=> ~ (Bit(h, i) <=> Bit(n, i))
  BY XorByte
<1> HIDE DEF y
<1>7. /\ x \in Nat /\ x < 256
      /\ \A i \in 0..7 : Bit(x, i) <=> ~ (Bit(y, i) <=> i < 4 /\ Bit(y, i + 4))
  <2> DEFINE k == 4
             t == 8
             s == y \div Pow(k)
  <2>1. Pow(k) = 16 /\ Pow(t) = 256 /\ k \in 0..18 /\ t \in 0..18
    BY PowerValues
  <2>2. s = y \div 16 /\ k = 4 /\ t = 8
    BY <2>1
  <2> HIDE DEF k, t, s
  <2>3. ASSUME NEW i \in 0..7 PROVE Bit(s, i) <=> Bit(y, i + 4)
    <3>1. i \in 0..18 /\ i + k <= 18 /\ i + k = i + 4
      BY <2>2
    <3>2. Bit(y \div Pow(k), i) <=> Bit(y, i + k)
      BY <1>6, <2>1, <3>1, BitLowered
    <3> QED
      BY <3>1, <3>2 DEF s
  <2>4. ASSUME NEW i \in 0..7, ~ (i < 4) PROVE ~ Bit(y, i + 4)
    <3> DEFINE j == i + 4
    <3>1. j \in t..18 /\ y < Pow(t)
      BY <1>6, <2>1, <2>2, <2>4
    <3> HIDE DEF j
    <3>2. ~ Bit(y, j)
      BY <1>6, <2>1, <3>1, BitsEnd
    <3> QED
      BY <3>2 DEF j
  <2>5. x = Xor(y, s, 8)
    BY <2>2
  <2> HIDE DEF x
  <2>6. x \in Nat /\ x < 256 /\ \A i \in 0..7 : Bit(x, i) <=> ~ (Bit(y, i) <=> Bit(s, i))
    BY <2>5, XorByte
  <2> QED
    BY <2>3, <2>4, <2>6
<1> HIDE DEF x
<1>8. ASSUME NEW j \in 0..7 PROVE Bit(x, j) <=> ~ (Bit(m, 8 + j) <=> j < 4 /\ Bit(m, 12 + j))
  <2> DEFINE i == 8 + j
  <2>1. i \in 0..15 /\ ~ (i < 8) /\ i - 8 = j
    OBVIOUS
  <2>2. Bit(m, 8 + j) <=> ~ (Bit(n, j) <=> Bit(h, j))
    <3> HIDE DEF i
    <3>1. Bit(m, i) <=> ~ (Bit(n, j) <=> Bit(h, j))
      BY <1>1, <2>1
    <3> QED
      BY <3>1 DEF i
  <2>3. j < 4 => (Bit(m, 12 + j) <=> Bit(y, j + 4))
    <3> SUFFICES ASSUME j < 4 PROVE Bit(m, 12 + j) <=> Bit(y, j + 4)
      OBVIOUS
    <3> DEFINE e == 12 + j
               f == j + 4
    <3>1. e \in 0..15 /\ ~ (e < 8) /\ e - 8 = f /\ f \in 0..7
      OBVIOUS
    <3> HIDE DEF e, f
    <3>2. Bit(m, e) <=> Bit(y, f)
      BY <1>1, <1>6, <3>1
    <3> QED
      BY <3>2 DEF e, f
  <2> QED
    BY <1>6, <1>7, <2>2, <2>3
<1>9. ASSUME NEW k \in Nat, k \in 8..18 PROVE ~ Bit(x, k)
  <2> DEFINE t == 8
  <2>1. t \in 0..18 /\ x < Pow(t) /\ k \in t..18
    BY <1>7, <1>9, PowerValues
  <2> HIDE DEF t
  <2> QED
    BY <1>7, <2>1, BitsEnd
<1>10. ASSUME NEW i \in 0..15 PROVE Bit(b, i) <=> i >= 12 /\ Bit(x, i - 12)
  <2> DEFINE k == 12
             e == x * 4096
  <2>1. Pow(k) = 4096 /\ k \in 0..18 /\ i \in 0..18 /\ k = 12 /\ e \in Nat
    BY <1>7, PowerValues
  <2>2. Bit(b, i) <=> Bit(e, i)
    <3>1. b = e % 65536
      OBVIOUS
    <3> HIDE DEF b, e
    <3> QED
      BY <2>1, <3>1, CutWord
  <2> HIDE DEF b
  <2>3. e = x * Pow(k)
    BY <2>1
  <2> HIDE DEF k, e
  <2>4. Bit(x * Pow(k), i) <=> i >= k /\ Bit(x, i - k)
    BY <1>7, <2>1, BitRaised
  <2> QED
    BY <2>1, <2>2, <2>3, <2>4
<1>11. ASSUME NEW i \in 0..15 PROVE Bit(d, i) <=> i \in 5..12 /\ Bit(x, i - 5)
  <2> DEFINE k == 5
  <2>1. Pow(k) = 32 /\ k \in 0..18 /\ i \in 0..18 /\ k = 5
    BY PowerValues
  <2>3. d = x * Pow(k)
    BY <2>1
  <2> HIDE DEF k, d
  <2>4. Bit(x * Pow(k), i) <=> i >= k /\ Bit(x, i - k)
    BY <1>7, <2>1, BitRaised
  <2>5. i >= 13 => ~ Bit(x, i - 5)
    <3> SUFFICES ASSUME i >= 13 PROVE ~ Bit(x, i - 5)
      OBVIOUS
    <3> DEFINE e == i - 5
    <3>1. e \in Nat /\ e \in 8..18
      OBVIOUS
    <3> HIDE DEF e
    <3>2. ~ Bit(x, e)
      BY <1>9, <3>1
    <3> QED
      BY <3>2 DEF e
  <2>6. i \in 5..12 <=> i >= 5 /\ ~ (i >= 13)
    OBVIOUS
  <2> QED
    BY <2>1, <2>3, <2>4, <2>5, <2>6
<1>12. ASSUME NEW i \in 0..15 PROVE Bit(x, i) <=> i < 8 /\ Bit(x, i)
  BY <1>9
<1> HIDE DEF b, d
<1>13. \A i \in 0..15 : Bit(u, i) <=> ~ (Bit(a, i) <=> Bit(b, i))
  BY XorWord
<1> HIDE DEF u
<1>14. \A i \in 0..15 : Bit(v, i) <=> ~ (Bit(u, i) <=> Bit(d, i))
  BY XorWord
<1> HIDE DEF v
<1>15. w \in Word16 /\ \A i \in 0..15 : Bit(w, i) <=> ~ (Bit(v, i) <=> Bit(x, i))
  BY XorWord
<1> HIDE DEF w
<1>16. ASSUME NEW i \in 0..15
       PROVE  Bit(w, i) <=> Odd(i >= 8 /\ Bit(l, i - 8), i < 8 /\ Bit(x, i),
                   i \in 5..12 /\ Bit(x, i - 5), i >= 12 /\ Bit(x, i - 12))
  <2>1. Bit(w, i) <=> Odd(Bit(a, i), Bit(x, i), Bit(d, i), Bit(b, i))
    BY <1>13, <1>14, <1>15 DEF Odd
  <2>2. /\ Bit(a, i) <=> i >= 8 /\ Bit(l, i - 8)
        /\ Bit(x, i) <=> i < 8 /\ Bit(x, i)
        /\ Bit(d, i) <=> i \in 5..12 /\ Bit(x, i - 5)
        /\ Bit(b, i) <=> i >= 12 /\ Bit(x, i - 12)
    BY <1>5, <1>10, <1>11, <1>12
  <2> QED
    BY <2>1, <2>2 DEF Odd
<1>17. x \in Byte8
  BY <1>7 DEF Byte8
<1> QED
  BY <1>3, <1>8, <1>15, <1>16, <1>17 DEF m, l

\* The Forth word and the card agree on a byte.
LEMMA CardSame ==
  ASSUME NEW c \in Word16, NEW n \in Byte8
  PROVE  ForthCRC16(c, n) \in Word16 /\ CardCrc16(c, n) = ForthCRC16(c, n)
<1> DEFINE m == Joined(c, n)
           k == CardCrc16(c, n)
           l == Low(c)
<1>1. PICK x \in Byte8 :
    /\ \A j \in 0..7 : Bit(x, j) <=> ~ (Bit(m, 8 + j) <=> j < 4 /\ Bit(m, 12 + j))
    /\ k \in Word16
    /\ \A i \in 0..15 : Bit(k, i) <=>
         Odd(i >= 8 /\ Bit(l, i - 8), i < 8 /\ Bit(x, i),
             i \in 5..12 /\ Bit(x, i - 5), i >= 12 /\ Bit(x, i - 12))
  BY CardBits
<1>2. m \in Word16 /\ \A i \in 0..15 : Bit(m, i) <=>
              IF i < 8 THEN Bit(l, i) ELSE ~ (Bit(n, i - 8) <=> Bit(High(c), i - 8))
  BY JoinedBits
<1>3. ForthCRC16(c, n) = Rounds(Shift, m)
  BY DEF ForthCRC16, Joined
<1> HIDE DEF m, k, l
<1>4. PICK r : Shifts(r, m) /\ Rounds(Shift, m) = r[8]
  BY <1>2, EightRounds
<1>5. r[8] \in Word16
  BY <1>4 DEF Shifts
<1>6. After(r, m, x, 8)
  BY <1>1, <1>2, <1>4, Feeding
<1>7. ASSUME NEW i \in 0..15 PROVE Bit(k, i) <=> Bit(r[8], i)
  <2>1. Bit(r[8], i) <=>
      Odd(i >= 8 /\ Bit(m, i - 8), Fed(x, 8, i), Fed(x, 8, i - 5), Fed(x, 8, i - 12))
    BY <1>6 DEF After
  <2>2. i >= 8 => (Bit(m, i - 8) <=> Bit(l, i - 8))
    <3> SUFFICES ASSUME i >= 8 PROVE Bit(m, i - 8) <=> Bit(l, i - 8)
      OBVIOUS
    <3> DEFINE j == i - 8
    <3>1. j \in 0..15 /\ j < 8
      OBVIOUS
    <3> HIDE DEF j
    <3>2. Bit(m, j) <=> Bit(l, j)
      BY <1>2, <3>1
    <3> QED
      BY <3>2 DEF j
  <2>3. ASSUME NEW j \in Int PROVE Fed(x, 8, j) <=> j \in 0..7 /\ Bit(x, j)
    <3>1. 8 - 1 = 7 /\ 8 - 8 + j = j
      OBVIOUS
    <3> QED
      BY <3>1 DEF Fed
  <2>4. i \in Int /\ i - 5 \in Int /\ i - 12 \in Int
        /\ (i \in 0..7 <=> i < 8) /\ (i - 5 \in 0..7 <=> i \in 5..12)
        /\ (i - 12 \in 0..7 <=> i >= 12)
    OBVIOUS
  <2>5. (Fed(x, 8, i) <=> i < 8 /\ Bit(x, i))
        /\ (Fed(x, 8, i - 5) <=> i \in 5..12 /\ Bit(x, i - 5))
        /\ (Fed(x, 8, i - 12) <=> i >= 12 /\ Bit(x, i - 12))
    BY <2>3, <2>4
  <2>6. Bit(k, i) <=> Odd(i >= 8 /\ Bit(l, i - 8), i < 8 /\ Bit(x, i),
             i \in 5..12 /\ Bit(x, i - 5), i >= 12 /\ Bit(x, i - 12))
    BY <1>1
  <2> QED
    BY <2>1, <2>2, <2>5, <2>6 DEF Odd
<1>8. k = r[8]
  BY <1>1, <1>5, <1>7, SameWord
<1> QED
  BY <1>3, <1>4, <1>5, <1>8 DEF k

\* csum.c agrees on a byte in the lower sixteen bits.
LEMMA CsumSame ==
  ASSUME NEW c \in Word18, NEW n \in Byte8, NEW d, d = c % 65536
  PROVE  /\ CsumCrc16(c, n) \in Word18
         /\ CsumCrc16(c, n) % 65536 = ForthCRC16(d, n)
<1> DEFINE w == n * 256
           s == Xor(c, w, 18)
           m == Joined(d, n)
           b == s % 65536
<1>1. c \in Nat /\ n \in Nat /\ n < 256
  BY DEF Word18, Byte8
<1>2. d \in Word16 /\ \A i \in 0..15 : Bit(d, i) <=> Bit(c, i)
  BY <1>1, CutWord
<1>3. w = (n * 256) % 65536
  BY <1>1
<1>4. m = Xor(w, d, 16)
  BY <1>3 DEF Joined
<1>5. CsumCrc16(c, n) = Rounds(CsumRound, s) /\ ForthCRC16(d, n) = Rounds(Shift, m)
  BY DEF CsumCrc16, ForthCRC16, Joined
<1> HIDE DEF w, m
<1>6. m \in Word16 /\ \A i \in 0..15 : Bit(m, i) <=> ~ (Bit(w, i) <=> Bit(d, i))
  BY <1>4, XorWord
<1>7. s \in Word18 /\ \A i \in 0..15 : Bit(s, i) <=> ~ (Bit(c, i) <=> Bit(w, i))
  <2> DEFINE k == 18
  <2>1. k \in 0..18 /\ Pow(k) = 262144 /\ k - 1 = 17 /\ s = Xor(c, w, k)
    BY PowerValues
  <2> HIDE DEF k, s
  <2>2. /\ Xor(c, w, k) \in Nat /\ Xor(c, w, k) < Pow(k)
        /\ \A i \in 0..(k - 1) : Bit(Xor(c, w, k), i) <=> ~ (Bit(c, i) <=> Bit(w, i))
    BY <2>1, XorBits
  <2>3. \A i \in 0..15 : i \in 0..17
    OBVIOUS
  <2> QED
    BY <2>1, <2>2, <2>3 DEF Word18
<1> HIDE DEF s
<1>8. b \in Word16 /\ \A i \in 0..15 : Bit(b, i) <=> Bit(s, i)
  <2>1. s \in Nat
    BY <1>7 DEF Word18
  <2> QED
    BY <2>1, CutWord
<1>9. b = m
  <2>1. \A i \in 0..15 : Bit(b, i) <=> Bit(m, i)
    BY <1>2, <1>6, <1>7, <1>8
  <2> HIDE DEF b
  <2> QED
    BY <1>6, <1>8, <2>1, SameWord
<1>10. /\ Rounds(CsumRound, s) \in Word18
       /\ Rounds(CsumRound, s) % 65536 = Rounds(Shift, m)
  BY <1>6, <1>7, <1>9, CsumRounds
<1> QED
  BY <1>5, <1>10

-----------------------------------------------------------------------------
(* The CRCs of a run of bytes.                                             *)

Bytes(data) == Len(data) \in Nat /\ \A i \in 1..Len(data) : data[i] \in Byte8
Counted(f, data) ==
  /\ f[0] = 0 /\ \A i \in 0..Len(data) : f[i] \in Word16
  /\ \A i \in 1..Len(data) : f[i] = ForthCRC16(f[i - 1], data[i])

\* The Forth word, the Z80's and the card's formula count the same.
LEMMA ThreeSame ==
  ASSUME NEW data, Bytes(data)
  PROVE  \E f : /\ Counted(f, data)
                /\ Crc(ForthCRC16, data) = f[Len(data)]
                /\ Crc(Z80CRC16, data) = f[Len(data)]
                /\ Crc(CardCrc16, data) = f[Len(data)]
<1> DEFINE n == Len(data)
           z == 0
           step == [i \in 1..n |-> [x \in Word16 |-> ForthCRC16(x, data[i])]]
           Forth(f) == [i \in 0..n |-> IF i = 0 THEN 0
                         ELSE LET c == f[i - 1] IN IF c \in Nat THEN ForthCRC16(c, data[i]) ELSE 0]
           Zilog(f) == [i \in 0..n |-> IF i = 0 THEN 0
                         ELSE LET c == f[i - 1] IN IF c \in Nat THEN Z80CRC16(c, data[i]) ELSE 0]
           Cards(f) == [i \in 0..n |-> IF i = 0 THEN 0
                         ELSE LET c == f[i - 1] IN IF c \in Nat THEN CardCrc16(c, data[i]) ELSE 0]
           a == CHOOSE f : f = Forth(f)
           b == CHOOSE f : f = Zilog(f)
           d == CHOOSE f : f = Cards(f)
<1>0. n \in Nat /\ z \in Word16 /\ z = 0 /\ \A i \in 1..n : data[i] \in Byte8
  BY DEF Bytes, Word16
<1>1. step \in [1..n -> [Word16 -> Word16]]
  BY <1>0, CardSame
<1>2. PICK f : Steps(f, Word16, z, n, step)
  <2> HIDE DEF step, n, z
  <2> QED
    BY <1>0, <1>1, Repeated
<1>3. f = [i \in 0..n |-> f[i]] /\ \A i \in 0..n : f[i] \in Word16 /\ f[i] \in Nat
  BY <1>2 DEF Steps, Word16
<1>4. ASSUME NEW i \in 0..n PROVE f[i] = IF i = 0 THEN 0 ELSE ForthCRC16(f[i - 1], data[i])
  <2>1. f[i] = IF i = 0 THEN 0 ELSE step[i][f[i - 1]]
    BY <1>2 DEF Steps
  <2>2. i # 0 => i \in 1..n /\ i - 1 \in 0..n
    BY <1>0
  <2>3. i # 0 => step[i][f[i - 1]] = ForthCRC16(f[i - 1], data[i])
    BY <1>3, <2>2
  <2> QED
    BY <2>1, <2>3
<1> HIDE DEF n
<1>5. ASSUME NEW i \in 1..n
      PROVE  /\ i \in 0..n /\ i # 0 /\ i - 1 \in 0..n
             /\ f[i] = ForthCRC16(f[i - 1], data[i])
             /\ f[i] = Z80CRC16(f[i - 1], data[i])
             /\ f[i] = CardCrc16(f[i - 1], data[i])
  <2>1. i \in 0..n /\ i # 0 /\ i - 1 \in 0..n
    BY <1>0
  <2>2. f[i - 1] \in Word16 /\ data[i] \in Byte8 /\ f[i] = ForthCRC16(f[i - 1], data[i])
    BY <1>0, <1>3, <1>4, <2>1
  <2> QED
    BY <2>1, <2>2, CardSame, Z80Same
<1>6. f[0] = 0
  BY <1>0, <1>4
<1>7. a = Forth(a) /\ b = Zilog(b) /\ d = Cards(d)
  <2>1. \A i \in 0..n : i = 0 \/ i \in 1..n
    BY <1>0
  <2>2. f = Forth(f)
    BY <1>3, <1>5, <1>6, <2>1
  <2>3. f = Zilog(f)
    BY <1>3, <1>5, <1>6, <2>1
  <2>4. f = Cards(f)
    BY <1>3, <1>5, <1>6, <2>1
  <2>5. a = Forth(a)
    BY <2>2
  <2>6. b = Zilog(b)
    BY <2>3
  <2>7. d = Cards(d)
    BY <2>4
  <2> QED
    BY <2>5, <2>6, <2>7
<1>8. Crc(ForthCRC16, data) = a[n] /\ Crc(Z80CRC16, data) = b[n] /\ Crc(CardCrc16, data) = d[n]
  BY DEF Crc, n
<1> HIDE DEF a, b, d
<1> DEFINE S == {i \in 0..n : a[i] = f[i] /\ b[i] = f[i] /\ d[i] = f[i]}
<1>9. 0 \in S
  BY <1>0, <1>6, <1>7
<1>10. ASSUME NEW i \in 1..n, i - 1 \in S PROVE i \in S
  <2>1. a[i - 1] = f[i - 1] /\ b[i - 1] = f[i - 1] /\ d[i - 1] = f[i - 1]
    BY <1>10
  <2>2. f[i - 1] \in Nat
    BY <1>3, <1>5
  <2>3. a[i] = ForthCRC16(f[i - 1], data[i])
    BY <1>5, <1>7, <2>1, <2>2
  <2>4. b[i] = Z80CRC16(f[i - 1], data[i])
    BY <1>5, <1>7, <2>1, <2>2
  <2>5. d[i] = CardCrc16(f[i - 1], data[i])
    BY <1>5, <1>7, <2>1, <2>2
  <2> QED
    BY <1>5, <2>3, <2>4, <2>5
<1>11. 0..n \subseteq S
  <2> HIDE DEF S
  <2> QED
    BY <1>0, <1>9, <1>10, UpTo
<1>12. a[n] = f[n] /\ b[n] = f[n] /\ d[n] = f[n]
  BY <1>0, <1>11
<1>13. Counted(f, data)
  BY <1>3, <1>5, <1>6 DEF Counted, n
<1> QED
  BY <1>8, <1>12, <1>13 DEF n

CsumCounted(s, data) ==
  /\ s[0] = 0 /\ \A i \in 0..Len(data) : s[i] \in Word18
  /\ \A i \in 1..Len(data) : s[i] = CsumCrc16(s[i - 1], data[i])

\* csum.c counts byte by byte too.
LEMMA CsumCounts ==
  ASSUME NEW data, Bytes(data)
  PROVE  \E s : CsumCounted(s, data) /\ Crc(CsumCrc16, data) = s[Len(data)]
<1> DEFINE n == Len(data)
           z == 0
           step == [i \in 1..n |-> [x \in Word18 |-> CsumCrc16(x, data[i])]]
           Host(f) == [i \in 0..n |-> IF i = 0 THEN 0
                         ELSE LET c == f[i - 1] IN IF c \in Nat THEN CsumCrc16(c, data[i]) ELSE 0]
           a == CHOOSE f : f = Host(f)
<1>0. n \in Nat /\ z \in Word18 /\ z = 0 /\ \A i \in 1..n : data[i] \in Byte8
  BY DEF Bytes, Word18
<1>1. step \in [1..n -> [Word18 -> Word18]]
  <2>1. \A c \in Word18, b \in Byte8 : CsumCrc16(c, b) \in Word18
    BY CsumSame
  <2> QED
    BY <1>0, <2>1
<1>2. PICK f : Steps(f, Word18, z, n, step)
  <2> HIDE DEF step, n, z
  <2> QED
    BY <1>0, <1>1, Repeated
<1>3. f = [i \in 0..n |-> f[i]] /\ \A i \in 0..n : f[i] \in Word18 /\ f[i] \in Nat
  BY <1>2 DEF Steps, Word18
<1>4. ASSUME NEW i \in 0..n PROVE f[i] = IF i = 0 THEN 0 ELSE CsumCrc16(f[i - 1], data[i])
  <2>1. f[i] = IF i = 0 THEN 0 ELSE step[i][f[i - 1]]
    BY <1>2 DEF Steps
  <2>2. i # 0 => i \in 1..n /\ i - 1 \in 0..n
    BY <1>0
  <2>3. i # 0 => step[i][f[i - 1]] = CsumCrc16(f[i - 1], data[i])
    BY <1>3, <2>2
  <2> QED
    BY <2>1, <2>3
<1> HIDE DEF n
<1>5. \A i \in 0..n : i = 0 \/ (i \in 1..n /\ i - 1 \in 0..n)
  BY <1>0
<1>6. a = Host(a)
  <2>1. f = Host(f)
    BY <1>3, <1>4, <1>5
  <2> QED
    BY <2>1
<1>7. Crc(CsumCrc16, data) = a[n]
  BY DEF Crc, n
<1> HIDE DEF a
<1> DEFINE S == {i \in 0..n : a[i] = f[i]}
<1>8. 0 \in S
  BY <1>0, <1>4, <1>6
<1>9. ASSUME NEW i \in 1..n PROVE i \in 0..n /\ i # 0 /\ i - 1 \in 0..n
  BY <1>0
<1>10. ASSUME NEW i \in 1..n, i - 1 \in S PROVE i \in S
  <2>1. a[i - 1] = f[i - 1] /\ f[i - 1] \in Nat
    BY <1>3, <1>9, <1>10
  <2>2. a[i] = CsumCrc16(f[i - 1], data[i])
    BY <1>6, <1>9, <2>1
  <2> QED
    BY <1>4, <1>9, <2>2
<1>11. 0..n \subseteq S
  <2> HIDE DEF S
  <2> QED
    BY <1>0, <1>8, <1>10, UpTo
<1>12. a[n] = f[n]
  BY <1>0, <1>11
<1>13. CsumCounted(f, data)
  <2>1. f[0] = 0
    BY <1>0, <1>4
  <2>2. ASSUME NEW i \in 1..n PROVE f[i] = CsumCrc16(f[i - 1], data[i])
    BY <1>4, <1>9
  <2> QED
    BY <1>3, <2>1, <2>2 DEF CsumCounted, n
<1> QED
  BY <1>7, <1>12, <1>13 DEF n

\* All four tell the same of any bytes.
LEMMA FourSame ==
  ASSUME NEW data, Bytes(data)
  PROVE  /\ Crc(ForthCRC16, data) \in Word16
         /\ Crc(ForthCRC16, data) = Crc(Z80CRC16, data)
         /\ Crc(ForthCRC16, data) = Crc(CardCrc16, data)
         /\ Crc(ForthCRC16, data) = Crc(CsumCrc16, data) % 65536
<1> DEFINE n == Len(data)
<1>1. n \in Nat /\ \A i \in 1..n : data[i] \in Byte8
  BY DEF Bytes
<1>2. PICK f : /\ Counted(f, data)
               /\ Crc(ForthCRC16, data) = f[n]
               /\ Crc(Z80CRC16, data) = f[n]
               /\ Crc(CardCrc16, data) = f[n]
  BY ThreeSame
<1>3. PICK s : CsumCounted(s, data) /\ Crc(CsumCrc16, data) = s[n]
  BY CsumCounts
<1>4. /\ f[0] = 0 /\ \A i \in 0..n : f[i] \in Word16
      /\ \A i \in 1..n : f[i] = ForthCRC16(f[i - 1], data[i])
  BY <1>2 DEF Counted
<1>5. /\ s[0] = 0 /\ \A i \in 0..n : s[i] \in Word18
      /\ \A i \in 1..n : s[i] = CsumCrc16(s[i - 1], data[i])
  BY <1>3 DEF CsumCounted
<1> HIDE DEF n
<1> DEFINE S == {i \in 0..n : f[i] = s[i] % 65536}
<1>6. 0 \in S
  <2>1. 0 % 65536 = 0
    OBVIOUS
  <2> QED
    BY <1>1, <1>4, <1>5, <2>1
<1>7. ASSUME NEW i \in 1..n, i - 1 \in S PROVE i \in S
  <2> DEFINE d == f[i - 1]
             c == s[i - 1]
  <2>1. i \in 0..n /\ i - 1 \in 0..n /\ d = c % 65536
    BY <1>1, <1>7
  <2>2. c \in Word18 /\ data[i] \in Byte8 /\ f[i] = ForthCRC16(d, data[i])
        /\ s[i] = CsumCrc16(c, data[i])
    BY <1>1, <1>4, <1>5, <2>1
  <2> HIDE DEF c, d
  <2>3. CsumCrc16(c, data[i]) % 65536 = ForthCRC16(d, data[i])
    BY <2>1, <2>2, CsumSame
  <2> QED
    BY <2>1, <2>2, <2>3
<1>8. 0..n \subseteq S
  <2> HIDE DEF S
  <2> QED
    BY <1>1, <1>6, <1>7, UpTo
<1>9. f[n] = s[n] % 65536 /\ f[n] \in Word16
  BY <1>1, <1>4, <1>8
<1> QED
  BY <1>2, <1>3, <1>9

-----------------------------------------------------------------------------
(* The card's CRC of a sector.                                             *)

\* The card's CRC is a number after each byte,
LEMMA CardCrcNumber == ASSUME NEW c, NEW b PROVE CardCrc16(c, b) \in Nat
<1> DEFINE y == Xor(High(c), b, 8)
           x == Xor(y, y \div 16, 8)
           l == Xor(Xor((c * 256) % 65536, (x * 4096) % 65536, 16), x * 32, 16)
<1>1. CardCrc16(c, b) = Xor(l, x, 16)
  BY DEF CardCrc16
<1> HIDE DEF l, x
<1>2. Xor(l, x, 16) \in Nat
  BY XorWord DEF Word16
<1> QED
  BY <1>1, <1>2

\* The CRCs k of the first bytes of data, as the card counts them.
Totals(k, data, n) ==
  /\ k[0] = 0 /\ \A i \in 0..n : k[i] \in Nat
  /\ \A i \in 1..n : k[i] = CardCrc16(k[i - 1], data[i])

\* so the CRC kept byte by byte is that of the data so far.
LEMMA CardCrcIs ==
  ASSUME NEW data, Len(data) \in Nat
  PROVE  \E k : Totals(k, data, Len(data)) /\ Crc(CardCrc16, data) = k[Len(data)]
<1> DEFINE n == Len(data)
           step == [i \in 1..n |-> [x \in Nat |-> CardCrc16(x, data[i])]]
           Step(f) == [i \in 0..n |-> IF i = 0 THEN 0
                         ELSE LET c == f[i - 1] IN IF c \in Nat THEN CardCrc16(c, data[i]) ELSE 0]
           crc == CHOOSE f : f = Step(f)
<1>2. step \in [1..n -> [Nat -> Nat]]
  BY CardCrcNumber
<1>3. PICK f : Steps(f, Nat, 0, n, step)
  <2> HIDE DEF step, n
  <2> QED
    BY <1>2, Repeated DEF n
<1>4. \A i \in 0..n : f[i] \in Nat
  BY <1>3 DEF Steps
<1>5. f = Step(f)
  <2>1. ASSUME NEW i \in 0..n
        PROVE  f[i] = IF i = 0 THEN 0
                      ELSE LET c == f[i - 1] IN IF c \in Nat THEN CardCrc16(c, data[i]) ELSE 0
    <3>1. f[i] = IF i = 0 THEN 0 ELSE step[i][f[i - 1]]
      BY <1>3 DEF Steps
    <3>2. CASE i = 0
      BY <3>1, <3>2
    <3>3. CASE i # 0
      <4>1. i \in 1..n /\ i - 1 \in 0..n
        BY <3>3
      <4>2. step[i][f[i - 1]] = CardCrc16(f[i - 1], data[i])
        BY <1>4, <4>1
      <4> QED
        BY <1>4, <3>1, <3>3, <4>1, <4>2
    <3> QED
      BY <3>2, <3>3
  <2>2. f = [i \in 0..n |-> f[i]]
    BY <1>3 DEF Steps
  <2> QED
    BY <2>1, <2>2
<1>6. crc = Step(crc)
  BY <1>5
<1>7. Crc(CardCrc16, data) = crc[n]
  BY DEF Crc
<1> HIDE DEF crc
<1>8. \A i \in 0..n : crc[i] \in Nat
  BY <1>6, CardCrcNumber
<1>9. ASSUME NEW i \in 1..n PROVE crc[i] = CardCrc16(crc[i - 1], data[i])
  <2>1. i \in 0..n /\ i # 0 /\ i - 1 \in 0..n
    OBVIOUS
  <2> QED
    BY <1>6, <1>8, <2>1
<1>10. crc[0] = 0
  BY <1>6
<1> QED
  <2>1. Totals(crc, data, n)
    BY <1>8, <1>9, <1>10 DEF Totals
  <2> QED
    BY <1>7, <2>1

-----------------------------------------------------------------------------
(* A sector read.                                                          *)

\* What a card sends of a sector that holds p.
Sent(p) == [i \in 1..(Len512 + 2) |-> IF i <= Len512 THEN p[i]
                                      ELSE IF i = Len512 + 1 THEN High(Crc(CardCrc16, p))
                                      ELSE Low(Crc(CardCrc16, p))]
\* What is read past the file's end.
Blank == [i \in 1..Len512 |-> Idle]
Held(f, at) == IF at \in Sectors THEN f[at] ELSE Blank

\* All the bytes of a sector are the sector.
LEMMA FirstAll ==
  ASSUME NEW n \in Nat, NEW x, x = [i \in 1..n |-> x[i]]
  PROVE  First(x, n) = x
  BY DEF First

\* The data of a sector and its CRC are taken; then the card is still.
LEMMA SectorTaken ==
  ASSUME NEW at, NEW f, NEW g, NEW p, p = Held(f, at), Len(p) = Len512
  PROVE  \E k : Idles(Line(Card(Up, <<>>, <<>>, 0, -2, at, 0), f, g), Len512 + 2)
                  = Line(Still(Up, at, k), f, Sent(p))
<1> DEFINE z == <<>>
           a == -1
           b == -2
           L == Len512
           N == Len512 + 2
           x == Sent(p)
           total == Crc(CardCrc16, p)
           hi == High(total)
           lo == Low(total)
           s == Line(Card(Up, z, z, 0, b, at, 0), f, g)
           y == Silence(N)
<1>0. L \in Nat \ {0} /\ N \in Nat /\ N = L + 2 /\ Up \in Nat /\ Up \in Int /\ ~ (Up < Woken)
      /\ a \in Int /\ b \in Int
  BY BoundsAssumption, Steps4
<1>1. PICK k : Totals(k, p, L) /\ total = k[L]
  <2>1. Len(p) \in Nat
    BY <1>0
  <2> QED
    BY <2>1, CardCrcIs
<1> DEFINE u == k[L - 1]
           reading(m) == Line(Card(Up, z, z, m, b, at, k[m]), f, First(x, m))
           sending(q, m) == Line(Card(Up, z, q, a, b, at, u), f, First(x, m))
           e == [m \in 0..N |-> IF m < L THEN reading(m)
                                ELSE IF m = L THEN sending(<<hi, lo>>, m)
                                ELSE IF m = L + 1 THEN sending(<<lo>>, m)
                                ELSE sending(z, m)]
<1>2. Len(y) = N /\ Idles(s, N) = Sends(s, y) /\ \A n \in 1..N : y[n] = Idle
  <2> HIDE DEF s, N
  <2> QED
    BY <1>0, SilenceGrows DEF Idles, Silence
<1> HIDE DEF s, y
<1>3. PICK h : Trace(h, "send", s, y, N) /\ Idles(s, N) = h[N]
  <2>1. Len(y) \in Nat
    BY <1>0, <1>2
  <2>2. \E h : Trace(h, "send", s, y, Len(y)) /\ Sends(s, y) = h[Len(y)]
    BY <2>1, SendsTrace
  <2> HIDE DEF N
  <2> QED
    BY <1>2, <2>2
<1>4. e[0] = Begin(s)
  <2>1. k[0] = 0 /\ First(x, 0) = z
    BY <1>1, FirstGrows DEF Totals
  <2>2. e[0] = reading(0)
    BY <1>0
  <2> DEFINE c == Card(Up, z, z, 0, b, at, 0)
  <2>3. reading(0) = Line(c, f, z)
    BY <2>1
  <2> HIDE DEF c
  <2>4. Begin(Line(c, f, g)) = Line(c, f, <<>>)
    BY BeginLine
  <2> QED
    BY <2>2, <2>3, <2>4 DEF s, c
<1>5. ASSUME NEW n \in 1..L PROVE e[n] = Go("send", e[n - 1], Idle)
  <2> DEFINE q == n - 1
             r == First(x, q)
             w == p[n]
             c == k[q]
  <2>1. q \in Nat /\ q \in Int /\ n = q + 1 /\ q < L /\ q \in 0..N /\ n \in 0..N /\ q >= 0
        /\ n \in 1..N /\ n <= L /\ n \in Nat
    BY <1>0
  <2>2. e[n - 1] = Line(Card(Up, z, z, q, b, at, c), f, r)
    BY <2>1
  <2>3. w = (IF at \in Sectors THEN f[at][q + 1] ELSE Idle)
    BY <2>1 DEF Held, Blank
  <2>4. Append(r, w) = First(x, n)
    <3>1. x[n] = w
      BY <2>1 DEF Sent
    <3> HIDE DEF x, w, q
    <3> QED
      BY <2>1, <3>1, FirstGrows DEF q
  <2>5. CardCrc16(c, w) = k[n]
    BY <1>1 DEF Totals
  <2>6. Go("send", e[n - 1], Idle) = Spix(e[n - 1], Idle)
    BY DEF Go
  <2>7. e[n] = Line(ReadOn(Up, z, z, q, b, at, c, k[n]), f, First(x, n))
    <3>1. CASE n = L
      <4>1. e[n] = sending(<<hi, lo>>, n) /\ c = u
        BY <2>1, <3>1
      <4>2. k[n] = total
        BY <1>1, <3>1
      <4>3. ReadOn(Up, z, z, q, b, at, c, k[n]) = Card(Up, z, <<High(k[n]), Low(k[n])>>, -1, b, at, c)
        BY <2>1, <3>1 DEF ReadOn
      <4> QED
        BY <4>1, <4>2, <4>3
    <3>2. CASE n # L
      <4>1. e[n] = reading(n)
        BY <2>1, <3>2
      <4>2. ReadOn(Up, z, z, q, b, at, c, k[n]) = Card(Up, z, z, q + 1, b, at, k[n])
        BY <2>1, <3>2 DEF ReadOn
      <4> QED
        BY <2>1, <4>1, <4>2
    <3> QED
      BY <3>1, <3>2
  <2>8. z = <<>>
    OBVIOUS
  <2> HIDE DEF e, z, b, c, r, q, w, L, x
  <2>9. Spix(Line(Card(Up, z, z, q, b, at, c), f, r), Idle)
          = Line(ReadOn(Up, z, z, q, b, at, c, CardCrc16(c, w)), f, Append(r, w))
    BY <1>0, <2>1, <2>3, <2>8, ReadSpix
  <2> QED
    BY <2>2, <2>4, <2>5, <2>6, <2>7, <2>9
<1>6. ASSUME NEW q, q # <<>>, NEW m \in Nat, NEW n, n = m + 1, x[n] = Head(q), NEW v
      PROVE  Go("send", sending(q, m), v) = sending(Tail(q), n)
  <2> DEFINE r == First(x, m)
             w == x[n]
  <2> HIDE DEF z, a, b, x, u
  <2>1. Append(r, w) = First(x, n)
    BY <1>6, FirstGrows
  <2> HIDE DEF r
  <2>2. Spix(Line(Card(Up, z, q, a, b, at, u), f, r), v)
          = Line(Card(Up, z, Tail(q), a, b, at, u), f, Append(r, Head(q)))
    BY <1>0, <1>6, SendSpix
  <2> QED
    BY <1>6, <2>1, <2>2 DEF Go, r
<1>7. e[L + 1] = Go("send", e[L], Idle)
  <2> DEFINE q == <<hi, lo>>
  <2>1. q # <<>> /\ Head(q) = hi /\ Tail(q) = <<lo>>
    OBVIOUS
  <2>2. e[L] = sending(q, L) /\ e[L + 1] = sending(<<lo>>, L + 1)
    BY <1>0
  <2>3. L \in Nat /\ x[L + 1] = hi
    BY <1>0 DEF Sent
  <2> DEFINE M == L + 1
  <2> HIDE DEF sending, x, e, q, L
  <2>4. M = L + 1
    OBVIOUS
  <2> HIDE DEF M
  <2>5. Go("send", sending(q, L), Idle) = sending(Tail(q), M)
    BY <1>6, <2>1, <2>3, <2>4
  <2> QED
    BY <2>1, <2>2, <2>4, <2>5
<1>8. e[L + 2] = Go("send", e[L + 1], Idle)
  <2> DEFINE q == <<lo>>
  <2>1. q # <<>> /\ Head(q) = lo /\ Tail(q) = z
    OBVIOUS
  <2>2. e[L + 1] = sending(q, L + 1) /\ e[L + 2] = sending(z, L + 2)
    BY <1>0
  <2>3. L + 1 \in Nat /\ x[L + 2] = lo
    BY <1>0 DEF Sent
  <2> DEFINE M == L + 1
             K == L + 2
  <2>4. K = M + 1 /\ M \in Nat
    BY <1>0
  <2>6. e[M] = sending(q, M) /\ e[K] = sending(z, K) /\ x[K] = lo
    BY <2>2, <2>3
  <2> HIDE DEF sending, x, e, q, L, z
  <2> HIDE DEF M, K
  <2>5. Go("send", sending(q, M), Idle) = sending(Tail(q), K)
    BY <1>6, <2>1, <2>4, <2>6
  <2> QED
    BY <2>1, <2>5, <2>6 DEF M, K
<1>9. ASSUME NEW n \in 1..N PROVE e[n] = Go("send", e[n - 1], y[n])
  <2>1. n \in 1..L \/ n = L + 1 \/ n = L + 2
    BY <1>0
  <2>2. L + 1 - 1 = L /\ L + 2 - 1 = L + 1
    BY <1>0
  <2>3. y[n] = Idle
    BY <1>2
  <2> HIDE DEF e, N, L
  <2>4. CASE n \in 1..L
    BY <1>5, <2>3, <2>4
  <2>5. CASE n = L + 1
    BY <1>0, <1>7, <2>2, <2>3, <2>5
  <2>6. CASE n = L + 2
    BY <1>0, <1>8, <2>2, <2>3, <2>6
  <2> QED
    BY <2>1, <2>4, <2>5, <2>6
<1>10. e[N] = Line(Still(Up, at, u), f, x)
  <2>1. e[N] = sending(z, N)
    BY <1>0
  <2>2. x = [i \in 1..N |-> x[i]]
    BY DEF Sent
  <2> HIDE DEF x, N, e
  <2>3. First(x, N) = x
    BY <1>0, <2>2, FirstAll
  <2> QED
    BY <2>1, <2>3 DEF Still
<1> HIDE DEF e
<1>11. h[N] = e[N]
  <2> HIDE DEF N
  <2>1. Trace(e, "send", s, y, N)
    BY <1>4, <1>9 DEF Trace
  <2> QED
    BY <1>0, <1>3, <2>1, OneTrace
<1> QED
  BY <1>3, <1>10, <1>11 DEF s

\* Which the driver finds to be as it should.
LEMMA SentIsGood ==
  ASSUME NEW p \in Patterns \cup {Blank}
  PROVE  Len(p) = Len512 /\ SubSeq(Sent(p), 1, Len512) = p /\ Good(Sent(p))
<1> DEFINE L == Len512
           n == Crc(CardCrc16, p)
           x == Sent(p)
<1>1. L \in Nat \ {0}
  BY BoundsAssumption
<1>2. p \in [1..L -> Byte]
  <2>1. Patterns \subseteq [1..L -> Byte]
    BY BytesAssumption
  <2>2. Blank \in [1..L -> Byte]
    BY DEF Blank, Byte, Idle
  <2> QED
    BY <2>1, <2>2
<1>3. Len(p) = L /\ p \in Seq(Byte)
  BY <1>1, <1>2
<1>4. n \in Nat
  <2> HIDE DEF L
  <2>1. PICK k : Totals(k, p, L) /\ n = k[L]
    BY <1>1, <1>3, CardCrcIs
  <2> QED
    BY <1>1, <2>1 DEF Totals
<1>5. High(n) \in Nat /\ Low(n) \in Nat /\ 256 * High(n) + Low(n) = n
  <2> HIDE DEF n
  <2> QED
    BY <1>4 DEF High, Low
<1>6. /\ x \in [1..(L + 2) -> Nat] /\ \A i \in 1..L : x[i] = p[i]
      /\ x[L + 1] = High(n) /\ x[L + 2] = Low(n)
  <2> DEFINE h == High(n)
             l == Low(n)
  <2>1. x = [i \in 1..(L + 2) |-> IF i <= L THEN p[i] ELSE IF i = L + 1 THEN h ELSE l]
    BY DEF Sent
  <2>2. Byte \subseteq Nat
    BY DEF Byte
  <2>3. h \in Nat /\ l \in Nat
    BY <1>5
  <2> HIDE DEF x, h, l, L
  <2>4. \A i \in 1..L : p[i] \in Nat
    BY <1>2, <2>2
  <2>5. ASSUME NEW i \in 1..(L + 2)
        PROVE  (IF i <= L THEN p[i] ELSE IF i = L + 1 THEN h ELSE l) \in Nat
    BY <1>1, <2>3, <2>4
  <2>6. x \in [1..(L + 2) -> Nat]
    BY <2>1, <2>5
  <2>7. \A i \in 1..L : x[i] = p[i]
    BY <1>1, <2>1
  <2>8. x[L + 1] = h /\ x[L + 2] = l
    BY <1>1, <2>1
  <2> QED
    BY <2>6, <2>7, <2>8 DEF h, l
<1>7. SubSeq(x, 1, L) = p
  <2>1. x \in Seq(Nat) /\ Len(x) = L + 2
    BY <1>1, <1>6
  <2> HIDE DEF x, L
  <2>2. SubSeq(x, 1, L) \in [1..L -> Nat] /\ \A i \in 1..L : SubSeq(x, 1, L)[i] = x[i]
    <3>1. 1 \in 1..(Len(x) + 1) /\ L \in 0..Len(x)
      BY <1>1, <2>1
    <3>2. /\ SubSeq(x, 1, L) \in Seq(Nat)
          /\ Len(SubSeq(x, 1, L)) = IF 1 <= L THEN L - 1 + 1 ELSE 0
          /\ \A i \in 1..(L - 1 + 1) : SubSeq(x, 1, L)[i] = x[1 + i - 1]
      BY <2>1, <3>1, SubSeqProperties
    <3>3. L - 1 + 1 = L /\ 1 <= L /\ \A i \in 1..L : 1 + i - 1 = i
      BY <1>1
    <3> DEFINE q == SubSeq(x, 1, L)
    <3>4. q \in Seq(Nat) /\ Len(q) = L /\ \A i \in 1..L : q[i] = x[i]
      BY <3>2, <3>3
    <3> HIDE DEF q
    <3>5. q \in [1..L -> Nat] /\ \A i \in 1..L : q[i] = x[i]
      BY <1>1, <3>4
    <3> QED
      BY <3>5 DEF q
  <2> QED
    BY <1>1, <1>2, <1>6, <2>2
<1>8. CRC16(p) = n
  <2>1. Byte \subseteq Byte8
    BY DEF Byte, Byte8
  <2>2. Bytes(p)
    BY <1>1, <1>2, <1>3, <2>1 DEF Bytes
  <2> QED
    BY <2>2, FourSame DEF CRC16
<1> HIDE DEF x, n, L
<1> QED
  BY <1>3, <1>5, <1>6, <1>7, <1>8 DEF Good, x, L

-----------------------------------------------------------------------------
(* A sector written.                                                       *)

\* The bytes that write a sector: silence, a token, the data, a CRC.
LEMMA PacketIs ==
  ASSUME NEW data \in [1..Len512 -> Byte]
  PROVE  /\ Len(Packet(data)) = Len512 + 4
         /\ Packet(data)[1] = Idle /\ Packet(data)[2] = Token
         /\ \A i \in 1..Len512 : Packet(data)[i + 2] = data[i]
<1> DEFINE h == <<Idle, Token>>
           k == CRC16(data)
           hi == High(k)
           lo == Low(k)
           t == <<hi, lo>>
           V == Byte \cup {Idle, Token, hi, lo}
<1>1. Len512 \in Nat
  BY BoundsAssumption
<1>2. Packet(data) = (h \o data) \o t
  BY DEF Packet
<1>3. h \in Seq(V) /\ Len(h) = 2 /\ h[1] = Idle /\ h[2] = Token
  <2> HIDE DEF hi, lo
  <2> QED
    OBVIOUS
<1>4. t \in Seq(V) /\ Len(t) = 2
  <2> HIDE DEF hi, lo
  <2> QED
    OBVIOUS
<1>5. data \in Seq(V) /\ Len(data) = Len512
  <2> HIDE DEF hi, lo
  <2> QED
    BY <1>1
<1> DEFINE x == h \o data
           y == x \o t
<1> HIDE DEF h, t, V
<1>6. /\ x \in Seq(V) /\ Len(x) = Len(h) + Len(data)
      /\ \A i \in 1..(Len(h) + Len(data)) : x[i] = IF i <= Len(h) THEN h[i] ELSE data[i - Len(h)]
  BY <1>3, <1>5, ConcatProperties, Zenon
<1>7. /\ x \in Seq(V) /\ Len(x) = Len512 + 2 /\ x[1] = Idle /\ x[2] = Token
      /\ \A i \in 1..Len512 : x[i + 2] = data[i]
  <2> HIDE DEF x
  <2>1. Len(x) = Len512 + 2
    BY <1>1, <1>3, <1>5, <1>6
  <2>2. \A i \in 1..(2 + Len512) : x[i] = IF i <= 2 THEN h[i] ELSE data[i - 2]
    BY <1>3, <1>5, <1>6
  <2>3. x[1] = h[1] /\ x[2] = h[2]
    BY <1>1, <2>2
  <2>4. ASSUME NEW i \in 1..Len512 PROVE x[i + 2] = data[i]
    <3>1. i + 2 \in 1..(2 + Len512) /\ ~ (i + 2 <= 2) /\ i + 2 - 2 = i
      BY <1>1
    <3> QED
      BY <2>2, <3>1
  <2> QED
    BY <1>3, <1>6, <2>1, <2>3, <2>4
<1> HIDE DEF x
<1>10. /\ y \in Seq(V) /\ Len(y) = Len(x) + Len(t)
       /\ \A i \in 1..(Len(x) + Len(t)) : y[i] = IF i <= Len(x) THEN x[i] ELSE t[i - Len(x)]
  BY <1>4, <1>7, ConcatProperties, Zenon
<1>11. Len(y) = Len512 + 4 /\ \A i \in 1..(Len512 + 2) : y[i] = x[i]
  <2> HIDE DEF y
  <2>1. Len(y) = Len512 + 4
    BY <1>1, <1>4, <1>7, <1>10
  <2>2. \A i \in 1..(Len512 + 2) : i \in 1..(Len(x) + Len(t)) /\ i <= Len(x)
    BY <1>1, <1>4, <1>7
  <2> QED
    BY <1>10, <2>1, <2>2
<1>8. \A i \in 1..Len512 : i + 2 \in 1..(Len512 + 2)
  BY <1>1
<1>9. 1 \in 1..(Len512 + 2) /\ 2 \in 1..(Len512 + 2)
  BY <1>1
<1> QED
  BY <1>2, <1>7, <1>8, <1>9, <1>11 DEF x

\* A file f whose sector at has the first n bytes of data in it.
Mixed(f, at, data, n) == [i \in 1..Len512 |-> IF i <= n THEN data[i] ELSE f[at][i]]
Put(f, at, data, n) == IF at \in Sectors THEN [f EXCEPT ![at] = Mixed(f, at, data, n)] ELSE f
WithSector(f, at, data) == IF at \in Sectors THEN [f EXCEPT ![at] = data] ELSE f
WithData(f, at, i, v) == IF at \in Sectors THEN WithByte(f, at, i, v) ELSE f

\* A byte more is put into the sector.
LEMMA PutGrows ==
  ASSUME NEW f \in [Sectors -> [1..Len512 -> Byte]], NEW at, NEW data \in [1..Len512 -> Byte]
  PROVE  /\ Put(f, at, data, 0) = f
         /\ Put(f, at, data, Len512) = WithSector(f, at, data)
         /\ \A n \in 0..(Len512 - 1) :
              WithData(Put(f, at, data, n), at, n + 1, data[n + 1]) = Put(f, at, data, n + 1)
<1>0. Len512 \in Nat
  BY BoundsAssumption
<1>1. Put(f, at, data, 0) = f
  <2>1. CASE at \in Sectors
    <3>1. Mixed(f, at, data, 0) = f[at]
      <4>1. \A i \in 1..Len512 : ~ (i <= 0)
        BY <1>0
      <4>2. f[at] = [i \in 1..Len512 |-> f[at][i]]
        BY <2>1
      <4> QED
        BY <4>1, <4>2 DEF Mixed
    <3> QED
      BY <2>1, <3>1 DEF Put
  <2> QED
    BY <2>1 DEF Put
<1>2. Put(f, at, data, Len512) = WithSector(f, at, data)
  <2>1. Mixed(f, at, data, Len512) = data
    BY <1>0 DEF Mixed
  <2> QED
    BY <2>1 DEF Put, WithSector
<1>3. ASSUME NEW n \in 0..(Len512 - 1), at \in Sectors
      PROVE  WithByte(Put(f, at, data, n), at, n + 1, data[n + 1]) = Put(f, at, data, n + 1)
  <2> DEFINE g == Put(f, at, data, n)
             x == Mixed(f, at, data, n)
             y == Mixed(f, at, data, n + 1)
             u == [x EXCEPT ![n + 1] = data[n + 1]]
  <2>1. g = [f EXCEPT ![at] = x] /\ Put(f, at, data, n + 1) = [f EXCEPT ![at] = y]
    BY <1>3 DEF Put
  <2>2. u = y
    <3>1. u = [i \in 1..Len512 |-> IF i = n + 1 THEN data[n + 1] ELSE x[i]]
      BY DEF Mixed
    <3>2. \A i \in 1..Len512 : (IF i = n + 1 THEN data[n + 1] ELSE x[i])
                                 = (IF i <= n + 1 THEN data[i] ELSE f[at][i])
      BY <1>0 DEF Mixed
    <3>3. y = [i \in 1..Len512 |-> IF i <= n + 1 THEN data[i] ELSE f[at][i]]
      BY DEF Mixed
    <3> HIDE DEF x, y, u
    <3> QED
      BY <3>1, <3>2, <3>3
  <2> HIDE DEF x, y, g
  <2>3. g[at] = x
    BY <1>3, <2>1
  <2>4. [g EXCEPT ![at] = u] = [f EXCEPT ![at] = u]
    <3> HIDE DEF u
    <3> QED
      BY <1>3, <2>1
  <2> QED
    BY <2>1, <2>2, <2>3, <2>4 DEF g, WithByte
<1>4. ASSUME NEW n, at \notin Sectors
      PROVE  WithData(Put(f, at, data, n), at, n + 1, data[n + 1]) = Put(f, at, data, n + 1)
  BY <1>4 DEF WithData, Put
<1> QED
  BY <1>1, <1>2, <1>3, <1>4 DEF WithData

\* A card that takes the bytes of a sector, and one that has them.
Taking(b, at, k) == Card(Up, <<>>, <<>>, -1, b, at, k)
Taken(at, k) == Card(Up, <<>>, <<5>>, -1, -2, at, k)

\* After byte v.
TakesOn(b, at, k, v) ==
  IF b = -1 THEN Taking(IF v = Idle THEN -1 ELSE IF v = Token THEN 0 ELSE -2, at, k)
  ELSE IF b <= Len512 THEN Taking(b + 1, at, k)
  ELSE Taken(at, k)

\* The exchange that puts it.
LEMMA StoreSpix ==
  ASSUME NEW b, b \in -1..(Len512 + 1), NEW c, NEW at, NEW k, c = Taking(b, at, k),
         NEW f, NEW g, NEW v, NEW d, d = TakesOn(b, at, k, v),
         NEW p, p = IF b \in 0..(Len512 - 1) THEN WithData(f, at, b + 1, v) ELSE f
  PROVE  Spix(Line(c, f, g), v) = Line(d, p, Append(g, Idle))
<1> DEFINE z == <<>>
           a == -1
           u == <<5>>
           y == Append(g, Idle)
           then == IF b = -1 THEN Card(Up, z, z, a, IF v = Idle THEN -1 ELSE IF v = Token THEN 0 ELSE -2, at, k)
                   ELSE IF b <= Len512 THEN Card(Up, z, z, a, b + 1, at, k)
                   ELSE Card(Up, z, u, a, -2, at, k)
           w == WithByte(f, at, b + 1, v)
           put == IF at \in Sectors /\ b \in 0..(Len512 - 1) THEN w ELSE f
<1>0. Len512 \in Nat \ {0} /\ Up \in Int /\ ~ (Up < Woken) /\ a \in Int /\ a < 0 /\ z = <<>>
      /\ b \in Int
  BY BoundsAssumption, Steps4
<1>1. Spix(Line(Card(Up, z, z, a, b, at, k), f, g), v) = Line(then, put, y)
  <2> HIDE DEF z, a
  <2> QED
    BY <1>0, WriteSpix
<1>2. then = d
  BY DEF TakesOn, Taking, Taken
<1>3. put = p
  <2> HIDE DEF w
  <2>1. p = IF b \in 0..(Len512 - 1) THEN (IF at \in Sectors THEN w ELSE f) ELSE f
    BY DEF WithData, w
  <2> QED
    BY <2>1
<1>4. c = Card(Up, z, z, a, b, at, k)
  BY DEF Taking
<1> HIDE DEF then, put, z, a
<1> QED
  BY <1>1, <1>2, <1>3, <1>4

\* A card told to write takes the data into its sector, and answers so.
LEMMA SectorPut ==
  ASSUME NEW at, NEW k, NEW f \in [Sectors -> [1..Len512 -> Byte]], NEW g,
         NEW data \in [1..Len512 -> Byte]
  PROVE  waits(Sends(Line(Card(Up, <<>>, <<>>, -1, -1, at, k), f, g), Packet(data)))
           = Line(Still(Up, at, k), WithSector(f, at, data), <<5>>)
<1> DEFINE z == <<>>
           a == -1
           o == -2
           q == <<5>>
           L == Len512
           N == L + 4
           w == Packet(data)
           put(n) == Put(f, at, data, n)
           at24(b) == Taking(b, at, k)
           done == Taken(at, k)
           s == Line(at24(-1), f, g)
           e == [n \in 0..N |-> IF n <= 1 THEN Line(at24(-1), f, Silence(n))
                                ELSE IF n <= L + 2 THEN Line(at24(n - 2), put(n - 2), Silence(n))
                                ELSE IF n = L + 3 THEN Line(at24(L + 1), put(L), Silence(n))
                                ELSE Line(done, put(L), Silence(n))]
<1>0. L \in Nat \ {0} /\ N \in Nat
  BY BoundsAssumption
<1>1. Len(w) = N /\ w[1] = Idle /\ w[2] = Token /\ \A i \in 1..L : w[i + 2] = data[i]
  BY PacketIs
<1> HIDE DEF w
<1>2. PICK h : Trace(h, "send", s, w, N) /\ Sends(s, w) = h[N]
  <2> HIDE DEF s, N
  <2>1. Len(w) \in Nat
    BY <1>0, <1>1
  <2> QED
    BY <1>1, <2>1, SendsTrace
<1>3. e[0] = Begin(s)
  <2> DEFINE c == at24(-1)
  <2>1. e[0] = Line(c, f, z)
    BY <1>0, SilenceGrows
  <2> HIDE DEF c
  <2>2. Begin(Line(c, f, g)) = Line(c, f, <<>>)
    BY BeginLine
  <2> QED
    BY <2>1, <2>2 DEF c
<1>4. ASSUME NEW n \in 1..N, NEW v, NEW x, NEW y, e[n - 1] = x, e[n] = y, Spix(x, v) = y
      PROVE  e[n] = Go("send", e[n - 1], v)
  BY <1>4 DEF Go
<1>5. e[1] = Go("send", e[0], w[1])
  <2> DEFINE c == at24(-1)
             r == Silence(0)
  <2>1. e[0] = Line(c, f, r) /\ e[1] = Line(c, f, Silence(1)) /\ Append(r, Idle) = Silence(1)
    <3>1. 0 + 1 = 1 /\ 1 \in 0..N /\ 1 <= 1
      BY <1>0
    <3>2. Append(Silence(0), Idle) = Silence(0 + 1)
      BY SilenceGrows
    <3> QED
      BY <1>0, <3>1, <3>2
  <2>2. Spix(Line(c, f, r), Idle) = Line(c, f, Append(r, Idle))
    <3> DEFINE b == -1
    <3>1. b \in -1..(Len512 + 1) /\ c = Taking(b, at, k)
      BY <1>0
    <3> DEFINE d == at24(-1)
    <3>4. c = d
      OBVIOUS
    <3>2. d = TakesOn(b, at, k, Idle)
      BY <1>0 DEF TakesOn, Idle, Token
    <3>3. f = IF b \in 0..(Len512 - 1) THEN WithData(f, at, b + 1, Idle) ELSE f
      BY <1>0
    <3> HIDE DEF b, c, d, r
    <3>5. Spix(Line(c, f, r), Idle) = Line(d, f, Append(r, Idle))
      BY <3>1, <3>2, <3>3, StoreSpix
    <3> QED
      BY <3>4, <3>5
  <2> HIDE DEF e, c, r
  <2> QED
    BY <1>1, <2>1, <2>2 DEF Go
<1>6. e[2] = Go("send", e[1], w[2])
  <2> DEFINE c == at24(-1)
             d == at24(0)
             r == Silence(1)
  <2>1. e[1] = Line(c, f, r) /\ Append(r, Idle) = Silence(2)
    BY <1>0, SilenceGrows
  <2>2. e[2] = Line(d, f, Silence(2))
    <3>1. put(0) = f
      BY PutGrows
    <3>2. 2 \in 0..N /\ ~ (2 <= 1) /\ 2 <= L + 2 /\ 2 - 2 = 0
      BY <1>0
    <3>3. e[2] = Line(at24(2 - 2), put(2 - 2), Silence(2))
      BY <3>2
    <3> HIDE DEF put, at24, e
    <3> QED
      BY <3>1, <3>2, <3>3 DEF d
  <2>3. Spix(Line(c, f, r), Token) = Line(d, f, Append(r, Idle))
    <3> DEFINE b == -1
    <3>1. b \in -1..(Len512 + 1) /\ c = Taking(b, at, k)
      BY <1>0
    <3>2. d = TakesOn(b, at, k, Token)
      BY <1>0 DEF TakesOn, Idle, Token
    <3>3. f = IF b \in 0..(Len512 - 1) THEN WithData(f, at, b + 1, Token) ELSE f
      BY <1>0
    <3> HIDE DEF b, c, d, r
    <3> QED
      BY <3>1, <3>2, <3>3, StoreSpix
  <2> HIDE DEF e, c, d, r
  <2> QED
    BY <1>1, <2>1, <2>2, <2>3 DEF Go
<1>7. ASSUME NEW n \in 3..(L + 2) PROVE e[n] = Go("send", e[n - 1], w[n])
  <2> DEFINE b == n - 3
             c == at24(b)
             d == at24(b + 1)
             p == put(b)
             t == put(b + 1)
             r == Silence(n - 1)
             v == w[n]
  <2>1. /\ b \in 0..(L - 1) /\ n - 1 \in 0..N /\ n \in 0..N /\ ~ (n - 1 <= 1) /\ ~ (n <= 1)
        /\ n - 1 <= L + 2 /\ n <= L + 2 /\ n - 2 = b + 1 /\ n - 1 - 2 = b /\ n - 1 \in Nat
        /\ n - 1 + 1 = n /\ b + 1 \in 1..L /\ n = b + 1 + 2
    BY <1>0
  <2>2. e[n - 1] = Line(c, p, r)
    <3>1. e[n - 1] = Line(at24(n - 1 - 2), put(n - 1 - 2), Silence(n - 1))
      BY <2>1
    <3> HIDE DEF e, put, at24, b
    <3> QED
      BY <2>1, <3>1
  <2>3. e[n] = Line(d, t, Silence(n))
    <3>1. e[n] = Line(at24(n - 2), put(n - 2), Silence(n))
      BY <2>1
    <3> HIDE DEF e, put, at24, b
    <3> QED
      BY <2>1, <3>1
  <2>4. Append(r, Idle) = Silence(n)
    <3> DEFINE m == n - 1
    <3>1. m \in Nat /\ m + 1 = n
      BY <2>1
    <3> HIDE DEF m
    <3>2. Append(Silence(m), Idle) = Silence(m + 1)
      BY <3>1, SilenceGrows
    <3> QED
      BY <3>1, <3>2 DEF m
  <2>5. v = data[b + 1]
    <3> HIDE DEF b
    <3> QED
      BY <1>1, <2>1
  <2>6. t = WithData(p, at, b + 1, v)
    <3> HIDE DEF b, v
    <3>2. b \in 0..(Len512 - 1)
      BY <2>1
    <3> HIDE DEF L
    <3>1. WithData(Put(f, at, data, b), at, b + 1, data[b + 1]) = Put(f, at, data, b + 1)
      BY <3>2, PutGrows
    <3> QED
      BY <2>5, <3>1
  <2>7. Spix(Line(c, p, r), v) = Line(d, WithData(p, at, b + 1, v), Append(r, Idle))
    <3>1. b \in -1..(Len512 + 1) /\ c = Taking(b, at, k)
      BY <1>0
    <3> DEFINE y == WithData(p, at, b + 1, v)
    <3>2. d = TakesOn(b, at, k, v)
      <4>1. b # -1 /\ b <= Len512
        BY <1>0
      <4> HIDE DEF b
      <4> QED
        BY <4>1 DEF TakesOn
    <3>3. y = IF b \in 0..(Len512 - 1) THEN WithData(p, at, b + 1, v) ELSE p
      BY <2>1
    <3> HIDE DEF b, c, d, p, r, v, y
    <3>4. Spix(Line(c, p, r), v) = Line(d, y, Append(r, Idle))
      BY <3>1, <3>2, <3>3, StoreSpix
    <3> QED
      BY <3>4 DEF y
  <2> HIDE DEF e, c, d, r, p, t
  <2> QED
    BY <2>2, <2>3, <2>4, <2>6, <2>7 DEF Go
<1>8. e[L + 3] = Go("send", e[L + 2], w[L + 3])
  <2> DEFINE c == at24(L)
             d == at24(L + 1)
             p == put(L)
             r == Silence(L + 2)
             v == w[L + 3]
  <2>1. L + 2 \in 0..N /\ ~ (L + 2 <= 1) /\ L + 2 <= L + 2 /\ L + 2 - 2 = L
        /\ L + 3 \in 0..N /\ ~ (L + 3 <= 1) /\ ~ (L + 3 <= L + 2)
    BY <1>0
  <2>2. e[L + 2] = Line(c, p, r)
    <3> DEFINE m == L + 2
    <3>1. m \in 0..N /\ ~ (m <= 1) /\ m <= L + 2 /\ m - 2 = L /\ m = L + 2
      BY <1>0
    <3> HIDE DEF m, put, at24, N
    <3>2. e[m] = Line(at24(m - 2), put(m - 2), Silence(m))
      BY <3>1
    <3> HIDE DEF e
    <3> QED
      BY <3>1, <3>2
  <2>3. e[L + 3] = Line(d, p, Silence(L + 3))
    BY <2>1
  <2>4. Append(r, Idle) = Silence(L + 3)
    <3>1. L + 2 \in Nat /\ L + 2 + 1 = L + 3
      BY <1>0
    <3>2. Append(Silence(L + 2), Idle) = Silence(L + 2 + 1)
      BY <3>1, SilenceGrows
    <3> QED
      BY <3>1, <3>2
  <2>5. Spix(Line(c, p, r), v) = Line(d, p, Append(r, Idle))
    <3> DEFINE b == L
    <3>1. b \in -1..(Len512 + 1) /\ c = Taking(b, at, k)
      BY <1>0
    <3>2. d = TakesOn(b, at, k, v)
      BY <1>0 DEF TakesOn, Idle, Token
    <3>3. p = IF b \in 0..(Len512 - 1) THEN WithData(p, at, b + 1, v) ELSE p
      BY <1>0
    <3> HIDE DEF b, c, d, p, r, v
    <3> QED
      BY <3>1, <3>2, <3>3, StoreSpix
  <2> HIDE DEF e, c, d, r, p
  <2> QED
    BY <2>2, <2>3, <2>4, <2>5 DEF Go
<1>9. e[L + 4] = Go("send", e[L + 3], w[L + 4])
  <2> DEFINE c == at24(L + 1)
             p == put(L)
             r == Silence(L + 3)
             v == w[L + 4]
  <2>1. /\ L + 3 \in 0..N /\ ~ (L + 3 <= 1) /\ ~ (L + 3 <= L + 2)
        /\ L + 4 \in 0..N /\ ~ (L + 4 <= 1) /\ ~ (L + 4 <= L + 2) /\ L + 4 # L + 3
    BY <1>0
  <2>2. e[L + 3] = Line(c, p, r)
    BY <2>1
  <2>3. e[L + 4] = Line(done, p, Silence(L + 4))
    BY <2>1
  <2>4. Append(r, Idle) = Silence(L + 4)
    <3>1. L + 3 \in Nat /\ L + 3 + 1 = L + 4
      BY <1>0
    <3>2. Append(Silence(L + 3), Idle) = Silence(L + 3 + 1)
      BY <3>1, SilenceGrows
    <3> QED
      BY <3>1, <3>2
  <2>5. Spix(Line(c, p, r), v) = Line(done, p, Append(r, Idle))
    <3> DEFINE b == L + 1
    <3>1. b \in -1..(Len512 + 1) /\ c = Taking(b, at, k)
      BY <1>0
    <3>2. done = TakesOn(b, at, k, v)
      BY <1>0 DEF TakesOn, Idle, Token
    <3>3. p = IF b \in 0..(Len512 - 1) THEN WithData(p, at, b + 1, v) ELSE p
      BY <1>0
    <3> HIDE DEF b, c, done, p, r, v
    <3> QED
      BY <3>1, <3>2, <3>3, StoreSpix
  <2> HIDE DEF e, c, done, r, p
  <2> QED
    BY <2>2, <2>3, <2>4, <2>5 DEF Go
<1>10. ASSUME NEW n \in 1..N PROVE e[n] = Go("send", e[n - 1], w[n])
  <2>1. n = 1 \/ n = 2 \/ n \in 3..(L + 2) \/ n = L + 3 \/ n = L + 4
    BY <1>0
  <2>2. L + 3 - 1 = L + 2 /\ L + 4 - 1 = L + 3 /\ 1 - 1 = 0 /\ 2 - 1 = 1
    BY <1>0
  <2> HIDE DEF e, N, L
  <2>3. CASE n = 1
    BY <1>5, <2>2, <2>3
  <2>4. CASE n = 2
    BY <1>6, <2>2, <2>4
  <2>5. CASE n \in 3..(L + 2)
    BY <1>7, <2>5
  <2>6. CASE n = L + 3
    BY <1>0, <1>8, <2>2, <2>6
  <2>7. CASE n = L + 4
    BY <1>0, <1>9, <2>2, <2>7
  <2> QED
    BY <2>1, <2>3, <2>4, <2>5, <2>6, <2>7
<1>11. e[N] = Line(done, put(L), Silence(N))
  BY <1>0
<1> HIDE DEF e
<1>12. h[N] = e[N]
  <2> HIDE DEF N
  <2>1. Trace(e, "send", s, w, N)
    BY <1>3, <1>10 DEF Trace
  <2> QED
    BY <1>0, <1>2, <2>1, OneTrace
<1> DEFINE p == put(L)
           y == Silence(N)
<1>13. waits(Line(done, p, y)) = Line(Still(Up, at, k), p, q)
  <2>1. q # <<>> /\ Head(q) = 5 /\ Tail(q) = z /\ 5 # Idle
    BY DEF Idle
  <2>2. Up \in Int /\ ~ (Up < Woken) /\ a \in Int /\ o \in Int
    BY Steps4
  <2> HIDE DEF q, z, a, o, p, y
  <2>3. waits(Line(Card(Up, z, q, a, o, at, k), p, y)) = Line(Card(Up, z, Tail(q), a, o, at, k), p, <<Head(q)>>)
    BY <2>1, <2>2, WaitAnswer
  <2> QED
    BY <2>1, <2>3 DEF Still, Taken, a, o, z, q
<1>14. p = WithSector(f, at, data)
  BY PutGrows
<1> HIDE DEF p, done
<1> QED
  BY <1>2, <1>11, <1>12, <1>13, <1>14 DEF s, w, p, Taking

-----------------------------------------------------------------------------
(* The invariant of a sound line.                                          *)

Resting(i) == card = Still(i, card.at, card.crc)
Starts == {"cmd0", "cmd8", "cmd55", "cmd41", "cmd58"}
Reads == {"read", "token", "data"}
Writes == {"write", "wdata", "busy"}

\* Each word has its commands.
Places ==
  /\ \/ op = "none" /\ pc = "none"
     \/ op = "SDC$" /\ pc \in Starts
     \/ op = "SDC@" /\ pc \in Reads
     \/ op = "SDC!" /\ pc \in Writes
  /\ half \in {1, 2} /\ blkno \in Nat /\ blkno < 65536
  /\ op \in {"SDC@", "SDC!"} => started /\ blkno \in Blocks

\* Driver and card are at the same place.
Stage ==
  /\ pc \in {"none", "cmd0"} => Resting(0) \/ Resting(Up)
  /\ pc = "cmd8"  => Resting(Woken + 1)
  /\ pc = "cmd55" => Resting(Woken + 2)
  /\ pc = "cmd41" => Resting(Woken + 3)
  /\ pc \in {"cmd58", "read", "write", "busy"} => Resting(Up)
  /\ pc = "token" => card = Card(Up, <<>>, <<Token>>, 0, -2, Sector(blkno, half), 0)
  /\ pc = "data"  => card = Card(Up, <<>>, <<>>, 0, -2, Sector(blkno, half), 0)
  /\ pc = "wdata" => card = Card(Up, <<>>, <<>>, -1, -1, Sector(blkno, half), 0)

Begun == started => card.initstat = Up /\ SDC_SDHC = TRUE

\* Buffer and card hold the same half of the block.
SameHalf(h) == Sector(blkno, h) \in Sectors => buf[h] = file[Sector(blkno, h)]

Contents ==
  /\ file \in [Sectors -> Patterns]
  /\ buf \in [1..2 -> Patterns \cup {Blank}]
  /\ op = "SDC!" => buf \in [1..2 -> Patterns]
  /\ half = 2 => SameHalf(1)
  /\ half = 2 /\ op \in {"none", "SDC$"} => SameHalf(2)
  /\ pc = "busy" => SameHalf(half)

Sound == Places /\ Stage /\ Begun /\ Contents
SoundInv == glitches \in Nat /\ (glitches = 0 => Sound)

-----------------------------------------------------------------------------
(* What each step does on a sound line.                                    *)

\* Where nothing is counted as damaged, the run is that of a sound line.
LEMMA SoundRun ==
  ASSUME NEW s, NEW t, glitches \in Nat, glitches' = 0, Counts(s, t)
  PROVE  s = t
<1> DEFINE d == IF s = t THEN 0 ELSE 1
<1>1. glitches' = glitches + d
  BY DEF Counts
<1>2. d \in Nat
  OBVIOUS
<1> HIDE DEF d
<1>3. d = 0
  BY <1>1, <1>2
<1> QED
  BY <1>3 DEF d

\* The last of one byte.
LEMMA LastOne == ASSUME NEW x PROVE Last(<<x>>) = x
  BY DEF Last

\* A byte put before others.
LEMMA Put1 ==
  ASSUME NEW S, NEW r \in S, NEW z, z = <<r>>, NEW y \in Seq(S), NEW w, w = z \o y
  PROVE  /\ w \in Seq(S) /\ Len(w) = Len(y) + 1 /\ w[1] = r
         /\ \A i \in 1..Len(y) : w[i + 1] = y[i]
<1> DEFINE v == z \o y
           n == Len(y)
<1>1. z \in Seq(S) /\ Len(z) = 1 /\ z[1] = r /\ n \in Nat
  OBVIOUS
<1> HIDE DEF n
<1>2. /\ v \in Seq(S) /\ Len(v) = Len(z) + Len(y)
      /\ \A i \in 1..(Len(z) + Len(y)) : v[i] = IF i <= Len(z) THEN z[i] ELSE y[i - Len(z)]
  BY <1>1, ConcatProperties, Zenon
<1> HIDE DEF v
<1>3. Len(v) = n + 1 /\ \A i \in 1..(1 + n) : v[i] = IF i <= 1 THEN z[i] ELSE y[i - 1]
  BY <1>1, <1>2 DEF n
<1>4. v[1] = r
  <2>1. 1 \in 1..(1 + n) /\ 1 <= 1
    BY <1>1
  <2>2. v[1] = IF 1 <= 1 THEN z[1] ELSE y[1 - 1]
    BY <1>3, <2>1
  <2> QED
    BY <1>1, <2>2
<1>5. ASSUME NEW i \in 1..n PROVE v[i + 1] = y[i]
  <2>1. i + 1 \in 1..(1 + n) /\ ~ (i + 1 <= 1) /\ i + 1 - 1 = i
    BY <1>1
  <2> QED
    BY <1>3, <2>1
<1> QED
  BY <1>2, <1>3, <1>4, <1>5 DEF v, n

\* What is read behind an answer,
LEMMA BehindSound == ASSUME NEW s, NEW n PROVE Behind(s, n, None) = Idles(s, n)
  BY DEF Behind, None

\* put behind it.
LEMMA FourBehind ==
  ASSUME NEW c, NEW a1, NEW a2, NEW e, NEW f, NEW r, NEW g, g = <<r>>,
         asks(c, a1, a2) = Line(e, f, g),
         NEW d, NEW h, NEW y, Four(Line(e, f, g)) = Line(d, h, y)
  PROVE  R7(c, a1, a2, None) = Line(d, h, <<r>> \o y)
<1> DEFINE s == asks(c, a1, a2)
           t == Line(d, h, y)
           x == <<Last(s.got)>>
           z == x \o y
<1>1. Last(g) = r
  BY DEF Last
<1>2. s.got = g /\ t.got = y
  BY LineFields
<1>3. Behind(s, 4, None) = t
  BY BehindSound DEF Four
<1> HIDE DEF s
<1>4. R7(c, a1, a2, None) = [t EXCEPT !.got = z]
  BY <1>2, <1>3 DEF R7, asks, s
<1> HIDE DEF z
<1>5. [t EXCEPT !.got = z] = Line(d, h, z)
  BY DEF Line
<1>6. z = <<r>> \o y
  BY <1>1, <1>2 DEF z
<1> QED
  BY <1>4, <1>5, <1>6

\* What a step takes over from the line.
LEMMA TakesLine ==
  ASSUME NEW s, NEW c, NEW f, NEW g, s = Line(c, f, g)
  PROVE  Takes(s) => s.got = g /\ card' = c /\ file' = f
  BY LineFields DEF Takes

\* Where a word may be found.
LEMMA Where ==
  ASSUME Places
  PROVE  /\ pc \in Starts => op = "SDC$"
         /\ pc \in Reads => op = "SDC@"
         /\ pc \in Writes => op = "SDC!"
         /\ op = "none" => pc = "none"
  BY DEF Places, Starts, Reads, Writes

Stays == UNCHANGED <<blkno, half, buf, SDC_SDHC, started>>

\* CMD0 finds a card asleep or up; only one that was asleep answers 1.
LEMMA ResetDoes ==
  ASSUME Sound, glitches \in Nat, glitches' = 0, Reset
  PROVE  /\ op = "SDC$" /\ pc = "cmd0" /\ file' = file /\ Stays
         /\ \/ /\ card' = Still(Woken + 1, card.at, card.crc) /\ Resting(0)
               /\ op' = op /\ pc' = "cmd8" /\ err' = err
            \/ /\ card' = card /\ Resting(Up)
               /\ \/ op' = op /\ pc' = pc /\ err' = err
                  \/ op' = "none" /\ pc' = "none" /\ err' = TRUE
<1> DEFINE s == asks(64, 0, 0)
           at == card.at
           k == card.crc
<1>1. pc = "cmd0" /\ Stays
  BY DEF Reset, Stays
<1>2. op = "SDC$"
  BY <1>1, Where DEF Sound, Starts
<1> DEFINE r == Last(s.got)
<1>3. /\ Takes(s)
      /\ \/ r = 1 /\ Goes("cmd8")
         \/ r # 1 /\ UNCHANGED <<op, pc, err>>
         \/ r # 1 /\ Fail
  <2>1. PICK hit \in Hits :
          /\ Takes(cmd(64, 0, 0, hit)) /\ Counts(cmd(64, 0, 0, hit), s)
          /\ \/ Last(cmd(64, 0, 0, hit).got) = 1 /\ Goes("cmd8")
             \/ Last(cmd(64, 0, 0, hit).got) # 1 /\ UNCHANGED <<op, pc, err>>
             \/ Last(cmd(64, 0, 0, hit).got) # 1 /\ Fail
    BY DEF Reset, Runs, asks
  <2> HIDE DEF s
  <2>2. cmd(64, 0, 0, hit) = s
    BY <2>1, SoundRun
  <2> QED
    BY <2>1, <2>2
<1>5. card = Still(0, at, k) \/ card = Still(Up, at, k)
  BY <1>1 DEF Sound, Stage, Resting
<1>6. CASE card = Still(0, at, k)
  <2> DEFINE i == Woken + 1
             g == <<1>>
             c == Still(i, at, k)
  <2> HIDE DEF at, k, s
  <2>1. s = Line(c, file, g)
    BY <1>6, ResetAsleep DEF s
  <2> HIDE DEF i, c, g
  <2>2. s.got = g /\ card' = c /\ file' = file
    BY <1>3, <2>1, TakesLine
  <2>3. Last(g) = 1
    BY LastOne DEF g
  <2>4. Goes("cmd8")
    BY <1>3, <2>2, <2>3
  <2> QED
    BY <1>1, <1>2, <1>6, <2>2, <2>4 DEF Goes, Resting, at, k, c, i
<1>7. CASE card = Still(Up, at, k)
  <2> DEFINE g == <<0>>
             c == Still(Up, at, k)
  <2> HIDE DEF at, k, s
  <2>1. s = Line(c, file, g)
    BY <1>7, ResetUp DEF s
  <2>5. c = card
    BY <1>7
  <2> HIDE DEF c, g
  <2>2. s.got = g /\ card' = c /\ file' = file
    BY <1>3, <2>1, TakesLine
  <2>3. Last(g) = 0
    BY LastOne DEF g
  <2>4. UNCHANGED <<op, pc, err>> \/ Fail
    BY <1>3, <2>2, <2>3
  <2> QED
    BY <1>1, <1>2, <1>7, <2>2, <2>4, <2>5 DEF Fail, Ends, Resting, at, k
<1> QED
  BY <1>5, <1>6, <1>7

\* CMD8 is answered as it should be.
LEMMA VoltageDoes ==
  ASSUME Sound, glitches \in Nat, glitches' = 0, CheckVoltage
  PROVE  /\ op = "SDC$" /\ pc = "cmd8" /\ file' = file /\ Stays
         /\ Resting(Woken + 1) /\ card' = Still(Woken + 2, card.at, card.crc)
         /\ op' = op /\ pc' = "cmd55" /\ err' = err
<1> DEFINE t == R7(72, 0, 426, None)
           at == card.at
           k == card.crc
           i == Woken + 2
           g == <<1>>
           y == <<0, 0, 1, 170>>
           u == <<1, 0, 0, 1, 170>>
           c == Card(i, <<>>, y, -1, -2, at, k)
           d == Still(i, at, k)
<1>1. pc = "cmd8" /\ Stays
  BY DEF CheckVoltage, Stays
<1>2. op = "SDC$"
  BY <1>1, Where DEF Sound, Starts
<1>3. Takes(t) /\ IF t.got = u THEN Goes("cmd55") ELSE Fail
  <2>1. PICK hit \in Hits : /\ Takes(R7(72, 0, 426, hit)) /\ Counts(R7(72, 0, 426, hit), t)
                           /\ IF R7(72, 0, 426, hit).got = u THEN Goes("cmd55") ELSE Fail
    BY DEF CheckVoltage, Runs
  <2> HIDE DEF t
  <2>2. R7(72, 0, 426, hit) = t
    BY <2>1, SoundRun
  <2> QED
    BY <2>1, <2>2
<1>5. card = Still(Woken + 1, at, k) /\ Resting(Woken + 1)
  BY <1>1 DEF Sound, Stage, Resting
<1>6. asks(72, 0, 426) = Line(c, file, g)
  <2> HIDE DEF at, k
  <2> QED
    BY <1>5, VoltageAsked
<1>7. Four(Line(c, file, g)) = Line(d, file, y)
  <2>1. i \in Int /\ ~ (i < Woken)
    BY Steps4
  <2> HIDE DEF i, at, k, g
  <2> QED
    BY <2>1, FourTaken
<1>8. <<1>> \o y = u /\ g = <<1>>
  <2> DEFINE r == 1
             z == <<r>>
             v == z \o y
  <2>1. z = <<r>> /\ v = z \o y
    OBVIOUS
  <2> DEFINE m == 4
  <2>4. r \in Nat /\ m \in Nat /\ y \in Seq(Nat) /\ m = Len(y)
    OBVIOUS
  <2>6. u \in Seq(Nat) /\ Len(u) = m + 1 /\ u[1] = r
    OBVIOUS
  <2>7. ASSUME NEW j \in 1..m PROVE u[j + 1] = y[j]
    <3>1. j = 1 \/ j = 2 \/ j = 3 \/ j = 4
      OBVIOUS
    <3>2. u[2] = y[1] /\ u[3] = y[2] /\ u[4] = y[3] /\ u[5] = y[4]
      OBVIOUS
    <3> HIDE DEF u, y
    <3> QED
      BY <3>1, <3>2
  <2> HIDE DEF y, r, z, u, v, m
  <2>5. v = u
    <3>1. v \in Seq(Nat)
      BY <2>1, <2>4, Put1
    <3>2. Len(v) = Len(y) + 1
      BY <2>1, <2>4, Put1
    <3>3. v[1] = r
      BY <2>1, <2>4, Put1
    <3>4. \A n \in 1..Len(y) : v[n + 1] = y[n]
      BY <2>1, <2>4, Put1
    <3>5. Len(v) = m + 1
      BY <2>4, <3>2
    <3>6. ASSUME NEW n \in 1..(m + 1) PROVE v[n] = u[n]
      <4>1. CASE n = 1
        BY <2>6, <3>3, <4>1
      <4>2. CASE n # 1
        <5> DEFINE j == n - 1
        <5>1. j \in 1..m /\ n = j + 1
          BY <2>4, <4>2
        <5> HIDE DEF j
        <5> QED
          BY <2>4, <2>7, <3>4, <5>1
      <4> QED
        BY <4>1, <4>2
    <3> QED
      BY <2>4, <2>6, <3>1, <3>5, <3>6, SeqEqual
  <2> QED
    BY <2>5 DEF v, z, r
<1> HIDE DEF c, g, y, d, t, u
<1>9. t = Line(d, file, u)
  <2>1. R7(72, 0, 426, None) = Line(d, file, <<1>> \o y)
    BY <1>6, <1>7, <1>8, FourBehind
  <2> QED
    BY <1>8, <2>1 DEF t
<1>10. t.got = u /\ card' = d /\ file' = file
  BY <1>3, <1>9, TakesLine
<1>11. Goes("cmd55")
  BY <1>3, <1>10
<1> QED
  BY <1>1, <1>2, <1>5, <1>10, <1>11 DEF Goes, d

\* CMD55 is answered 1.
LEMMA AppDoes ==
  ASSUME Sound, glitches \in Nat, glitches' = 0, AppCommand
  PROVE  /\ op = "SDC$" /\ pc = "cmd55" /\ file' = file /\ Stays
         /\ Resting(Woken + 2) /\ card' = Still(Woken + 3, card.at, card.crc)
         /\ op' = op /\ pc' = "cmd41" /\ err' = err
<1> DEFINE s == asks(119, 0, 0)
           at == card.at
           k == card.crc
           g == <<1>>
           d == Still(Woken + 3, at, k)
<1>1. pc = "cmd55" /\ Stays
  BY DEF AppCommand, Stays
<1>2. op = "SDC$"
  BY <1>1, Where DEF Sound, Starts
<1> DEFINE r == Last(s.got)
<1>3. Takes(s) /\ (IF r = 1 THEN Goes("cmd41") ELSE Fail)
  <2>1. PICK hit \in Hits : /\ Takes(cmd(119, 0, 0, hit)) /\ Counts(cmd(119, 0, 0, hit), s)
                           /\ (IF Last(cmd(119, 0, 0, hit).got) = 1 THEN Goes("cmd41") ELSE Fail)
    BY DEF AppCommand, Runs, asks
  <2> HIDE DEF s
  <2>2. cmd(119, 0, 0, hit) = s
    BY <2>1, SoundRun
  <2> QED
    BY <2>1, <2>2
<1>5. card = Still(Woken + 2, at, k) /\ Resting(Woken + 2)
  BY <1>1 DEF Sound, Stage, Resting
<1>6. s = Line(d, file, g)
  <2> HIDE DEF at, k, s
  <2> QED
    BY <1>5, AppAsked DEF s
<1>8. Last(g) = 1
  BY LastOne
<1> HIDE DEF s, g, d
<1>10. s.got = g /\ card' = d /\ file' = file
  BY <1>3, <1>6, TakesLine
<1>11. Goes("cmd41")
  BY <1>3, <1>8, <1>10
<1> QED
  BY <1>1, <1>2, <1>5, <1>10, <1>11 DEF Goes, d

\* CMD41 is answered 0.
LEMMA IdleDoes ==
  ASSUME Sound, glitches \in Nat, glitches' = 0, LeaveIdle
  PROVE  /\ op = "SDC$" /\ pc = "cmd41" /\ file' = file /\ Stays
         /\ Resting(Woken + 3) /\ card' = Still(Up, card.at, card.crc)
         /\ op' = op /\ pc' = "cmd58" /\ err' = err
<1> DEFINE s == asks(105, 16384, 0)
           at == card.at
           k == card.crc
           g == <<0>>
           d == Still(Up, at, k)
<1>1. pc = "cmd41" /\ Stays
  BY DEF LeaveIdle, Stays
<1>2. op = "SDC$"
  BY <1>1, Where DEF Sound, Starts
<1> DEFINE r == Last(s.got)
<1>3. Takes(s) /\ (r = 0 => Goes("cmd58"))
  <2>1. PICK hit \in Hits : /\ Takes(cmd(105, 16384, 0, hit)) /\ Counts(cmd(105, 16384, 0, hit), s)
                           /\ (Last(cmd(105, 16384, 0, hit).got) = 0 => Goes("cmd58"))
    BY DEF LeaveIdle, Runs, asks
  <2> HIDE DEF s
  <2>2. cmd(105, 16384, 0, hit) = s
    BY <2>1, SoundRun
  <2> QED
    BY <2>1, <2>2
<1>5. card = Still(Woken + 3, at, k) /\ Resting(Woken + 3)
  BY <1>1 DEF Sound, Stage, Resting
<1>6. s = Line(d, file, g)
  <2> HIDE DEF at, k, s
  <2> QED
    BY <1>5, IdleLeft DEF s
<1>8. Last(g) = 0
  BY LastOne
<1> HIDE DEF s, g, d
<1>10. s.got = g /\ card' = d /\ file' = file
  BY <1>3, <1>6, TakesLine
<1>11. Goes("cmd58")
  BY <1>3, <1>8, <1>10
<1> QED
  BY <1>1, <1>2, <1>5, <1>10, <1>11 DEF Goes, d

\* CMD58 tells of an SDHC card, and SDC$ is over.
LEMMA SdhcDoes ==
  ASSUME Sound, glitches \in Nat, glitches' = 0, rdsdhc
  PROVE  /\ op = "SDC$" /\ pc = "cmd58" /\ file' = file
         /\ UNCHANGED <<blkno, half, buf>> /\ started' = TRUE /\ SDC_SDHC' = TRUE
         /\ Resting(Up) /\ card' = Still(Up, card.at, card.crc)
         /\ op' = "none" /\ pc' = "none" /\ err' = FALSE
<1> DEFINE t == R7(122, 0, 0, None)
           at == card.at
           k == card.crc
           g == <<0>>
           y == Silence(4)
           d == Still(Up, at, k)
           m == 4
           u == <<0>> \o y
<1>1. pc = "cmd58" /\ UNCHANGED <<blkno, half, buf>> /\ started' = TRUE
  BY DEF rdsdhc
<1>2. op = "SDC$"
  BY <1>1, Where DEF Sound, Starts
<1>3. Takes(t) /\ Ends(FALSE) /\ SDC_SDHC' = ((t.got[2] \div 64) % 2 = 1)
  <2>1. PICK hit \in Hits :
          /\ Takes(R7(122, 0, 0, hit)) /\ Counts(R7(122, 0, 0, hit), t)
          /\ Ends(FALSE) /\ SDC_SDHC' = ((R7(122, 0, 0, hit).got[2] \div 64) % 2 = 1)
    BY DEF rdsdhc, Runs
  <2> HIDE DEF t
  <2>2. R7(122, 0, 0, hit) = t
    BY <2>1, SoundRun
  <2> QED
    BY <2>1, <2>2
<1>5. card = Still(Up, at, k) /\ Resting(Up)
  BY <1>1 DEF Sound, Stage, Resting
<1>6. asks(122, 0, 0) = Line(d, file, g)
  <2> HIDE DEF at, k
  <2> QED
    BY <1>5, SdhcAsked
<1>7. Idles(Line(d, file, g), m) = Line(d, file, Silence(m))
  <2>1. Up \in Int /\ ~ (Up < Woken) /\ m \in Nat
    BY Steps4
  <2> HIDE DEF at, k, g, m
  <2> QED
    BY <2>1, IdlesStill
<1>8. u[2] = 255
  <2>1. y \in Seq(Nat) /\ Len(y) = 4 /\ y[1] = 255
    BY DEF Silence, Idle
  <2> DEFINE r == 0
  <2>2. r \in Nat
    OBVIOUS
  <2> DEFINE z == <<r>>
  <2>5. z = <<r>> /\ u = z \o y
    OBVIOUS
  <2> HIDE DEF y, r, z, u
  <2>3. \A i \in 1..Len(y) : u[i + 1] = y[i]
    BY <2>1, <2>2, <2>5, Put1
  <2>4. u[1 + 1] = y[1]
    BY <2>1, <2>3
  <2> QED
    BY <2>1, <2>4
<1>4. g = <<0>>
  OBVIOUS
<1> HIDE DEF g, y, d, t
<1>9. t = Line(d, file, u)
  <2>1. Four(Line(d, file, g)) = Line(d, file, y)
    BY <1>7 DEF Four, y
  <2>2. R7(122, 0, 0, None) = Line(d, file, <<0>> \o y)
    BY <1>4, <1>6, <2>1, FourBehind
  <2> QED
    BY <2>2 DEF t
<1> HIDE DEF u
<1>10. t.got = u /\ card' = d /\ file' = file
  BY <1>3, <1>9, TakesLine
<1>11. SDC_SDHC' = TRUE
  <2>1. (t.got[2] \div 64) % 2 = 1
    BY <1>8, <1>10
  <2> QED
    BY <1>3, <2>1, Zenon
<1> QED
  BY <1>1, <1>2, <1>3, <1>5, <1>10, <1>11 DEF Ends, d

\* A word doubled in sixteen bits.
LEMMA Doubled ==
  ASSUME NEW b \in Nat, b < 65536
  PROVE  /\ (2 * b) % 65536 \in Nat /\ (2 * b) % 65536 < 65535
         /\ b < 32768 => (2 * b) % 65536 = 2 * b
<1>1. CASE b < 32768
  <2> DEFINE n == 2 * b
  <2>1. n \in Nat /\ n < 65535
    BY <1>1
  <2> HIDE DEF n
  <2>2. n % 65536 = n
    BY <2>1
  <2> QED
    BY <2>1, <2>2 DEF n
<1>2. CASE ~ (b < 32768)
  <2> DEFINE n == 2 * b - 65536
             m == 2 * b
  <2>1. n \in Nat /\ n < 65535 /\ m = n + 65536 /\ m \in Nat
    BY <1>2
  <2> HIDE DEF n, m
  <2>2. m % 65536 = n
    BY <2>1
  <2>3. m % 65536 \in Nat /\ m % 65536 < 65535
    BY <2>1, <2>2
  <2> QED
    BY <1>2, <2>3 DEF m
<1> QED
  BY <1>1, <1>2

\* The sectors of a block.
LEMMA SectorIs ==
  ASSUME Places
  PROVE  /\ Sector(blkno, half) \in Nat
         /\ Sector(blkno, 1) \in Nat /\ Sector(blkno, 2) = Sector(blkno, 1) + 1
         /\ blkno < 32768 => Sector(blkno, 1) = 2 * blkno
<1> DEFINE k == (2 * blkno) % 65536
<1>1. blkno \in Nat /\ blkno < 65536 /\ half \in {1, 2}
  BY DEF Places
<1>2. k \in Nat /\ k < 65535 /\ (blkno < 32768 => k = 2 * blkno)
  BY <1>1, Doubled
<1>3. \A h : Sector(blkno, h) = (k + h - 1) % 65536
  BY DEF Sector
<1> HIDE DEF k
<1>4. (k + 1 - 1) % 65536 = k
  BY <1>2
<1>5. (k + 2 - 1) % 65536 = k + 1
  BY <1>2
<1>6. Sector(blkno, 1) = k /\ Sector(blkno, 2) = k + 1
  BY <1>3, <1>4, <1>5
<1>7. Sector(blkno, half) \in Nat
  BY <1>1, <1>2, <1>6
<1> QED
  BY <1>2, <1>6, <1>7

\* Such a card is given the number of the sector.
LEMMA AddressIs ==
  ASSUME Places, SDC_SDHC = TRUE
  PROVE  Address[1] = 0 /\ Address[2] = Sector(blkno, half)
  BY DEF Address, badj

Moving == UNCHANGED <<op, err, blkno, half, buf, SDC_SDHC, started>>

\* CMD17 makes the card ready to send its token.
LEMMA ReadDoes ==
  ASSUME Sound, glitches \in Nat, glitches' = 0, ReadCommand
  PROVE  /\ op = "SDC@" /\ pc = "read" /\ file' = file /\ Moving /\ pc' = "token"
         /\ card' = Card(Up, <<>>, <<Token>>, 0, -2, Sector(blkno, half), 0)
<1> DEFINE s == asks(81, 0, Sector(blkno, half))
           at == card.at
           k == card.crc
           g == <<0>>
           to == Sector(blkno, half)
           d == Card(Up, <<>>, <<Token>>, 0, -2, to, 0)
<1>1. pc = "read" /\ Stays
  BY DEF ReadCommand, Stays
<1>2. op = "SDC@" /\ started /\ SDC_SDHC = TRUE
  <2>1. op = "SDC@"
    BY <1>1, Where DEF Sound, Reads
  <2>2. started
    BY <2>1 DEF Sound, Places
  <2> QED
    BY <2>1, <2>2 DEF Sound, Begun
<1> DEFINE r == Last(s.got)
<1>3. Takes(s) /\ (IF r = 0 THEN Goes("token") ELSE Fail)
  <2>0. Address[1] = 0 /\ Address[2] = to
    BY <1>2, AddressIs DEF Sound
  <2>1. PICK hit \in Hits : /\ Takes(cmd(81, 0, to, hit)) /\ Counts(cmd(81, 0, to, hit), s)
                           /\ (IF Last(cmd(81, 0, to, hit).got) = 0 THEN Goes("token") ELSE Fail)
    BY <2>0 DEF ReadCommand, Runs, asks
  <2> HIDE DEF s
  <2>2. cmd(81, 0, to, hit) = s
    BY <2>1, SoundRun
  <2> QED
    BY <2>1, <2>2
<1>5. card = Still(Up, at, k)
  BY <1>1 DEF Sound, Stage, Resting
<1>6. s = Line(d, file, g)
  <2>1. to \in Nat
    BY SectorIs DEF Sound
  <2> HIDE DEF at, k, s, to
  <2> QED
    BY <1>5, <2>1, ReadAsked DEF s, to
<1>8. Last(g) = 0
  BY LastOne
<1> HIDE DEF s, g, d
<1>10. s.got = g /\ card' = d /\ file' = file
  BY <1>3, <1>6, TakesLine
<1>11. Goes("token")
  BY <1>3, <1>8, <1>10
<1> QED
  BY <1>1, <1>2, <1>10, <1>11 DEF Goes, d, Moving, Stays

\* CMD24 makes it wait for one.
LEMMA WriteDoes ==
  ASSUME Sound, glitches \in Nat, glitches' = 0, WriteCommand
  PROVE  /\ op = "SDC!" /\ pc = "write" /\ file' = file /\ Moving /\ pc' = "wdata"
         /\ card' = Card(Up, <<>>, <<>>, -1, -1, Sector(blkno, half), 0)
<1> DEFINE s == asks(88, 0, Sector(blkno, half))
           at == card.at
           k == card.crc
           g == <<0>>
           to == Sector(blkno, half)
           d == Card(Up, <<>>, <<>>, -1, -1, to, 0)
<1>1. pc = "write" /\ Stays
  BY DEF WriteCommand, Stays
<1>2. op = "SDC!" /\ started /\ SDC_SDHC = TRUE
  <2>1. op = "SDC!"
    BY <1>1, Where DEF Sound, Writes
  <2>2. started
    BY <2>1 DEF Sound, Places
  <2> QED
    BY <2>1, <2>2 DEF Sound, Begun
<1> DEFINE r == Last(s.got)
<1>3. Takes(s) /\ (IF r = 0 THEN Goes("wdata") ELSE Fail)
  <2>0. Address[1] = 0 /\ Address[2] = to
    BY <1>2, AddressIs DEF Sound
  <2>1. PICK hit \in Hits : /\ Takes(cmd(88, 0, to, hit)) /\ Counts(cmd(88, 0, to, hit), s)
                           /\ (IF Last(cmd(88, 0, to, hit).got) = 0 THEN Goes("wdata") ELSE Fail)
    BY <2>0 DEF WriteCommand, Runs, asks
  <2> HIDE DEF s
  <2>2. cmd(88, 0, to, hit) = s
    BY <2>1, SoundRun
  <2> QED
    BY <2>1, <2>2
<1>5. card = Still(Up, at, k)
  BY <1>1 DEF Sound, Stage, Resting
<1>6. s = Line(d, file, g)
  <2>1. to \in Nat
    BY SectorIs DEF Sound
  <2> HIDE DEF at, k, s, to
  <2> QED
    BY <1>5, <2>1, WriteAsked DEF s, to
<1>8. Last(g) = 0
  BY LastOne
<1> HIDE DEF s, g, d
<1>10. s.got = g /\ card' = d /\ file' = file
  BY <1>3, <1>6, TakesLine
<1>11. Goes("wdata")
  BY <1>3, <1>8, <1>10
<1> QED
  BY <1>1, <1>2, <1>10, <1>11 DEF Goes, d, Moving, Stays

\* The token comes, and the data is next.
LEMMA TokenDoes ==
  ASSUME Sound, glitches \in Nat, glitches' = 0, WaitToken
  PROVE  /\ op = "SDC@" /\ pc = "token" /\ file' = file /\ Moving /\ pc' = "data"
         /\ card' = Card(Up, <<>>, <<>>, 0, -2, Sector(blkno, half), 0)
<1> DEFINE s == waits(Now)
           g == <<Token>>
           z == <<>>
           n == -2
           o == 0
           to == Sector(blkno, half)
           c == Card(Up, z, g, 0, n, to, 0)
           d == Card(Up, z, z, 0, n, to, 0)
<1>1. pc = "token" /\ Stays
  BY DEF WaitToken, Stays
<1>2. op = "SDC@"
  BY <1>1, Where DEF Sound, Reads
<1> DEFINE r == Last(s.got)
<1>3. Takes(s) /\ (IF r = Token THEN Goes("data") ELSE Fail)
  <2>1. PICK hit \in Hits : /\ Takes(wait(Now, "wait", hit)) /\ Counts(wait(Now, "wait", hit), s)
                           /\ (IF Last(wait(Now, "wait", hit).got) = Token THEN Goes("data") ELSE Fail)
    BY DEF WaitToken, Runs, waits
  <2> HIDE DEF s
  <2>2. wait(Now, "wait", hit) = s
    BY <2>1, SoundRun
  <2> QED
    BY <2>1, <2>2
<1>5. card = c
  BY <1>1 DEF Sound, Stage
<1>6. s = Line(d, file, g)
  <2>1. g # <<>> /\ Head(g) = Token /\ Tail(g) = z /\ Head(g) # Idle
    BY DEF Token, Idle
  <2>2. Up \in Int /\ ~ (Up < Woken) /\ o \in Int /\ n \in Int
    BY Steps4
  <2> HIDE DEF to, g, z, o, n
  <2>3. waits(Line(Card(Up, z, g, o, n, to, 0), file, z)) = Line(Card(Up, z, Tail(g), o, n, to, 0), file, <<Head(g)>>)
    BY <2>1, <2>2, WaitAnswer
  <2>4. Now = Line(c, file, z)
    <3> HIDE DEF c
    <3> QED
      BY <1>5, NowIs DEF z
  <2> QED
    BY <2>1, <2>3, <2>4 DEF o, g
<1>8. Last(g) = Token
  BY LastOne
<1> HIDE DEF s, g, d
<1>10. s.got = g /\ card' = d /\ file' = file
  BY <1>3, <1>6, TakesLine
<1>11. Goes("data")
  BY <1>3, <1>8, <1>10
<1> QED
  BY <1>1, <1>2, <1>10, <1>11 DEF Goes, d, Moving, Stays

\* What is read of a sector is what it holds, or silence past the file.
LEMMA HeldIs ==
  ASSUME file \in [Sectors -> Patterns], NEW at
  PROVE  Held(file, at) \in Patterns \cup {Blank}
  BY DEF Held

\* The data comes whole and the card is still.
LEMMA DataDoes ==
  ASSUME Sound, glitches \in Nat, glitches' = 0, ReadData
  PROVE  /\ op = "SDC@" /\ pc = "data" /\ file' = file /\ UNCHANGED <<blkno, SDC_SDHC, started>>
         /\ \E k : card' = Still(Up, Sector(blkno, half), k)
         /\ buf' = [buf EXCEPT ![half] = Held(file, Sector(blkno, half))]
         /\ NextHalf("read")
<1> DEFINE N == Len512 + 2
           s == Idles(Now, N)
           z == <<>>
           n == -2
           to == Sector(blkno, half)
           p == Held(file, to)
           c == Card(Up, z, z, 0, n, to, 0)
           x == Sent(p)
<1>1. pc = "data" /\ UNCHANGED <<blkno, SDC_SDHC, started>>
  BY DEF ReadData
<1>2. op = "SDC@"
  BY <1>1, Where DEF Sound, Reads
<1> DEFINE t == SectorData(None)
           got == t.got
<1>4. /\ Takes(t)
      /\ buf' = [buf EXCEPT ![half] = SubSeq(got, 1, Len512)]
      /\ IF Good(got) THEN NextHalf("read") ELSE Fail /\ UNCHANGED half
  <2>1. PICK hit \in Hits :
          /\ Takes(SectorData(hit)) /\ Counts(SectorData(hit), t)
          /\ buf' = [buf EXCEPT ![half] = SubSeq(SectorData(hit).got, 1, Len512)]
          /\ IF Good(SectorData(hit).got) THEN NextHalf("read") ELSE Fail /\ UNCHANGED half
    BY DEF ReadData, Runs
  <2> HIDE DEF t
  <2>2. SectorData(hit) = t
    BY <2>1, SoundRun
  <2> QED
    BY <2>1, <2>2
<1>5. card = c
  BY <1>1 DEF Sound, Stage
<1>6. p \in Patterns \cup {Blank}
  BY HeldIs DEF Sound, Contents
<1>7. Len(p) = Len512 /\ SubSeq(x, 1, Len512) = p /\ Good(x)
  <2> HIDE DEF p
  <2> QED
    BY <1>6, SentIsGood
<1>8. PICK k : s = Line(Still(Up, to, k), file, x)
  <2>1. Now = Line(c, file, z)
    <3> HIDE DEF c
    <3> QED
      BY <1>5, NowIs
  <2>2. p = Held(file, to)
    OBVIOUS
  <2> HIDE DEF to, p
  <2>3. \E k : Idles(Line(Card(Up, <<>>, <<>>, 0, -2, to, 0), file, z), Len512 + 2)
                 = Line(Still(Up, to, k), file, Sent(p))
    <3> HIDE DEF z
    <3> QED
      BY <1>7, <2>2, SectorTaken
  <2> QED
    BY <2>1, <2>3
<1>11. waits(s) = Line(Still(Up, to, k), file, Silence(Tries))
  <2>1. Up \in Int /\ ~ (Up < Woken)
    BY Steps4
  <2> HIDE DEF s, x, to
  <2> QED
    BY <1>8, <2>1, WaitStill
<1>14. t = [waits(s) EXCEPT !.got = s.got]
  BY BehindSound DEF SectorData, waits
<1> HIDE DEF s, x, to, p, N, t
<1>9. s.got = x
  BY <1>8, LineFields
<1>15. t = Line(Still(Up, to, k), file, x)
  <2> DEFINE d == Still(Up, to, k)
             y == Silence(Tries)
             w == Line(d, file, y)
  <2>1. [w EXCEPT !.got = x] = Line(d, file, x)
    <3> HIDE DEF d, y
    <3> QED
      BY DEF Line
  <2>2. t = [w EXCEPT !.got = x]
    BY <1>9, <1>11, <1>14
  <2> QED
    BY <2>1, <2>2
<1>10. got = x
  BY <1>15, LineFields
<1>12. card' = Still(Up, to, k) /\ file' = file
  <2> DEFINE d == Still(Up, to, k)
  <2> HIDE DEF d
  <2>1. t = Line(d, file, x) /\ Takes(t)
    BY <1>4, <1>15 DEF d
  <2> QED
    BY <2>1, TakesLine DEF d
<1>13. buf' = [buf EXCEPT ![half] = p] /\ NextHalf("read")
  <2> HIDE DEF got
  <2> QED
    BY <1>4, <1>7, <1>10
<1> QED
  BY <1>1, <1>2, <1>12, <1>13 DEF to, p

\* The data goes whole into its sector, and the card answers so.
LEMMA DataPut ==
  ASSUME Sound, glitches \in Nat, glitches' = 0, WriteData
  PROVE  /\ op = "SDC!" /\ pc = "wdata" /\ Moving /\ pc' = "busy"
         /\ file' = WithSector(file, Sector(blkno, half), buf[half])
         /\ card' = Still(Up, Sector(blkno, half), 0)
<1> DEFINE t == Sends(Now, Packet(buf[half]))
           s == waits(t)
           g == <<5>>
           z == <<>>
           to == Sector(blkno, half)
           data == buf[half]
           m == -1
           c == Card(Up, z, z, m, m, to, 0)
           d == Still(Up, to, 0)
           f == WithSector(file, to, data)
           o == 0
<1>1. pc = "wdata" /\ Stays
  BY DEF WriteData, Stays
<1>2. op = "SDC!"
  BY <1>1, Where DEF Sound, Writes
<1> DEFINE r == Last(s.got)
<1>3. Takes(s) /\ (IF r % 32 = 5 THEN Goes("busy") ELSE Fail)
  <2>1. PICK hit \in Hits : /\ Takes(wait(t, "wait", hit)) /\ Counts(wait(t, "wait", hit), s)
                           /\ (IF Last(wait(t, "wait", hit).got) % 32 = 5 THEN Goes("busy") ELSE Fail)
    BY DEF WriteData, Runs, waits
  <2> HIDE DEF s
  <2>2. wait(t, "wait", hit) = s
    BY <2>1, SoundRun
  <2> QED
    BY <2>1, <2>2
<1>5. card = c
  BY <1>1 DEF Sound, Stage
<1>6. data \in [1..Len512 -> Byte] /\ file \in [Sectors -> [1..Len512 -> Byte]]
  <2>1. half \in 1..2
    BY DEF Sound, Places
  <2>2. buf \in [1..2 -> Patterns] /\ file \in [Sectors -> Patterns]
    BY <1>2 DEF Sound, Contents
  <2> QED
    BY <2>1, <2>2, BytesAssumption
<1>7. s = Line(d, f, g)
  <2>1. Now = Line(c, file, z)
    <3> HIDE DEF c
    <3> QED
      BY <1>5, NowIs
  <2> HIDE DEF to, data, o
  <2>2. waits(Sends(Line(Card(Up, <<>>, <<>>, -1, -1, to, o), file, z), Packet(data)))
          = Line(Still(Up, to, o), WithSector(file, to, data), <<5>>)
    <3> HIDE DEF z
    <3> QED
      BY <1>6, SectorPut
  <2> QED
    BY <2>1, <2>2 DEF o, data
<1>8. Last(g) = 5
  BY LastOne
<1> HIDE DEF s, g, d, f
<1>10. s.got = g /\ card' = d /\ file' = f
  BY <1>3, <1>7, TakesLine
<1>11. Goes("busy")
  <2>1. r % 32 = 5
    BY <1>8, <1>10
  <2> QED
    BY <1>3, <2>1
<1> QED
  BY <1>1, <1>2, <1>10, <1>11 DEF Goes, d, f, Moving, Stays

\* The card is silent at once.
LEMMA BusyDoes ==
  ASSUME Sound, glitches \in Nat, glitches' = 0, Busy
  PROVE  /\ op = "SDC!" /\ pc = "busy" /\ file' = file /\ card' = card /\ Resting(Up)
         /\ UNCHANGED <<blkno, buf, SDC_SDHC, started>> /\ NextHalf("write")
<1> DEFINE m == 1
           s == Idles(Now, m)
           at == card.at
           k == card.crc
           y == Silence(m)
           d == Still(Up, at, k)
<1>1. pc = "busy" /\ UNCHANGED <<blkno, buf, SDC_SDHC, started>>
  BY DEF Busy
<1>2. op = "SDC!"
  BY <1>1, Where DEF Sound, Writes
<1> DEFINE r == Last(s.got)
<1>3. Takes(s) /\ (r = Idle => NextHalf("write"))
  <2>1. PICK hit \in Hits : /\ Takes(Behind(Now, 1, hit)) /\ Counts(Behind(Now, 1, hit), s)
                           /\ (Last(Behind(Now, 1, hit).got) = Idle => NextHalf("write"))
    BY BehindSound DEF Busy, Runs
  <2> HIDE DEF s
  <2>2. Behind(Now, 1, hit) = s
    BY <2>1, SoundRun
  <2> QED
    BY <2>1, <2>2
<1>5. card = d /\ Resting(Up)
  BY <1>1 DEF Sound, Stage, Resting
<1>6. s = Line(d, file, y)
  <2>1. Now = Line(d, file, <<>>)
    <3> HIDE DEF d
    <3> QED
      BY <1>5, NowIs
  <2> DEFINE z == <<>>
  <2>2. Up \in Int /\ ~ (Up < Woken) /\ m \in Nat
    BY Steps4
  <2>3. Idles(Line(Still(Up, at, k), file, z), m) = Line(Still(Up, at, k), file, Silence(m))
    <3> HIDE DEF z, m, at, k
    <3> QED
      BY <2>2, IdlesStill
  <2> QED
    BY <2>1, <2>3
<1>8. Last(y) = Idle
  BY SilenceGrows
<1> HIDE DEF s, y, d
<1>10. s.got = y /\ card' = d /\ file' = file
  BY <1>3, <1>6, TakesLine
<1>11. NextHalf("write")
  BY <1>3, <1>8, <1>10
<1> QED
  BY <1>1, <1>2, <1>5, <1>10, <1>11

-----------------------------------------------------------------------------
(* Each step keeps the invariant.                                          *)

\* A card that rests has nothing under way.
LEMMA RestingAt ==
  ASSUME NEW i, Resting(i)
  PROVE  /\ card.initstat = i /\ card.recv = <<>> /\ card.send = <<>>
         /\ card.cmd17 = -1 /\ card.cmd24 = -2
<1> DEFINE z == <<>>
           m == -1
           n == -2
           at == card.at
           k == card.crc
<1>1. card = Card(i, z, z, m, n, at, k)
  BY DEF Resting, Still
<1> HIDE DEF z, m, n, at, k
<1>2. card.initstat = i /\ card.recv = z /\ card.send = z /\ card.cmd17 = m /\ card.cmd24 = n
  BY <1>1, CardFields
<1> QED
  BY <1>2 DEF z, m, n

\* A card left still rests.
LEMMA RestsNext ==
  ASSUME NEW i, NEW at, NEW k, card' = Still(i, at, k)
  PROVE  Resting(i)' /\ card'.initstat = i
<1> DEFINE z == <<>>
           m == -1
           n == -2
           c == card'
<1>1. c = Card(i, z, z, m, n, at, k)
  BY DEF Still
<1> HIDE DEF z, m, n, c
<1>2. c.initstat = i /\ c.at = at /\ c.crc = k
  BY <1>1, CardFields
<1> QED
  BY <1>2 DEF Resting, c

\* A card under initialization is not up.
LEMMA Awake ==
  0 # Up /\ Woken + 1 # Up /\ Woken + 2 # Up /\ Woken + 3 # Up
  BY Steps4

\* What a step keeps that leaves buffer and file alone.
LEMMA ContentsKept ==
  ASSUME Contents, UNCHANGED <<file, buf, half, blkno>>,
         op' = "SDC!" => op = "SDC!",
         op' \in {"none", "SDC$"} => op \in {"none", "SDC$"},
         pc' # "busy"
  PROVE  Contents'
<1>1. \A h : SameHalf(h) => SameHalf(h)'
  BY DEF SameHalf
<1> QED
  BY <1>1 DEF Contents

\* A card just powered on is asleep, and nothing was moved.
LEMMA InitSound == ASSUME Init PROVE SoundInv
<1>1. Places
  BY DEF Init, Places
<1>2. Resting(0)
  <2> DEFINE z == <<>>
             m == -1
             n == -2
  <2>1. card = Card(0, z, z, m, n, 0, 0)
    BY DEF Init, CardInit, Card
  <2> HIDE DEF z, m, n
  <2>2. card.at = 0 /\ card.crc = 0
    BY <2>1, CardFields
  <2> QED
    BY <2>1, <2>2 DEF Resting, Still, z, m, n
<1>3. Stage
  BY <1>2 DEF Init, Stage
<1>4. Begun
  BY DEF Init, Begun
<1>5. Contents
  <2>1. PICK p \in Patterns : buf = <<p, p>>
    BY DEF Init
  <2>2. buf \in [1..2 -> Patterns \cup {Blank}]
    BY <2>1
  <2> QED
    BY <2>2 DEF Init, Contents
<1> QED
  BY <1>1, <1>3, <1>4, <1>5 DEF Init, SoundInv, Sound

\* SDC$ starts with a card asleep or up.
LEMMA InitStarts ==
  ASSUME Sound, SDCinit
  PROVE  Sound'
<1>1. /\ op = "none" /\ op' = "SDC$" /\ pc' = "cmd0"
      /\ UNCHANGED <<card, file, blkno, half, buf, SDC_SDHC, started>>
  BY DEF SDCinit, Calls, NoSpix
<1>2. pc = "none"
  BY <1>1, Where DEF Sound
<1>3. Places'
  BY <1>1 DEF Sound, Places, Starts
<1>4. Stage'
  <2>1. Resting(0) \/ Resting(Up)
    BY <1>2 DEF Sound, Stage
  <2>2. (Resting(0) \/ Resting(Up))'
    BY <1>1, <2>1 DEF Resting
  <2> QED
    BY <1>1, <2>2 DEF Stage
<1>5. Begun'
  BY <1>1 DEF Sound, Begun
<1>6. Contents'
  BY <1>1, ContentsKept DEF Sound
<1> QED
  BY <1>3, <1>4, <1>5, <1>6 DEF Sound

\* A card that is up waits for a command between words.
LEMMA UpBetween ==
  ASSUME Sound, op = "none", started
  PROVE  Resting(Up)
<1>1. pc = "none"
  BY Where DEF Sound
<1>2. Resting(0) \/ Resting(Up)
  BY <1>1 DEF Sound, Stage
<1>3. card.initstat = Up
  BY DEF Sound, Begun
<1>4. ~ Resting(0)
  BY <1>3, RestingAt, Awake
<1> QED
  BY <1>2, <1>4

\* Block numbers are words.
LEMMA BlocksAreWords == ASSUME NEW b \in Blocks PROVE b \in Nat /\ b < 65536
<1>1. b \in Word
  BY BoundsAssumption
<1> QED
  BY <1>1 DEF Word

\* SDC@ starts with a card that is up.
LEMMA FetchStarts ==
  ASSUME Sound, NEW b \in Blocks, SDCfetch(b)
  PROVE  Sound'
<1>1. /\ op = "none" /\ op' = "SDC@" /\ pc' = "read" /\ blkno' = b /\ half' = 1 /\ started
      /\ UNCHANGED <<card, file, buf, SDC_SDHC, started>>
  BY DEF SDCfetch, Calls, NoSpix
<1>3. Places'
  BY <1>1, BlocksAreWords DEF Places, Reads
<1>4. Stage'
  <2>1. Resting(Up)
    BY <1>1, UpBetween
  <2>2. Resting(Up)'
    BY <1>1, <2>1 DEF Resting
  <2> QED
    BY <1>1, <2>2 DEF Stage
<1>5. Begun'
  BY <1>1 DEF Sound, Begun
<1>6. Contents'
  BY <1>1 DEF Sound, Contents
<1> QED
  BY <1>3, <1>4, <1>5, <1>6 DEF Sound

\* SDC! does too.
LEMMA StoreStarts ==
  ASSUME Sound, NEW b \in Blocks, NEW p1 \in Patterns, NEW p2 \in Patterns, SDCstore(b, p1, p2)
  PROVE  Sound'
<1>1. /\ op = "none" /\ op' = "SDC!" /\ pc' = "write" /\ blkno' = b /\ half' = 1 /\ started
      /\ buf' = <<p1, p2>> /\ UNCHANGED <<card, file, SDC_SDHC, started>>
  BY DEF SDCstore, Calls, NoSpix
<1>3. Places'
  BY <1>1, BlocksAreWords DEF Places, Writes
<1>4. Stage'
  <2>1. Resting(Up)
    BY <1>1, UpBetween
  <2>2. Resting(Up)'
    BY <1>1, <2>1 DEF Resting
  <2> QED
    BY <1>1, <2>2 DEF Stage
<1>5. Begun'
  BY <1>1 DEF Sound, Begun
<1>6. Contents'
  <2>1. buf' \in [1..2 -> Patterns]
    BY <1>1
  <2>2. buf' \in [1..2 -> Patterns \cup {Blank}]
    BY <2>1
  <2> QED
    BY <1>1, <2>1, <2>2 DEF Sound, Contents
<1> QED
  BY <1>3, <1>4, <1>5, <1>6 DEF Sound

\* CMD0 keeps driver and card together,
LEMMA ResetSound ==
  ASSUME Sound, glitches \in Nat, glitches' = 0, Reset
  PROVE  Sound'
<1>1. /\ op = "SDC$" /\ pc = "cmd0" /\ file' = file /\ Stays
      /\ \/ /\ card' = Still(Woken + 1, card.at, card.crc) /\ Resting(0)
            /\ op' = op /\ pc' = "cmd8" /\ err' = err
         \/ /\ card' = card /\ Resting(Up)
            /\ \/ op' = op /\ pc' = pc /\ err' = err
               \/ op' = "none" /\ pc' = "none" /\ err' = TRUE
  BY ResetDoes
<1>2. \/ op' = "SDC$" /\ pc' \in {"cmd0", "cmd8"}
      \/ op' = "none" /\ pc' = "none"
  BY <1>1
<1>3. Places'
  BY <1>1, <1>2 DEF Sound, Places, Starts, Stays
<1>4. Stage'
  <2>1. CASE card' = Still(Woken + 1, card.at, card.crc) /\ pc' = "cmd8"
    <3>1. Resting(Woken + 1)'
      BY <2>1, RestsNext
    <3> QED
      BY <2>1, <3>1 DEF Stage
  <2>2. CASE card' = card /\ Resting(Up) /\ pc' \in {"none", "cmd0"}
    <3>1. Resting(Up)'
      BY <2>2 DEF Resting
    <3> QED
      BY <2>2, <3>1 DEF Stage
  <2> QED
    BY <1>1, <2>1, <2>2
<1>5. Begun'
  <2>1. CASE card' = card
    BY <1>1, <2>1 DEF Sound, Begun, Stays
  <2>2. CASE Resting(0)
    <3>1. ~ started
      BY <2>2, RestingAt, Awake DEF Sound, Begun
    <3> QED
      BY <1>1, <3>1 DEF Begun, Stays
  <2> QED
    BY <1>1, <2>1, <2>2
<1>6. Contents'
  BY <1>1, <1>2, ContentsKept DEF Sound, Stays
<1> QED
  BY <1>3, <1>4, <1>5, <1>6 DEF Sound

\* A command of the initialization that goes well takes both a step on.
LEMMA StartGoesOn ==
  ASSUME Sound, op = "SDC$", file' = file, Stays, NEW i, Resting(i), i # Up,
         NEW j, card' = Still(j, card.at, card.crc), op' = op,
         \/ j = Woken + 2 /\ pc' = "cmd55"
         \/ j = Woken + 3 /\ pc' = "cmd41"
         \/ j = Up /\ pc' = "cmd58"
  PROVE  Sound'
<1>3. Places'
  BY DEF Sound, Places, Starts, Stays
<1>4. Stage'
  <2>1. Resting(j)'
    BY RestsNext
  <2> QED
    BY <2>1 DEF Stage
<1>5. Begun'
  <2>1. ~ started
    BY RestingAt DEF Sound, Begun
  <2> QED
    BY <2>1 DEF Begun, Stays
<1>6. Contents'
  BY ContentsKept DEF Sound, Stays
<1> QED
  BY <1>3, <1>4, <1>5, <1>6 DEF Sound

\* and so does CMD8,
LEMMA VoltageSound ==
  ASSUME Sound, glitches \in Nat, glitches' = 0, CheckVoltage
  PROVE  Sound'
<1> DEFINE i == Woken + 1
           j == Woken + 2
<1>1. /\ op = "SDC$" /\ file' = file /\ Stays
      /\ Resting(i) /\ i # Up /\ card' = Still(j, card.at, card.crc)
      /\ op' = op /\ pc' = "cmd55" /\ j = Woken + 2
  BY VoltageDoes, Awake
<1> HIDE DEF i, j
<1> QED
  BY <1>1, StartGoesOn

\* CMD55,
LEMMA AppSound ==
  ASSUME Sound, glitches \in Nat, glitches' = 0, AppCommand
  PROVE  Sound'
<1> DEFINE i == Woken + 2
           j == Woken + 3
<1>1. /\ op = "SDC$" /\ file' = file /\ Stays
      /\ Resting(i) /\ i # Up /\ card' = Still(j, card.at, card.crc)
      /\ op' = op /\ pc' = "cmd41" /\ j = Woken + 3
  BY AppDoes, Awake
<1> HIDE DEF i, j
<1> QED
  BY <1>1, StartGoesOn

\* CMD41
LEMMA IdleSound ==
  ASSUME Sound, glitches \in Nat, glitches' = 0, LeaveIdle
  PROVE  Sound'
<1> DEFINE i == Woken + 3
           j == Up
<1>1. /\ op = "SDC$" /\ file' = file /\ Stays
      /\ Resting(i) /\ i # Up /\ card' = Still(j, card.at, card.crc)
      /\ op' = op /\ pc' = "cmd58" /\ j = Up
  BY IdleDoes, Awake
<1> HIDE DEF i, j
<1> QED
  BY <1>1, StartGoesOn

\* and CMD58.
LEMMA SdhcSound ==
  ASSUME Sound, glitches \in Nat, glitches' = 0, rdsdhc
  PROVE  Sound'
<1>1. /\ op = "SDC$" /\ file' = file /\ UNCHANGED <<blkno, half, buf>>
      /\ started' = TRUE /\ SDC_SDHC' = TRUE /\ card' = Still(Up, card.at, card.crc)
      /\ op' = "none" /\ pc' = "none"
  BY SdhcDoes
<1>2. Resting(Up)' /\ card'.initstat = Up
  BY <1>1, RestsNext
<1>3. Places'
  BY <1>1 DEF Sound, Places
<1>4. Stage'
  BY <1>1, <1>2 DEF Stage
<1>5. Begun'
  BY <1>1, <1>2 DEF Begun
<1>6. Contents'
  BY <1>1, ContentsKept DEF Sound
<1> QED
  BY <1>3, <1>4, <1>5, <1>6 DEF Sound

\* CMD17 keeps driver and card together,
LEMMA ReadSound ==
  ASSUME Sound, glitches \in Nat, glitches' = 0, ReadCommand
  PROVE  Sound'
<1>1. /\ op = "SDC@" /\ file' = file /\ Moving /\ pc' = "token"
      /\ card' = Card(Up, <<>>, <<Token>>, 0, -2, Sector(blkno, half), 0)
  BY ReadDoes
<1>2. Places'
  BY <1>1 DEF Sound, Places, Reads, Moving
<1>3. Stage'
  <2>1. Sector(blkno, half)' = Sector(blkno, half)
    BY <1>1 DEF Sector, Moving
  <2> QED
    BY <1>1, <2>1 DEF Stage
<1>4. Begun'
  <2>1. card'.initstat = Up
    BY <1>1 DEF Card
  <2> QED
    BY <1>1, <2>1 DEF Sound, Begun, Moving
<1>5. Contents'
  BY <1>1, ContentsKept DEF Sound, Moving
<1> QED
  BY <1>2, <1>3, <1>4, <1>5 DEF Sound

\* and so does the wait for the token,
LEMMA TokenSound ==
  ASSUME Sound, glitches \in Nat, glitches' = 0, WaitToken
  PROVE  Sound'
<1>1. /\ op = "SDC@" /\ file' = file /\ Moving /\ pc' = "data"
      /\ card' = Card(Up, <<>>, <<>>, 0, -2, Sector(blkno, half), 0)
  BY TokenDoes
<1>2. Places'
  BY <1>1 DEF Sound, Places, Reads, Moving
<1>3. Stage'
  <2>1. Sector(blkno, half)' = Sector(blkno, half)
    BY <1>1 DEF Sector, Moving
  <2> QED
    BY <1>1, <2>1 DEF Stage
<1>4. Begun'
  <2>1. card'.initstat = Up
    BY <1>1 DEF Card
  <2> QED
    BY <1>1, <2>1 DEF Sound, Begun, Moving
<1>5. Contents'
  BY <1>1, ContentsKept DEF Sound, Moving
<1> QED
  BY <1>2, <1>3, <1>4, <1>5 DEF Sound

\* CMD24,
LEMMA WriteSound ==
  ASSUME Sound, glitches \in Nat, glitches' = 0, WriteCommand
  PROVE  Sound'
<1>1. /\ op = "SDC!" /\ file' = file /\ Moving /\ pc' = "wdata"
      /\ card' = Card(Up, <<>>, <<>>, -1, -1, Sector(blkno, half), 0)
  BY WriteDoes
<1>2. Places'
  BY <1>1 DEF Sound, Places, Writes, Moving
<1>3. Stage'
  <2>1. Sector(blkno, half)' = Sector(blkno, half)
    BY <1>1 DEF Sector, Moving
  <2> QED
    BY <1>1, <2>1 DEF Stage
<1>4. Begun'
  <2>1. card'.initstat = Up
    BY <1>1 DEF Card
  <2> QED
    BY <1>1, <2>1 DEF Sound, Begun, Moving
<1>5. Contents'
  BY <1>1, ContentsKept DEF Sound, Moving
<1> QED
  BY <1>2, <1>3, <1>4, <1>5 DEF Sound

\* What the end of half a block leads to.
LEMMA HalfNext ==
  ASSUME Places, NEW p, NextHalf(p), op \in {"SDC@", "SDC!"}
  PROVE  \/ half = 1 /\ half' = 2 /\ pc' = p /\ op' = op /\ err' = err
         \/ half = 2 /\ half' = 2 /\ pc' = "none" /\ op' = "none" /\ err' = FALSE
  BY DEF Places, NextHalf, Goes, Ends

\* the data and its CRC read,
LEMMA DataSound ==
  ASSUME Sound, glitches \in Nat, glitches' = 0, ReadData
  PROVE  Sound'
<1> DEFINE to == Sector(blkno, half)
           p == Held(file, to)
<1>1. /\ op = "SDC@" /\ file' = file /\ UNCHANGED <<blkno, SDC_SDHC, started>>
      /\ \E k : card' = Still(Up, to, k)
      /\ buf' = [buf EXCEPT ![half] = p] /\ NextHalf("read")
  BY DataDoes
<1>2. \/ half = 1 /\ half' = 2 /\ pc' = "read" /\ op' = "SDC@"
      \/ half = 2 /\ half' = 2 /\ pc' = "none" /\ op' = "none"
  BY <1>1, HalfNext DEF Sound
<1>3. Resting(Up)' /\ card'.initstat = Up
  <2>1. PICK k : card' = Still(Up, to, k)
    BY <1>1
  <2> HIDE DEF to
  <2> QED
    BY <2>1, RestsNext
<1>4. Places'
  BY <1>1, <1>2 DEF Sound, Places, Reads
<1>5. Stage'
  BY <1>2, <1>3 DEF Stage
<1>6. Begun'
  BY <1>1, <1>3 DEF Sound, Begun
<1>7. Contents'
  <2>1. p \in Patterns \cup {Blank}
    BY HeldIs DEF Sound, Contents
  <2>2. buf \in [1..2 -> Patterns \cup {Blank}] /\ file \in [Sectors -> Patterns]
    BY DEF Sound, Contents
  <2>3. half \in 1..2
    BY <1>2
  <2>4. to \in Sectors => p = file[to]
    BY DEF Held
  <2> HIDE DEF p
  <2>5. buf' \in [1..2 -> Patterns \cup {Blank}]
    BY <1>1, <2>1, <2>2
  <2>7. CASE half = 1
    <3>1. buf'[1] = p
      BY <1>1, <2>2, <2>7
    <3>2. SameHalf(1)'
      BY <1>1, <2>4, <2>7, <3>1 DEF SameHalf, Sector
    <3> QED
      BY <1>1, <1>2, <2>2, <2>5, <2>7, <3>2 DEF Contents
  <2>8. CASE half = 2
    <3>1. buf'[2] = p /\ buf'[1] = buf[1]
      BY <1>1, <2>2, <2>8
    <3>2. SameHalf(2)'
      BY <1>1, <2>4, <2>8, <3>1 DEF SameHalf, Sector
    <3>3. SameHalf(1)'
      <4>1. SameHalf(1)
        BY <2>8 DEF Sound, Contents
      <4> QED
        BY <1>1, <3>1, <4>1 DEF SameHalf, Sector
    <3> QED
      BY <1>1, <1>2, <2>2, <2>5, <2>8, <3>2, <3>3 DEF Contents
  <2> QED
    BY <1>2, <2>7, <2>8
<1> QED
  BY <1>4, <1>5, <1>6, <1>7 DEF Sound

\* the data written
LEMMA PutSound ==
  ASSUME Sound, glitches \in Nat, glitches' = 0, WriteData
  PROVE  Sound'
<1> DEFINE to == Sector(blkno, half)
<1>1. /\ op = "SDC!" /\ Moving /\ pc' = "busy"
      /\ file' = WithSector(file, to, buf[half])
      /\ card' = Still(Up, to, 0)
  BY DataPut
<1>2. Places'
  BY <1>1 DEF Sound, Places, Writes, Moving
<1>3. Resting(Up)' /\ card'.initstat = Up
  <2> HIDE DEF to
  <2> QED
    BY <1>1, RestsNext
<1>4. Stage'
  BY <1>1, <1>3 DEF Stage
<1>5. Begun'
  BY <1>1, <1>3 DEF Sound, Begun, Moving
<1>6. Contents'
  <2>1. buf \in [1..2 -> Patterns] /\ file \in [Sectors -> Patterns]
    BY <1>1 DEF Sound, Contents
  <2>2. half \in {1, 2}
    BY DEF Sound, Places
  <2>3. \A k \in Sectors : file'[k] = IF k = to THEN buf[half] ELSE file[k]
    BY <1>1, <2>1 DEF WithSector
  <2>4. file' \in [Sectors -> Patterns]
    BY <1>1, <2>1, <2>2 DEF WithSector
  <2>5. SameHalf(half)'
    BY <1>1, <2>3 DEF SameHalf, Sector, Moving
  <2>6. half = 2 => SameHalf(1)'
    <3>1. half = 2 => SameHalf(1)
      BY DEF Sound, Contents
    <3>2. half = 2 => Sector(blkno, 1) # to
      BY SectorIs DEF Sound
    <3>3. Sector(blkno, 1)' = Sector(blkno, 1)
      BY <1>1 DEF Sector, Moving
    <3> HIDE DEF to
    <3> QED
      BY <1>1, <2>3, <3>1, <3>2, <3>3 DEF SameHalf, Moving
  <2>7. buf' \in [1..2 -> Patterns \cup {Blank}] /\ buf' \in [1..2 -> Patterns]
    BY <1>1, <2>1 DEF Moving
  <2>8. half' = half /\ op' = "SDC!"
    BY <1>1 DEF Moving
  <2> QED
    BY <1>1, <2>4, <2>5, <2>6, <2>7, <2>8 DEF Contents
<1> QED
  BY <1>2, <1>4, <1>5, <1>6 DEF Sound

\* and the wait for the card to be done.
LEMMA BusySound ==
  ASSUME Sound, glitches \in Nat, glitches' = 0, Busy
  PROVE  Sound'
<1>1. /\ op = "SDC!" /\ pc = "busy" /\ file' = file /\ card' = card /\ Resting(Up)
      /\ UNCHANGED <<blkno, buf, SDC_SDHC, started>> /\ NextHalf("write")
  BY BusyDoes
<1>2. \/ half = 1 /\ half' = 2 /\ pc' = "write" /\ op' = "SDC!"
      \/ half = 2 /\ half' = 2 /\ pc' = "none" /\ op' = "none"
  BY <1>1, HalfNext DEF Sound
<1>3. Resting(Up)'
  BY <1>1 DEF Resting
<1>4. Places'
  BY <1>1, <1>2 DEF Sound, Places, Writes
<1>5. Stage'
  BY <1>2, <1>3 DEF Stage
<1>6. Begun'
  BY <1>1 DEF Sound, Begun
<1>7. Contents'
  <2>1. \A h : SameHalf(h) => SameHalf(h)'
    BY <1>1 DEF SameHalf, Sector
  <2>2. SameHalf(half) /\ (half = 2 => SameHalf(1))
    BY <1>1 DEF Sound, Contents
  <2>3. file' \in [Sectors -> Patterns] /\ buf' \in [1..2 -> Patterns]
        /\ buf' \in [1..2 -> Patterns \cup {Blank}]
    BY <1>1 DEF Sound, Contents
  <2>4. SameHalf(1)' /\ (half = 2 => SameHalf(2)')
    BY <1>2, <2>1, <2>2
  <2> QED
    BY <1>2, <2>3, <2>4 DEF Contents
<1> QED
  BY <1>4, <1>5, <1>6, <1>7 DEF Sound

-----------------------------------------------------------------------------
(* The theorems.                                                           *)

\* Damage is counted, and never taken back.
LEMMA GlitchesGrow ==
  ASSUME glitches \in Nat, [Next]_vars
  PROVE  glitches' \in Nat /\ (glitches' = 0 => glitches = 0)
<1>1. ASSUME NEW s, NEW t, Counts(s, t) PROVE glitches' = glitches \/ glitches' = glitches + 1
  BY <1>1 DEF Counts
<1>2. glitches' = glitches \/ glitches' = glitches + 1
  <2>1. CASE SDCinit
    BY <2>1 DEF SDCinit, NoSpix
  <2>2. CASE \E b \in Blocks : SDCfetch(b)
    BY <2>2 DEF SDCfetch, NoSpix
  <2>3. CASE \E b \in Blocks, p1, p2 \in Patterns : SDCstore(b, p1, p2)
    BY <2>3 DEF SDCstore, NoSpix
  <2>4. CASE Reset
    BY <1>1, <2>4 DEF Reset, Runs
  <2>5. CASE CheckVoltage
    BY <1>1, <2>5 DEF CheckVoltage, Runs
  <2>6. CASE AppCommand
    BY <1>1, <2>6 DEF AppCommand, Runs
  <2>7. CASE LeaveIdle
    BY <1>1, <2>7 DEF LeaveIdle, Runs
  <2>8. CASE rdsdhc
    BY <1>1, <2>8 DEF rdsdhc, Runs
  <2>9. CASE ReadCommand
    BY <1>1, <2>9 DEF ReadCommand, Runs
  <2>10. CASE WaitToken
    BY <1>1, <2>10 DEF WaitToken, Runs
  <2>11. CASE ReadData
    BY <1>1, <2>11 DEF ReadData, Runs
  <2>12. CASE WriteCommand
    BY <1>1, <2>12 DEF WriteCommand, Runs
  <2>13. CASE WriteData
    BY <1>1, <2>13 DEF WriteData, Runs
  <2>14. CASE Busy
    BY <1>1, <2>14 DEF Busy, Runs
  <2>15. CASE UNCHANGED vars
    BY <2>15 DEF vars
  <2> QED
    BY <2>1, <2>2, <2>3, <2>4, <2>5, <2>6, <2>7, <2>8, <2>9, <2>10, <2>11, <2>12, <2>13,
       <2>14, <2>15 DEF Next, Working, Starting, Fetching, Storing
<1> QED
  BY <1>2

\* Every step keeps the invariant.
LEMMA SoundNext ==
  ASSUME SoundInv, [Next]_vars
  PROVE  SoundInv'
<1>1. glitches \in Nat /\ glitches' \in Nat /\ (glitches' = 0 => glitches = 0)
  BY GlitchesGrow DEF SoundInv
<1>2. ASSUME glitches' = 0 PROVE Sound'
  <2> USE <1>2
  <2>1. Sound /\ glitches \in Nat
    BY <1>1 DEF SoundInv
  <2>2. CASE SDCinit
    BY <2>1, <2>2, InitStarts
  <2>3. CASE \E b \in Blocks : SDCfetch(b)
    BY <2>1, <2>3, FetchStarts
  <2>4. CASE \E b \in Blocks, p1, p2 \in Patterns : SDCstore(b, p1, p2)
    BY <2>1, <2>4, StoreStarts
  <2>5. CASE Starting
    BY <2>1, <2>5, ResetSound, VoltageSound, AppSound, IdleSound, SdhcSound DEF Starting
  <2>6. CASE Fetching
    BY <2>1, <2>6, ReadSound, TokenSound, DataSound DEF Fetching
  <2>7. CASE Storing
    BY <2>1, <2>7, WriteSound, PutSound, BusySound DEF Storing
  <2>8. CASE UNCHANGED vars
    <3>1. Sector(blkno, half)' = Sector(blkno, half)
      BY <2>8 DEF vars, Sector
    <3>2. \A h : SameHalf(h) => SameHalf(h)'
      BY <2>8 DEF vars, SameHalf, Sector
    <3>3. Places'
      BY <2>1, <2>8 DEF vars, Sound, Places
    <3>4. Stage'
      <4>1. \A i : Resting(i) => Resting(i)'
        BY <2>8 DEF vars, Resting
      <4>2. card' = card /\ pc' = pc
        BY <2>8 DEF vars
      <4> QED
        BY <2>1, <3>1, <4>1, <4>2 DEF Sound, Stage
    <3>5. Begun'
      BY <2>1, <2>8 DEF vars, Sound, Begun
    <3>6. Contents'
      BY <2>1, <2>8, <3>2 DEF vars, Sound, Contents
    <3> QED
      BY <3>3, <3>4, <3>5, <3>6 DEF Sound
  <2> QED
    BY <2>2, <2>3, <2>4, <2>5, <2>6, <2>7, <2>8 DEF Next, Working
<1> QED
  BY <1>1, <1>2 DEF SoundInv

\* As long as no byte has come damaged, card and driver are at the same place
\* of every word, and what was moved is the same on both sides.
THEOREM Soundness == Spec => []SoundInv
<1>1. Init => SoundInv
  BY InitSound
<1>2. SoundInv /\ [Next]_vars => SoundInv'
  BY SoundNext
<1> QED
  BY <1>1, <1>2, PTL DEF Spec

\* Between words a card on a sound line waits for a command: whichever way a
\* word ended, SDerr included, and whatever came before, nothing of a command,
\* an answer or a sector is left over for the next word.
THEOREM StaysInSync == Spec => []InSync
<1>1. SoundInv => InSync
  <2> SUFFICES ASSUME SoundInv, op = "none", glitches = 0
               PROVE  /\ card.recv = <<>> /\ card.send = <<>>
                      /\ card.cmd17 = -1 /\ card.cmd24 = -2
    BY DEF InSync
  <2>1. Sound
    BY DEF SoundInv
  <2>2. pc = "none"
    BY <2>1, Where DEF Sound
  <2>3. Resting(0) \/ Resting(Up)
    BY <2>1, <2>2 DEF Sound, Stage
  <2> QED
    BY <2>3, RestingAt
<1> QED
  BY <1>1, Soundness, PTL

\* The last byte of a packet is where the file changes.
LEMMA FileChanges ==
  ASSUME Sound, glitches \in Nat, glitches' = 0, [Next]_vars
  PROVE  \/ file' = file
         \/ op = "SDC!" /\ file' = WithSector(file, Sector(blkno, half), buf[half])
<1>1. CASE SDCinit
  BY <1>1 DEF SDCinit, NoSpix
<1>2. CASE \E b \in Blocks : SDCfetch(b)
  BY <1>2 DEF SDCfetch, NoSpix
<1>3. CASE \E b \in Blocks, p1, p2 \in Patterns : SDCstore(b, p1, p2)
  BY <1>3 DEF SDCstore, NoSpix
<1>4. CASE Starting
  BY <1>4, ResetDoes, VoltageDoes, AppDoes, IdleDoes, SdhcDoes DEF Starting
<1>5. CASE Fetching
  BY <1>5, ReadDoes, TokenDoes, DataDoes DEF Fetching
<1>6. CASE WriteData
  BY <1>6, DataPut
<1>7. CASE WriteCommand \/ Busy
  BY <1>7, WriteDoes, BusyDoes
<1>8. CASE UNCHANGED vars
  BY <1>8 DEF vars
<1> QED
  BY <1>1, <1>2, <1>3, <1>4, <1>5, <1>6, <1>7, <1>8 DEF Next, Working, Storing

\* The blocks whose sectors sixteen bits can number.
Numbered == \A b \in Blocks : b < 32768

\* On a sound line only SDC! changes the card, and only in the two sectors of
\* its block: the block number doubled, or that plus one, neither wrapped.
THEOREM WritesTarget == ASSUME Numbered PROVE Spec => OnlyTarget
<1> DEFINE Step == \A k \in Sectors : file'[k] # file[k] /\ glitches' = 0
                     => op = "SDC!" /\ k \in {2 * blkno, 2 * blkno + 1}
<1>1. ASSUME SoundInv, [Next]_vars PROVE Step
  <2> SUFFICES ASSUME NEW k \in Sectors, file'[k] # file[k], glitches' = 0
               PROVE  op = "SDC!" /\ k \in {2 * blkno, 2 * blkno + 1}
    OBVIOUS
  <2>1. glitches \in Nat /\ glitches = 0
    BY <1>1, GlitchesGrow DEF SoundInv
  <2>2. Sound
    BY <1>1, <2>1 DEF SoundInv
  <2> DEFINE to == Sector(blkno, half)
  <2>3. op = "SDC!" /\ file' = WithSector(file, to, buf[half])
    BY <1>1, <2>1, <2>2, FileChanges
  <2>4. blkno < 32768 /\ half \in {1, 2}
    BY <2>2, <2>3 DEF Sound, Places, Numbered
  <2>5. to = 2 * blkno \/ to = 2 * blkno + 1
    BY <2>2, <2>4, SectorIs DEF Sound
  <2>6. file \in [Sectors -> Patterns]
    BY <2>2 DEF Sound, Contents
  <2> HIDE DEF to
  <2>7. k = to
    BY <2>3, <2>6 DEF WithSector
  <2> QED
    BY <2>3, <2>5, <2>7
<1>2. SoundInv /\ [Next]_vars => [Step]_vars
  BY <1>1
<1> QED
  BY <1>2, Soundness, PTL DEF Spec, OnlyTarget

\* Where SDerr may come from.
LEMMA ErrStays ==
  ASSUME Sound, glitches \in Nat, glitches' = 0, [Next]_vars, err', ~ err
  PROVE  op = "SDC$"
<1>1. CASE SDCinit
  BY <1>1 DEF SDCinit, Calls
<1>2. CASE \E b \in Blocks : SDCfetch(b)
  BY <1>2 DEF SDCfetch, Calls
<1>3. CASE \E b \in Blocks, p1, p2 \in Patterns : SDCstore(b, p1, p2)
  BY <1>3 DEF SDCstore, Calls
<1>4. CASE Starting
  BY <1>4, ResetDoes, VoltageDoes, AppDoes, IdleDoes, SdhcDoes DEF Starting
<1>5. CASE ReadCommand \/ WaitToken \/ WriteCommand \/ WriteData
  <2>1. Moving
    BY <1>5, ReadDoes, TokenDoes, WriteDoes, DataPut
  <2> QED
    BY <2>1 DEF Moving
<1>6. CASE ReadData
  <2>1. NextHalf("read") /\ op = "SDC@"
    BY <1>6, DataDoes
  <2>2. err' = err \/ err' = FALSE
    BY <2>1, HalfNext DEF Sound
  <2> QED
    BY <2>2
<1>7. CASE Busy
  <2>1. NextHalf("write") /\ op = "SDC!"
    BY <1>7, BusyDoes
  <2>2. err' = err \/ err' = FALSE
    BY <2>1, HalfNext DEF Sound
  <2> QED
    BY <2>2
<1>8. CASE UNCHANGED vars
  BY <1>8 DEF vars
<1> QED
  BY <1>1, <1>2, <1>3, <1>4, <1>5, <1>6, <1>7, <1>8 DEF Next, Working, Fetching, Storing

\* On a sound line a transfer never ends with SDerr: each wait of 20 exchanges
\* finds its answer, each CRC is right, and the card takes what it is sent.
\* Only SDC$ may fail, on a card that is initialized already.
THEOREM FailsOnlyStarting == Spec => NoErrorUp
<1> DEFINE Step == card.initstat = Up /\ err' /\ ~err /\ glitches' = 0 => op = "SDC$"
<1>1. ASSUME SoundInv, [Next]_vars PROVE Step
  <2> SUFFICES ASSUME err', ~ err, glitches' = 0 PROVE op = "SDC$"
    OBVIOUS
  <2>1. glitches \in Nat /\ glitches = 0
    BY <1>1, GlitchesGrow DEF SoundInv
  <2> QED
    BY <1>1, <2>1, ErrStays DEF SoundInv
<1>2. SoundInv /\ [Next]_vars => [Step]_vars
  BY <1>1
<1> QED
  BY <1>2, Soundness, PTL DEF Spec, NoErrorUp

\* A word fits sixteen bits.
LEMMA WordBelow == ASSUME NEW w \in Word PROVE w < 65536
  BY DEF Word

\* On a sound line a transfer has moved its block when it ends: buffer and card
\* hold the same in both halves, and it stays so until the next word.
THEOREM MovesBlocks ==
  ASSUME Sectors \subseteq Word
  PROVE  Spec => [](glitches = 0 => Moved)
<1>1. SoundInv => (glitches = 0 => Moved)
  <2> SUFFICES ASSUME Sound, op = "none", half = 2, InFile(blkno)
               PROVE  Same
    BY DEF SoundInv, Moved
  <2>1. 2 * blkno \in Sectors /\ 2 * blkno + 1 \in Sectors
    BY DEF InFile
  <2>2. blkno \in Nat /\ blkno < 32768
    <3>1. blkno \in Nat
      BY DEF Sound, Places
    <3> DEFINE k == 2 * blkno
    <3>2. k \in Word
      BY <2>1
    <3>3. k < 65536
      BY <3>2, WordBelow
    <3> QED
      BY <3>1, <3>3
  <2>3. Sector(blkno, 1) = 2 * blkno /\ Sector(blkno, 2) = 2 * blkno + 1
    BY <2>2, SectorIs DEF Sound
  <2>4. SameHalf(1) /\ SameHalf(2)
    BY DEF Sound, Contents
  <2> QED
    BY <2>1, <2>3, <2>4 DEF SameHalf, Same
<1> QED
  BY <1>1, Soundness, PTL

-----------------------------------------------------------------------------
(* Types, whatever came damaged.                                           *)

Typed(i, r, s, a, b, at, k) ==
  /\ i \in 0..Up /\ r \in Seq(Byte) /\ Len(r) < 6 /\ s \in Seq(Byte)
  /\ a \in -1..(Len512 - 1) /\ b \in -2..(Len512 + 1) /\ at \in Nat /\ k \in Word16
CardTyped(c) ==
  \E i, r, s, a, b, at, k : c = Card(i, r, s, a, b, at, k) /\ Typed(i, r, s, a, b, at, k)
Files == [Sectors -> [1..Len512 -> Byte]]
LineTyped(l, n) ==
  \E c, f, g : /\ l = Line(c, f, g) /\ CardTyped(c) /\ f \in Files
               /\ g \in Seq(Byte) /\ Len(g) = n

\* A card of the right fields.
LEMMA CardHas ==
  ASSUME NEW i, NEW r, NEW s, NEW a, NEW b, NEW at, NEW k, Typed(i, r, s, a, b, at, k)
  PROVE  CardTyped(Card(i, r, s, a, b, at, k))
  BY Zenon DEF CardTyped

\* A line of the right fields.
LEMMA LineHas ==
  ASSUME NEW c, CardTyped(c), NEW f \in Files, NEW n \in Nat, NEW g \in Seq(Byte), Len(g) = n
  PROVE  LineTyped(Line(c, f, g), n)
  BY Zenon DEF LineTyped

\* A line gets one more byte.
LEMMA LineGets ==
  ASSUME NEW c, CardTyped(c), NEW f \in Files, NEW n \in Nat, NEW g \in Seq(Byte), Len(g) = n,
         NEW w \in Byte
  PROVE  LineTyped(Line(c, f, Append(g, w)), n + 1)
<1> DEFINE h == Append(g, w)
<1>1. h \in Seq(Byte) /\ Len(h) = n + 1
  OBVIOUS
<1> HIDE DEF h
<1>2. n + 1 \in Nat
  OBVIOUS
<1>3. LineTyped(Line(c, f, h), n + 1)
  BY <1>1, <1>2, LineHas
<1> QED
  BY <1>3 DEF h

\* The bytes used.
LEMMA ByteIs == \A b : b \in Byte <=> b \in Nat /\ b < 256
  BY DEF Byte

\* What the card's answers are made of.
LEMMA Answered ==
  /\ Idle \in Byte /\ <<>> \in Seq(Byte) /\ <<1>> \in Seq(Byte) /\ <<0>> \in Seq(Byte)
  /\ <<5>> \in Seq(Byte) /\ <<1, 0, 0, 1, 170>> \in Seq(Byte) /\ <<0, Token>> \in Seq(Byte)
  /\ Len(<<>>) < 6 /\ 0 \in Word16
<1>1. 0 \in Byte /\ 1 \in Byte /\ 5 \in Byte /\ 170 \in Byte /\ Token \in Byte /\ Idle \in Byte
  BY DEF Byte, Token, Idle
<1>2. Len(<<>>) < 6 /\ 0 \in Word16
  BY DEF Word16
<1> QED
  BY <1>1, <1>2

\* A word in two bytes of it.
LEMMA HalvesTyped ==
  ASSUME NEW n \in Word16
  PROVE  High(n) \in Byte /\ Low(n) \in Byte
  BY Halves, ByteIs

\* The card's CRC stays a word.
LEMMA CrcTyped ==
  ASSUME NEW k \in Word16, NEW w \in Byte
  PROVE  CardCrc16(k, w) \in Word16
<1>1. w \in Byte8
  BY ByteIs DEF Byte8
<1> QED
  BY <1>1, CardSame

\* A command leaves a card that is typed.
LEMMA CommandTyped ==
  ASSUME NEW i, NEW r, NEW s, NEW a, NEW b, NEW at, NEW k, Typed(i, r, s, a, b, at, k),
         ~ (i < Woken), NEW f \in Seq(Byte), Len(f) = 6
  PROVE  CardTyped(Command(Card(i, r, s, a, b, at, k), f))
<1> DEFINE c == Card(i, r, s, a, b, at, k)
           e == Command(c, f)
           op6 == f[1] % 64
           arg1 == 256 * f[2] + f[3]
           arg2 == 256 * f[4] + f[5]
           z == <<>>
           u == <<1>>
           t == <<0>>
           q == <<1, 0, 0, 1, 170>>
           p == <<0, Token>>
           m == -1
           o == 0
           L == Len512
<1>0. /\ i \in 0..Up /\ r \in Seq(Byte) /\ Len(r) < 6 /\ s \in Seq(Byte)
      /\ a \in m..(L - 1) /\ b \in -2..(L + 1) /\ at \in Nat /\ k \in Word16
  BY DEF Typed
<1>1. i \in Woken..Up /\ Woken \in Nat /\ Up = Woken + 4
  BY <1>0, Steps4
<1>2. c.initstat = i /\ c = Card(i, r, s, a, b, at, k)
  BY CardFields
<1>3. /\ Idle \in Byte /\ z \in Seq(Byte) /\ u \in Seq(Byte) /\ t \in Seq(Byte)
      /\ q \in Seq(Byte) /\ p \in Seq(Byte) /\ Len(z) < 6 /\ o \in Word16
  BY Answered
<1>4. arg2 \in Nat
  <2>1. f[4] \in Byte /\ f[5] \in Byte
    OBVIOUS
  <2>2. f[4] \in Nat /\ f[5] \in Nat
    BY <2>1, ByteIs
  <2> QED
    BY <2>2
<1>5. m \in m..(L - 1) /\ m \in -2..(L + 1) /\ o \in m..(L - 1)
  BY BoundsAssumption
<1>8. /\ i = Woken => e = IF op6 = 0 THEN StepOn(c, u) ELSE Restart(c)
      /\ i = Woken + 1 => e = IF op6 = 8 /\ arg2 = 426 THEN StepOn(c, q) ELSE Restart(c)
      /\ i = Woken + 2 => e = IF op6 = 55 THEN StepOn(c, u) ELSE Restart(c)
      /\ i = Woken + 3 => e = IF op6 = 41 /\ arg1 = 16384 THEN StepOn(c, t) ELSE Restart(c)
      /\ i = Up => e = CommandUp(c, op6, arg2)
  <2>1. c.initstat \in Woken..Up
    BY <1>1, <1>2
  <2> HIDE DEF c
  <2> QED
    BY <1>2, <2>1, CommandIs
<1> HIDE DEF c, e, op6, arg1, arg2, z, u, t, q, p, m, o, L
<1>6. ASSUME NEW x \in {u, t, q}, i < Up PROVE CardTyped(StepOn(c, x)) /\ CardTyped(Restart(c))
  <2>1. StepOn(c, x) = Card(i + 1, z, x, a, b, at, k) /\ Restart(c) = Card(Woken, z, z, a, b, at, k)
    BY <1>2, StepOnIs DEF z
  <2>2. i + 1 \in 0..Up /\ Woken \in 0..Up /\ x \in Seq(Byte)
    BY <1>1, <1>3, <1>6
  <2>3. Typed(i + 1, z, x, a, b, at, k) /\ Typed(Woken, z, z, a, b, at, k)
    BY <1>0, <1>3, <2>2 DEF Typed, m, L
  <2> QED
    BY <2>1, <2>3, CardHas
<1>7. CardTyped(CommandUp(c, op6, arg2))
  <2>1. CommandUp(c, op6, arg2) =
           IF op6 = 17 THEN Card(i, z, p, o, b, arg2, o)
           ELSE IF op6 = 24 THEN Card(i, z, t, a, m, arg2, o)
           ELSE Card(i, z, t, a, b, at, k)
    BY <1>2, CommandUpIs DEF z, p, t, o, m
  <2>2. /\ Typed(i, z, p, o, b, arg2, o) /\ Typed(i, z, t, a, m, arg2, o)
        /\ Typed(i, z, t, a, b, at, k)
    BY <1>0, <1>3, <1>4, <1>5 DEF Typed, m, L
  <2>3. /\ CardTyped(Card(i, z, p, o, b, arg2, o)) /\ CardTyped(Card(i, z, t, a, m, arg2, o))
        /\ CardTyped(Card(i, z, t, a, b, at, k))
    BY <2>2, CardHas
  <2> QED
    BY <2>1, <2>3
<1>9. i = Woken \/ i = Woken + 1 \/ i = Woken + 2 \/ i = Woken + 3 \/ i = Up
  BY <1>1
<1>10. CardTyped(e)
  <2>1. CASE i < Up
    <3>1. CardTyped(Restart(c)) /\ CardTyped(StepOn(c, u)) /\ CardTyped(StepOn(c, t)) /\ CardTyped(StepOn(c, q))
      BY <1>6, <2>1
    <3>2. i # Up
      BY <1>1, <2>1
    <3> QED
      BY <1>8, <1>9, <3>1, <3>2
  <2>2. CASE i = Up
    BY <1>7, <1>8, <2>2
  <2> QED
    BY <1>1, <2>1, <2>2
<1> QED
  BY <1>10 DEF c, e

\* A byte of a sector.
LEMMA GotTyped ==
  ASSUME NEW f \in Files, NEW at, NEW a \in 0..(Len512 - 1)
  PROVE  (IF at \in Sectors THEN f[at][a + 1] ELSE Idle) \in Byte
<1>1. Len512 \in Nat
  BY BoundsAssumption
<1>2. a + 1 \in 1..Len512
  BY <1>1
<1>3. at \in Sectors => f[at] \in [1..Len512 -> Byte]
  BY DEF Files
<1> QED
  BY <1>2, <1>3, Answered

\* A byte put into one.
LEMMA PutTyped ==
  ASSUME NEW f \in Files, NEW at, NEW b \in Int, NEW v \in Byte
  PROVE  (IF at \in Sectors /\ b \in 0..(Len512 - 1) THEN WithByte(f, at, b + 1, v) ELSE f) \in Files
<1>1. Len512 \in Nat
  BY BoundsAssumption
<1>2. CASE at \in Sectors /\ b \in 0..(Len512 - 1)
  <2> DEFINE i == b + 1
             p == f[at]
             q == [p EXCEPT ![i] = v]
  <2>1. i \in 1..Len512 /\ p \in [1..Len512 -> Byte]
    BY <1>1, <1>2 DEF Files
  <2> HIDE DEF i, p
  <2>2. q \in [1..Len512 -> Byte]
    BY <2>1
  <2> HIDE DEF q
  <2>3. [f EXCEPT ![at] = q] \in Files
    BY <1>2, <2>2 DEF Files
  <2> QED
    BY <1>2, <2>3 DEF WithByte, q, p, i
<1>3. CASE ~ (at \in Sectors /\ b \in 0..(Len512 - 1))
  BY <1>3
<1> QED
  BY <1>2, <1>3

\* An exchange of a byte, of whatever the card is in the middle.
LEMMA SpixTyped ==
  ASSUME NEW l, NEW n \in Nat, LineTyped(l, n), NEW v \in Byte
  PROVE  LineTyped(Spix(l, v), n + 1)
<1>1. PICK c, f, g : /\ l = Line(c, f, g) /\ CardTyped(c) /\ f \in Files
                     /\ g \in Seq(Byte) /\ Len(g) = n
  BY Zenon DEF LineTyped
<1>2. PICK i, r, s, a, b, at, k : c = Card(i, r, s, a, b, at, k) /\ Typed(i, r, s, a, b, at, k)
  BY <1>1, Zenon DEF CardTyped
<1> DEFINE L == Len512
           z == <<>>
           x == Spix(Line(Card(i, r, s, a, b, at, k), f, g), v)
<1>3. /\ i \in 0..Up /\ r \in Seq(Byte) /\ Len(r) < 6 /\ s \in Seq(Byte)
      /\ a \in -1..(L - 1) /\ b \in -2..(L + 1) /\ at \in Nat /\ k \in Word16
  BY <1>2 DEF Typed
<1>4. i \in Int /\ a \in Int /\ b \in Int /\ L \in Nat \ {0} /\ Woken \in Nat /\ Up = Woken + 4
  BY <1>3, BoundsAssumption, Steps4
<1>5. z \in Seq(Byte) /\ Len(z) < 6 /\ Idle \in Byte
  BY Answered
<1> HIDE DEF L, x
<1>6. CASE i < Woken
  <2>1. x = Line(Card(i + 1, r, s, a, b, at, k), f, Append(g, Idle))
    BY <1>4, <1>6, AsleepSpix DEF x
  <2>2. i + 1 \in 0..Up
    BY <1>3, <1>4, <1>6
  <2>3. Typed(i + 1, r, s, a, b, at, k)
    BY <1>3, <2>2 DEF Typed, L
  <2> QED
    BY <1>1, <1>2, <1>5, <2>1, <2>3, CardHas, LineGets DEF x
<1>7. CASE ~ (i < Woken) /\ s # <<>>
  <2>1. x = Line(Card(i, r, Tail(s), a, b, at, k), f, Append(g, Head(s)))
    BY <1>4, <1>7, SendSpix DEF x
  <2> DEFINE t == Tail(s)
             h == Head(s)
  <2>2. t \in Seq(Byte) /\ h \in Byte
    BY <1>3, <1>7
  <2> HIDE DEF t, h
  <2>3. Typed(i, r, t, a, b, at, k)
    BY <1>3, <2>2 DEF Typed, L
  <2>4. LineTyped(Line(Card(i, r, t, a, b, at, k), f, Append(g, h)), n + 1)
    BY <1>1, <2>2, <2>3, CardHas, LineGets
  <2> QED
    BY <1>1, <1>2, <2>1, <2>4 DEF x, t, h
<1>8. CASE ~ (i < Woken) /\ s = <<>> /\ a >= 0
  <2> DEFINE w == IF at \in Sectors THEN f[at][a + 1] ELSE Idle
             y == CardCrc16(k, w)
             d == ReadOn(i, r, s, a, b, at, k, y)
             h == <<High(y), Low(y)>>
             m == -1
  <2>1. w \in Byte
    <3>1. a \in 0..(Len512 - 1)
      BY <1>3, <1>8 DEF L
    <3> QED
      BY <1>1, <3>1, GotTyped
  <2>2. x = Line(d, f, Append(g, w))
    BY <1>4, <1>8, ReadSpix DEF x
  <2> HIDE DEF w
  <2>3. y \in Word16
    BY <1>3, <2>1, CrcTyped
  <2> HIDE DEF y
  <2>4. h \in Seq(Byte)
    BY <2>3, HalvesTyped
  <2>5. d = IF a + 1 = L THEN Card(i, r, h, m, b, at, k) ELSE Card(i, r, s, a + 1, b, at, y)
    BY DEF ReadOn, L
  <2> HIDE DEF h, d, m
  <2>6. m \in -1..(L - 1) /\ (a + 1 # L => a + 1 \in -1..(L - 1))
    BY <1>3, <1>4, <1>8 DEF m
  <2>7. CASE a + 1 = L
    <3>1. Typed(i, r, h, m, b, at, k)
      BY <1>3, <2>4, <2>6 DEF Typed, L
    <3> QED
      BY <2>5, <2>7, <3>1, <1>1, <1>2, <2>1, <2>2, CardHas, LineGets DEF x
  <2>8. CASE a + 1 # L
    <3>1. Typed(i, r, s, a + 1, b, at, y)
      BY <1>3, <2>3, <2>6, <2>8 DEF Typed, L
    <3> QED
      BY <2>5, <2>8, <3>1, <1>1, <1>2, <2>1, <2>2, CardHas, LineGets DEF x
  <2> QED
    BY <2>7, <2>8
<1>9. CASE ~ (i < Woken) /\ s = <<>> /\ a < 0 /\ b >= -1
  <2> DEFINE w == IF v = Idle THEN -1 ELSE IF v = Token THEN 0 ELSE -2
             q == IF at \in Sectors /\ b \in 0..(Len512 - 1) THEN WithByte(f, at, b + 1, v) ELSE f
             p == <<5>>
             o == -2
             d == IF b = -1 THEN Card(i, r, s, a, w, at, k)
                  ELSE IF b <= Len512 THEN Card(i, r, s, a, b + 1, at, k)
                  ELSE Card(i, r, p, a, o, at, k)
  <2>1. b \in -1..(Len512 + 1)
    BY <1>3, <1>4, <1>9 DEF L
  <2>2. x = Line(d, q, Append(g, Idle))
    BY <1>4, <1>9, <2>1, WriteSpix DEF x
  <2>3. q \in Files
    BY <1>1, <1>4, PutTyped
  <2>4. w \in -2..(L + 1) /\ o \in -2..(L + 1) /\ (b <= Len512 => b + 1 \in -2..(L + 1))
    BY <1>3, <1>4, <1>9 DEF L
  <2>5. p \in Seq(Byte)
    BY Answered
  <2> HIDE DEF w, q, p, o
  <2>6. Typed(i, r, s, a, w, at, k) /\ Typed(i, r, p, a, o, at, k)
        /\ (b <= Len512 => Typed(i, r, s, a, b + 1, at, k))
    BY <1>3, <2>4, <2>5 DEF Typed, L
  <2>7. CardTyped(d)
    BY <2>6, CardHas
  <2> HIDE DEF d
  <2> QED
    BY <1>1, <1>2, <1>5, <2>2, <2>3, <2>7, LineGets DEF x
<1>10. CASE ~ (i < Woken) /\ s = <<>> /\ a < 0 /\ b < -1 /\ r = <<>> /\ ~ Opens(v)
  <2>1. x = Line(Card(i, r, s, a, b, at, k), f, Append(g, Idle))
    BY <1>4, <1>10, SilentSpix DEF x
  <2> QED
    BY <1>1, <1>2, <1>5, <2>1, LineGets DEF x
<1>11. CASE ~ (i < Woken) /\ s = <<>> /\ a < 0 /\ b < -1 /\ ~ (r = <<>> /\ ~ Opens(v)) /\ Len(r) < 5
  <2> DEFINE h == Append(r, v)
  <2>1. x = Line(Card(i, h, s, a, b, at, k), f, Append(g, Idle))
    BY <1>4, <1>11, GatherSpix DEF x
  <2>2. h \in Seq(Byte) /\ Len(h) < 6
    BY <1>3, <1>11
  <2> HIDE DEF h
  <2>3. Typed(i, h, s, a, b, at, k)
    BY <1>3, <2>2 DEF Typed, L
  <2> QED
    BY <1>1, <1>2, <1>5, <2>1, <2>3, CardHas, LineGets DEF x
<1>12. CASE ~ (i < Woken) /\ s = <<>> /\ a < 0 /\ b < -1 /\ ~ (Len(r) < 5)
  <2> DEFINE h == Append(r, v)
             d == Command(Card(i, r, s, a, b, at, k), h)
  <2>1. r # <<>> /\ h \in Seq(Byte) /\ Len(h) = 6
    BY <1>3, <1>12
  <2>2. x = Line(d, f, Append(g, Idle))
    BY <1>4, <1>12, <2>1, CommandSpix DEF x
  <2> HIDE DEF h
  <2>3. CardTyped(d)
    BY <1>2, <1>12, <2>1, CommandTyped
  <2> HIDE DEF d
  <2> QED
    BY <1>1, <1>2, <1>5, <2>2, <2>3, LineGets DEF x
<1> QED
  BY <1>3, <1>4, <1>6, <1>7, <1>8, <1>9, <1>10, <1>11, <1>12

\* A run starts on a typed line with nothing got.
LEMMA BeginTyped ==
  ASSUME NEW s, NEW m, LineTyped(s, m)
  PROVE  LineTyped(Begin(s), 0)
<1> DEFINE z == <<>>
<1>1. PICK c, f, g : s = Line(c, f, g) /\ CardTyped(c) /\ f \in Files
  BY Zenon DEF LineTyped
<1>2. Begin(s) = Line(c, f, z)
  BY <1>1, BeginLine
<1>3. z \in Seq(Byte) /\ Len(z) = 0 /\ 0 \in Nat
  OBVIOUS
<1> HIDE DEF z
<1> QED
  BY <1>1, <1>2, <1>3, LineHas

\* What is sent, byte by byte.
LEMMA SendsTyped ==
  ASSUME NEW s, NEW m, LineTyped(s, m), NEW bytes \in Seq(Byte)
  PROVE  LineTyped(Sends(s, bytes), Len(bytes))
<1> DEFINE n == Len(bytes)
<1>1. n \in Nat /\ \A i \in 1..n : bytes[i] \in Byte
  OBVIOUS
<1>2. PICK h : Trace(h, "send", s, bytes, n) /\ Sends(s, bytes) = h[n]
  BY <1>1, SendsTrace
<1> HIDE DEF n
<1> DEFINE S == {i \in 0..n : LineTyped(h[i], i)}
<1>3. 0 \in S
  BY <1>1, <1>2, BeginTyped DEF Trace
<1>4. ASSUME NEW i \in 1..n, i - 1 \in S PROVE i \in S
  <2> DEFINE j == i - 1
             v == bytes[i]
  <2>1. j \in Nat /\ j + 1 = i /\ LineTyped(h[j], j) /\ v \in Byte
    BY <1>1, <1>4
  <2>2. h[i] = Spix(h[j], v)
    BY <1>2 DEF Trace, Go
  <2> HIDE DEF j, v
  <2>3. LineTyped(Spix(h[j], v), j + 1)
    BY <2>1, SpixTyped
  <2>4. LineTyped(h[i], i)
    BY <2>1, <2>2, <2>3
  <2> QED
    BY <2>4
<1>5. 0..n \subseteq S
  <2> HIDE DEF S
  <2> QED
    BY <1>1, <1>3, <1>4, UpTo
<1> QED
  BY <1>1, <1>2, <1>5 DEF n

\* Silence, so many times.
LEMMA IdlesTyped ==
  ASSUME NEW s, NEW m, LineTyped(s, m), NEW n \in Nat
  PROVE  LineTyped(Idles(s, n), n)
<1> DEFINE x == [i \in 1..n |-> Idle]
<1>1. x \in Seq(Byte) /\ Len(x) = n /\ Idles(s, n) = Sends(s, x)
  BY Answered DEF Idles
<1> HIDE DEF x
<1> QED
  BY <1>1, SendsTyped

\* A damaged byte is a byte.
LEMMA HitsTyped ==
  ASSUME NEW hit \in Hits
  PROVE  hit.as \in Byte
<1>1. None.as \in Byte
  BY DEF None, Byte, Idle
<1>2. Damaged \subseteq Byte
  BY BytesAssumption
<1>3. CASE hit = None
  BY <1>1, <1>3
<1>4. CASE hit # None
  <2>1. \E ps, ns : hit \in [part : ps, nth : ns, as : Damaged]
    BY <1>4 DEF Hits
  <2>2. PICK ps, ns : hit \in [part : ps, nth : ns, as : Damaged]
    BY <2>1
  <2>3. hit.as \in Damaged
    BY <2>2
  <2> QED
    BY <1>2, <2>3
<1> QED
  BY <1>3, <1>4

LEMMA HitTyped ==
  ASSUME NEW l, NEW n, LineTyped(l, n), NEW i, NEW hit, hit.as \in Byte
  PROVE  LineTyped(Hit(l, i, hit), n)
<1>1. PICK c, f, g : /\ l = Line(c, f, g) /\ CardTyped(c) /\ f \in Files
                     /\ g \in Seq(Byte) /\ Len(g) = n
  BY Zenon DEF LineTyped
<1> DEFINE b == hit.as
           x == [g EXCEPT ![i] = b]
           y == IF i \in DOMAIN g THEN [g EXCEPT ![i] = hit.as] ELSE g
<1>2. n \in Nat /\ DOMAIN g = 1..Len(g)
  BY <1>1
<1>3. i \in DOMAIN g => x \in Seq(Byte) /\ Len(x) = Len(g)
  <2> HIDE DEF b
  <2>1. b \in Byte
    BY DEF b
  <2> QED
    BY <1>1, <1>2, <2>1, ExceptSeq
<1>4. y \in Seq(Byte) /\ Len(y) = n
  <2>1. y = x \/ y = g
    OBVIOUS
  <2>2. y = IF i \in DOMAIN g THEN x ELSE g
    OBVIOUS
  <2> HIDE DEF x, y
  <2> QED
    BY <1>1, <1>3, <2>2
<1>5. Hit(l, i, hit) = Line(c, f, y)
  BY <1>1, HitLine
<1> HIDE DEF y
<1> QED
  BY <1>1, <1>2, <1>4, <1>5, LineHas

\* A wait gets at least one byte, whatever it hears.
LEMMA WaitTyped ==
  ASSUME NEW s, NEW m, LineTyped(s, m), NEW part, NEW hit, hit.as \in Byte
  PROVE  \E n \in Nat \ {0} : LineTyped(wait(s, part, hit), n)
<1>1. PICK h : Trace(h, "hit", s, Heard(part, hit), Tries) /\ wait(s, part, hit) = h[Tries]
  BY HitTrace
<1>2. Tries \in Nat \ {0}
  BY BoundsAssumption
<1> DEFINE S == {i \in 0..Tries : \E n \in Nat : LineTyped(h[i], n) /\ (i # 0 => n # 0)}
<1>3. 0 \in S
  <2>1. LineTyped(h[0], 0)
    BY <1>1, BeginTyped DEF Trace
  <2> QED
    BY <1>2, <2>1
<1>4. ASSUME NEW i \in 1..Tries, i - 1 \in S PROVE i \in S
  <2> DEFINE j == i - 1
             l == h[j]
             v == <<i, part, hit>>
             u == Spix(l, Idle)
  <2>1. PICK n \in Nat : LineTyped(l, n)
    BY <1>4
  <2>2. h[i] = Go("hit", l, v)
    <3>1. Heard(part, hit)[i] = v
      BY DEF Heard
    <3> HIDE DEF v
    <3> QED
      BY <1>1, <3>1 DEF Trace
  <2>5. v[1] = i /\ v[2] = part /\ v[3] = hit
    OBVIOUS
  <2> HIDE DEF l, v
  <2>3. CASE l.got # <<>> /\ Last(l.got) # Idle
    <3>1. h[i] = l
      BY <2>2, <2>3 DEF Go
    <3>2. PICK c, f, g : l = Line(c, f, g) /\ g \in Seq(Byte) /\ Len(g) = n
      BY <2>1, Zenon DEF LineTyped
    <3>3. g # <<>>
      BY <2>3, <3>2, LineFields
    <3>4. n # 0
      BY <3>2, <3>3
    <3> QED
      BY <2>1, <3>1, <3>4
  <2>4. CASE ~ (l.got # <<>> /\ Last(l.got) # Idle)
    <3>1. h[i] = u \/ h[i] = Hit(u, i, hit)
      BY <2>2, <2>4, <2>5 DEF Go, Hears
    <3>2. LineTyped(u, n + 1)
      BY <2>1, Answered, SpixTyped
    <3> DEFINE k == n + 1
    <3>3. k \in Nat /\ k # 0 /\ LineTyped(u, k)
      BY <3>2
    <3> HIDE DEF k, u
    <3>4. LineTyped(Hit(u, i, hit), k)
      BY <3>3, HitTyped
    <3> QED
      BY <3>1, <3>3, <3>4
  <2> QED
    BY <2>3, <2>4
<1>5. 0..Tries \subseteq S
  <2> HIDE DEF S
  <2> QED
    BY <1>2, <1>3, <1>4, UpTo
<1> QED
  BY <1>1, <1>2, <1>5

\* What is read behind an answer.
LEMMA BehindTyped ==
  ASSUME NEW s, NEW m, LineTyped(s, m), NEW n \in Nat, NEW hit, hit.as \in Byte
  PROVE  LineTyped(Behind(s, n, hit), n)
<1> DEFINE t == Idles(s, n)
<1>1. LineTyped(t, n)
  BY IdlesTyped
<1>2. Behind(s, n, hit) = t \/ Behind(s, n, hit) = Hit(t, hit.nth, hit)
  BY DEF Behind
<1> HIDE DEF t
<1>3. LineTyped(Hit(t, hit.nth, hit), n)
  BY <1>1, HitTyped
<1> QED
  BY <1>1, <1>2, <1>3

-----------------------------------------------------------------------------
(* The bytes the driver sends.                                             *)

\* A round of the commands' CRC keeps a byte.
LEMMA Crc7Typed ==
  ASSUME NEW c \in Byte8
  PROVE  Crc7Round(c) \in Byte8
<1> DEFINE x == Xor((2 * c) % 256, 18, 8)
<1>1. Crc7Round(c) = IF 2 * c >= 256 THEN x ELSE 2 * c
  BY DEF Crc7Round
<1>2. x \in Nat /\ x < 256
  BY XorByte
<1> HIDE DEF x
<1>3. c \in Nat
  BY DEF Byte8
<1> QED
  BY <1>1, <1>2, <1>3 DEF Byte8

\* The commands' CRC of a byte more is a byte.
LEMMA Crc7Byte ==
  ASSUME NEW c, NEW b
  PROVE  crc7(c, b) \in Byte8
<1> DEFINE y == Xor(b, c, 8)
           step == [i \in 1..8 |-> [x \in Byte8 |-> Crc7Round(x)]]
           Step(f) == [i \in 0..8 |-> IF i = 0 THEN y ELSE Crc7Round(f[i - 1])]
           s == CHOOSE f : f = Step(f)
<1>0. y \in Byte8
  BY XorByte DEF Byte8
<1>1. step \in [1..8 -> [Byte8 -> Byte8]]
  BY Crc7Typed
<1>7. crc7(c, b) = Rounds(Crc7Round, y)
  BY DEF crc7
<1> HIDE DEF y
<1>2. PICK f : Steps(f, Byte8, y, 8, step)
  <2> DEFINE n == 8
  <2>1. n \in Nat /\ step \in [1..n -> [Byte8 -> Byte8]] /\ n = 8
    BY <1>1
  <2> HIDE DEF step, n
  <2>2. \E f : Steps(f, Byte8, y, n, step)
    BY <1>0, <2>1, Repeated
  <2> QED
    BY <2>1, <2>2
<1>3. f = [i \in 0..8 |-> f[i]] /\ \A i \in 0..8 : f[i] \in Byte8
  BY <1>2 DEF Steps
<1>4. ASSUME NEW i \in 0..8 PROVE f[i] = IF i = 0 THEN y ELSE Crc7Round(f[i - 1])
  <2>1. f[i] = IF i = 0 THEN y ELSE step[i][f[i - 1]]
    BY <1>2 DEF Steps
  <2>2. i # 0 => i \in 1..8 /\ i - 1 \in 0..8
    OBVIOUS
  <2>3. i # 0 => step[i][f[i - 1]] = Crc7Round(f[i - 1])
    BY <1>3, <2>2
  <2> QED
    BY <2>1, <2>3
<1>5. s = Step(s)
  <2>1. f = Step(f)
    BY <1>3, <1>4
  <2> QED
    BY <2>1
<1>6. Rounds(Crc7Round, y) = s[8]
  BY DEF Rounds
<1> HIDE DEF s
<1> DEFINE S == {i \in 0..8 : s[i] \in Byte8}
           n == 8
<1>8. 0 \in S
  BY <1>0, <1>5
<1>9. ASSUME NEW i \in 1..n, i - 1 \in S PROVE i \in S
  <2>1. i \in 0..8 /\ i # 0
    OBVIOUS
  <2>2. s[i] = Crc7Round(s[i - 1])
    BY <1>5, <2>1
  <2> QED
    BY <1>9, <2>1, <2>2, Crc7Typed
<1>10. 0..n \subseteq S /\ n = 8
  <2> DEFINE m == n
  <2>1. m \in Nat /\ m = n
    OBVIOUS
  <2> HIDE DEF S, m
  <2>2. 0..m \subseteq S
    <3>1. \A i \in 1..m : i - 1 \in S => i \in S
      BY <1>9, <2>1
    <3> QED
      BY <1>8, <2>1, <3>1, UpTo
  <2> QED
    BY <2>1, <2>2
<1>11. s[8] \in Byte8
  BY <1>10
<1> QED
  BY <1>6, <1>7, <1>11

\* The CRC of a command is a byte.
LEMMA Crc7Is ==
  ASSUME NEW data, Len(data) \in Nat
  PROVE  Crc(crc7, data) \in Byte8
<1> DEFINE n == Len(data)
           z == 0
           step == [i \in 1..n |-> [x \in Byte8 |-> crc7(x, data[i])]]
           Step(f) == [i \in 0..n |-> IF i = 0 THEN 0
                         ELSE LET c == f[i - 1] IN IF c \in Nat THEN crc7(c, data[i]) ELSE 0]
           a == CHOOSE f : f = Step(f)
<1>0. n \in Nat /\ z \in Byte8 /\ z = 0
  BY DEF Byte8
<1>1. step \in [1..n -> [Byte8 -> Byte8]]
  BY Crc7Byte
<1>2. PICK f : Steps(f, Byte8, z, n, step)
  <2> HIDE DEF step, n, z
  <2> QED
    BY <1>0, <1>1, Repeated
<1>3. f = [i \in 0..n |-> f[i]] /\ \A i \in 0..n : f[i] \in Byte8 /\ f[i] \in Nat
  BY <1>2 DEF Steps, Byte8
<1>4. ASSUME NEW i \in 0..n PROVE f[i] = IF i = 0 THEN 0 ELSE crc7(f[i - 1], data[i])
  <2>1. f[i] = IF i = 0 THEN 0 ELSE step[i][f[i - 1]]
    BY <1>2 DEF Steps
  <2>2. i # 0 => i \in 1..n /\ i - 1 \in 0..n
    BY <1>0
  <2>3. i # 0 => step[i][f[i - 1]] = crc7(f[i - 1], data[i])
    BY <1>3, <2>2
  <2> QED
    BY <2>1, <2>3
<1> HIDE DEF n
<1>5. \A i \in 0..n : i = 0 \/ (i \in 1..n /\ i - 1 \in 0..n)
  BY <1>0
<1>6. a = Step(a)
  <2>1. f = Step(f)
    BY <1>3, <1>4, <1>5
  <2> QED
    BY <2>1
<1>7. Crc(crc7, data) = a[n]
  BY DEF Crc, n
<1> HIDE DEF a
<1>8. n \in 0..n
  BY <1>0
<1>9. 0 \in Byte8
  BY <1>0
<1> QED
  BY <1>5, <1>6, <1>7, <1>8, <1>9, Crc7Byte

\* A frame is made of bytes,
LEMMA FrameTyped ==
  ASSUME NEW c \in Byte, NEW a1 \in Word16, NEW a2 \in Word16
  PROVE  Frame(c, a1, a2) \in Seq(Byte)
<1> DEFINE h1 == High(a1)
           l1 == Low(a1)
           h2 == High(a2)
           l2 == Low(a2)
           f == <<c, h1, l1, h2, l2>>
           k == Crc(crc7, f)
           x == 2 * (k \div 2) + 1
<1>1. h1 \in Byte /\ l1 \in Byte /\ h2 \in Byte /\ l2 \in Byte
  BY HalvesTyped
<1>2. Frame(c, a1, a2) = Append(f, x)
  BY DEF Frame
<1> HIDE DEF h1, l1, h2, l2
<1>3. f \in Seq(Byte) /\ Len(f) \in Nat
  BY <1>1
<1> HIDE DEF f
<1>4. k \in Nat /\ k < 256
  BY <1>3, Crc7Is DEF Byte8
<1> HIDE DEF k
<1>5. x \in Nat /\ x < 256
  BY <1>4
<1> HIDE DEF x
<1>6. x \in Byte
  BY <1>5, ByteIs
<1> QED
  BY <1>2, <1>3, <1>6

\* and so is a packet.
LEMMA PacketTyped ==
  ASSUME NEW data \in [1..Len512 -> Byte]
  PROVE  Packet(data) \in Seq(Byte)
<1> DEFINE k == CRC16(data)
           hi == High(k)
           lo == Low(k)
           h == <<Idle, Token>>
           t == <<hi, lo>>
<1>1. Len512 \in Nat
  BY BoundsAssumption
<1>2. data \in Seq(Byte) /\ Len(data) = Len512
  BY <1>1
<1>3. Bytes(data)
  <2>1. Byte \subseteq Byte8
    BY ByteIs DEF Byte8
  <2> QED
    BY <1>1, <1>2, <2>1 DEF Bytes
<1>4. k \in Word16
  BY <1>3, FourSame DEF CRC16
<1>5. Packet(data) = (h \o data) \o t
  BY DEF Packet
<1> HIDE DEF k
<1>6. hi \in Byte /\ lo \in Byte /\ Idle \in Byte /\ Token \in Byte
  BY <1>4, HalvesTyped, ByteIs DEF Idle, Token
<1> HIDE DEF hi, lo
<1>7. h \in Seq(Byte) /\ t \in Seq(Byte)
  BY <1>6
<1> HIDE DEF h, t
<1> QED
  BY <1>2, <1>5, <1>7

-----------------------------------------------------------------------------
(* What each step does to the types, whatever came damaged.                *)

\* A line as it stands when a step begins.
LEMMA NowTyped ==
  ASSUME CardTyped(card), file \in Files
  PROVE  LineTyped(Now, 0)
<1> DEFINE z == <<>>
<1>1. Now = Line(card, file, z)
  BY NowIs
<1>2. z \in Seq(Byte) /\ Len(z) = 0 /\ 0 \in Nat
  OBVIOUS
<1> HIDE DEF z
<1> QED
  BY <1>1, <1>2, LineHas

\* A command with its answer,
LEMMA CmdTyped ==
  ASSUME CardTyped(card), file \in Files, NEW c \in Byte, NEW a1 \in Word16, NEW a2 \in Word16,
         NEW hit, hit.as \in Byte
  PROVE  \E n \in Nat \ {0} : LineTyped(cmd(c, a1, a2, hit), n)
<1> DEFINE w == wait(Now, "before", hit)
           f == Frame(c, a1, a2)
           s == Sends(w, f)
<1>1. LineTyped(Now, 0)
  BY NowTyped
<1>2. PICK n \in Nat \ {0} : LineTyped(w, n)
  BY <1>1, WaitTyped
<1>3. f \in Seq(Byte)
  BY FrameTyped
<1>4. cmd(c, a1, a2, hit) = wait(s, "wait", hit)
  BY DEF cmd
<1> HIDE DEF w, f
<1>5. LineTyped(s, Len(f))
  BY <1>2, <1>3, SendsTyped
<1> HIDE DEF s
<1>6. PICK k \in Nat \ {0} : LineTyped(wait(s, "wait", hit), k)
  BY <1>5, WaitTyped
<1> QED
  BY <1>4, <1>6

\* and what comes after it.
LEMMA R7Typed ==
  ASSUME CardTyped(card), file \in Files, NEW c \in Byte, NEW a1 \in Word16, NEW a2 \in Word16,
         NEW hit, hit.as \in Byte
  PROVE  LineTyped(R7(c, a1, a2, hit), 5)
<1> DEFINE k == 4
           s == cmd(c, a1, a2, hit)
           t == Behind(s, k, hit)
<1>1. k \in Nat
  OBVIOUS
<1>2. PICK n \in Nat \ {0} : LineTyped(s, n)
  BY CmdTyped
<1>3. R7(c, a1, a2, hit) = [t EXCEPT !.got = <<Last(s.got)>> \o t.got]
  BY DEF R7
<1> HIDE DEF s
<1>4. PICK d, f, g : s = Line(d, f, g) /\ g \in Seq(Byte) /\ Len(g) = n
  BY <1>2, Zenon DEF LineTyped
<1> DEFINE r == Last(s.got)
<1>5. r \in Byte
  BY <1>4, LineFields DEF Last
<1>6. LineTyped(t, k)
  <2> HIDE DEF k
  <2> QED
    BY <1>1, <1>2, BehindTyped
<1> HIDE DEF t
<1>7. PICK e, h, y : /\ t = Line(e, h, y) /\ CardTyped(e) /\ h \in Files
                     /\ y \in Seq(Byte) /\ Len(y) = k
  BY <1>6, Zenon DEF LineTyped
<1> DEFINE z == <<r>>
           x == z \o y
<1>8. z = <<r>> /\ x = z \o y
  OBVIOUS
<1>9. R7(c, a1, a2, hit) = Line(e, h, x)
  <2>1. t.got = y
    BY <1>7, LineFields
  <2>2. R7(c, a1, a2, hit) = [t EXCEPT !.got = x]
    BY <1>3, <2>1
  <2> HIDE DEF x
  <2>3. [t EXCEPT !.got = x] = Line(e, h, x)
    BY <1>7 DEF Line
  <2> QED
    BY <2>2, <2>3
<1> HIDE DEF r, z, x
<1>14. y \in Seq(Byte)
  BY <1>7
<1>10. x \in Seq(Byte)
  BY <1>5, <1>8, <1>14, Put1
<1>11. Len(x) = Len(y) + 1
  BY <1>5, <1>8, <1>14, Put1
<1> DEFINE five == 5
<1>12. Len(x) = five /\ five \in Nat
  BY <1>7, <1>11
<1> HIDE DEF five
<1>13. LineTyped(Line(e, h, x), five)
  BY <1>7, <1>10, <1>12, LineHas
<1> QED
  BY <1>9, <1>13 DEF five

\* What the driver takes over from a line has its types.
LEMMA TakesTyped ==
  ASSUME NEW s, NEW n, LineTyped(s, n), Takes(s)
  PROVE  CardTyped(card') /\ file' \in Files
<1>1. PICK c, f, g : s = Line(c, f, g) /\ CardTyped(c) /\ f \in Files
  BY Zenon DEF LineTyped
<1>2. s.card = c /\ s.file = f
  BY <1>1, LineFields
<1> QED
  BY <1>1, <1>2 DEF Takes

\* The bytes of the codes and the words of the arguments.
LEMMA CodesTyped ==
  /\ 64 \in Byte /\ 72 \in Byte /\ 119 \in Byte /\ 105 \in Byte /\ 122 \in Byte
  /\ 81 \in Byte /\ 88 \in Byte
  /\ 0 \in Word16 /\ 426 \in Word16 /\ 16384 \in Word16
  BY DEF Byte, Word16

\* An address is two words, whichever way the card counts.
LEMMA AddressTyped ==
  ASSUME blkno \in Nat, half \in 1..2
  PROVE  Address[1] \in Word16 /\ Address[2] \in Word16
<1> DEFINE k == Sector(blkno, half)
           hi == k \div 128
           lo == (512 * k) % 65536
           m == (2 * blkno) % 65536
           t == (m + half - 1) % 65536
<1>1. m \in Nat /\ half \in Nat /\ half >= 1
  OBVIOUS
<1>2. k = t
  BY DEF Sector
<1> HIDE DEF m
<1>3. t \in Nat /\ t < 65536
  BY <1>1
<1> HIDE DEF t
<1>4. k \in Nat /\ k < 65536
  BY <1>2, <1>3
<1>5. Address = IF SDC_SDHC THEN <<0, k>> ELSE <<hi, lo>>
  BY DEF Address, badj
<1> HIDE DEF k
<1>6. hi \in Nat /\ hi < 65536 /\ lo \in Nat /\ lo < 65536
  BY <1>4
<1> HIDE DEF hi, lo
<1>7. k \in Word16 /\ hi \in Word16 /\ lo \in Word16 /\ 0 \in Word16
  BY <1>4, <1>6 DEF Word16
<1> QED
  BY <1>5, <1>7

-----------------------------------------------------------------------------
(* The invariant of any line.                                              *)

ControlTyped == op \in {"none", "SDC$", "SDC@", "SDC!"} /\ (op = "none" <=> pc = "none")
CountsTyped  == resets \in 0..Resets /\ half \in 1..2 /\ blkno \in Nat
BufTyped     == buf \in [1..2 -> [1..Len512 -> Byte]]
MediaTyped   == CardTyped(card) /\ file \in Files
TypedInv     == ControlTyped /\ CountsTyped /\ BufTyped /\ MediaTyped

\* It holds where the program starts.
LEMMA InitTyped ==
  ASSUME Init
  PROVE  TypedInv
<1> DEFINE z == <<>>
           a == -1
           b == -2
           o == 0
<1>1. Len512 \in Nat \ {0} /\ Resets \in Nat \ {0} /\ Wakes \in Nat \ {0}
  BY BoundsAssumption
<1>2. ControlTyped /\ CountsTyped
  BY <1>1 DEF Init, ControlTyped, CountsTyped
<1>3. Patterns \subseteq [1..Len512 -> Byte]
  BY BytesAssumption
<1>4. BufTyped
  <2>1. PICK p \in Patterns : buf = <<p, p>>
    BY DEF Init
  <2> QED
    BY <1>3, <2>1 DEF BufTyped
<1>5. file \in Files
  BY <1>3 DEF Init, Files
<1>6. card = Card(o, z, z, a, b, o, o)
  BY DEF Init, CardInit, Card
<1>7. /\ o \in 0..Up /\ a \in -1..(Len512 - 1) /\ b \in -2..(Len512 + 1) /\ o \in Nat
      /\ z \in Seq(Byte) /\ Len(z) < 6 /\ o \in Word16
  BY <1>1, Answered DEF Up
<1> HIDE DEF z, a, b, o
<1>8. Typed(o, z, z, a, b, o, o)
  BY <1>7 DEF Typed
<1>9. CardTyped(card)
  BY <1>6, <1>8, CardHas
<1> QED
  BY <1>2, <1>4, <1>5, <1>9 DEF TypedInv, MediaTyped

\* A step that goes on,
LEMMA GoesTyped ==
  ASSUME ControlTyped, pc # "none", NEW p, p # "none", Goes(p)
  PROVE  ControlTyped'
  BY DEF ControlTyped, Goes

\* ends,
LEMMA EndsTyped ==
  ASSUME NEW e, Ends(e)
  PROVE  ControlTyped'
  BY DEF ControlTyped, Ends

\* gives up,
LEMMA FailTyped ==
  ASSUME Fail
  PROVE  ControlTyped'
  BY EndsTyped DEF Fail

\* or waits leaves the control in order;
LEMMA SameTyped ==
  ASSUME ControlTyped, UNCHANGED <<op, pc>>
  PROVE  ControlTyped'
  BY DEF ControlTyped

\* and so does one that takes the next half.
LEMMA HalfTyped ==
  ASSUME ControlTyped, pc # "none", half \in 1..2, NEW p, p # "none", NextHalf(p)
  PROVE  ControlTyped' /\ half' \in 1..2
<1>1. CASE half = 1
  BY <1>1, GoesTyped DEF NextHalf
<1>2. CASE half # 1
  BY <1>2, EndsTyped DEF NextHalf
<1> QED
  BY <1>1, <1>2

\* The counts and the buffer, left alone.
LEMMA CountsSame ==
  ASSUME CountsTyped, UNCHANGED <<resets, half, blkno>>
  PROVE  CountsTyped'
  BY DEF CountsTyped

LEMMA BufSame ==
  ASSUME BufTyped, UNCHANGED buf
  PROVE  BufTyped'
  BY DEF BufTyped

LEMMA MediaSame ==
  ASSUME MediaTyped, UNCHANGED <<card, file>>
  PROVE  MediaTyped'
  BY DEF MediaTyped

\* The card after a command, and after what follows one.
LEMMA CmdKeeps ==
  ASSUME MediaTyped, NEW c \in Byte, NEW a1 \in Word16, NEW a2 \in Word16, NEW hit \in Hits
  PROVE  /\ Takes(cmd(c, a1, a2, hit)) => MediaTyped'
         /\ Takes(R7(c, a1, a2, hit)) => MediaTyped'
<1> DEFINE s == cmd(c, a1, a2, hit)
           r == R7(c, a1, a2, hit)
<1>1. CardTyped(card) /\ file \in Files
  BY DEF MediaTyped
<1>6. hit.as \in Byte
  BY HitsTyped
<1>2. PICK n \in Nat \ {0} : LineTyped(s, n)
  BY <1>1, <1>6, CmdTyped
<1>3. LineTyped(r, 5)
  BY <1>1, <1>6, R7Typed
<1> HIDE DEF s, r
<1>4. Takes(s) => MediaTyped'
  BY <1>2, TakesTyped DEF MediaTyped
<1>5. Takes(r) => MediaTyped'
  BY <1>3, TakesTyped DEF MediaTyped
<1> QED
  BY <1>4, <1>5 DEF s, r

-----------------------------------------------------------------------------
(* Each step keeps it.                                                     *)

\* A word is called.
LEMMA CallsTyped ==
  ASSUME TypedInv
  PROVE  /\ SDCinit => TypedInv'
         /\ \A b \in Blocks : SDCfetch(b) => TypedInv'
         /\ \A b \in Blocks, p1, p2 \in Patterns : SDCstore(b, p1, p2) => TypedInv'
<1>1. ASSUME SDCinit PROVE TypedInv'
  <2>1. ControlTyped'
    BY <1>1 DEF SDCinit, Calls, ControlTyped
  <2>2. CountsTyped'
    <3>1. Resets \in Nat \ {0}
      BY BoundsAssumption
    <3>2. resets' = Resets /\ UNCHANGED <<half, blkno>>
      BY <1>1 DEF SDCinit
    <3> QED
      BY <3>1, <3>2 DEF TypedInv, CountsTyped
  <2>3. BufTyped' /\ MediaTyped'
    BY <1>1, BufSame, MediaSame DEF SDCinit, NoSpix, TypedInv
  <2> QED
    BY <2>1, <2>2, <2>3 DEF TypedInv
<1>2. ASSUME NEW b \in Blocks, SDCfetch(b) PROVE TypedInv'
  <2>1. ControlTyped'
    BY <1>2 DEF SDCfetch, Calls, ControlTyped
  <2>2. CountsTyped'
    <3>1. b \in Nat
      BY BlocksAreWords
    <3>2. blkno' = b /\ half' = 1 /\ UNCHANGED resets
      BY <1>2 DEF SDCfetch
    <3> QED
      BY <3>1, <3>2 DEF TypedInv, CountsTyped
  <2>3. BufTyped' /\ MediaTyped'
    BY <1>2, BufSame, MediaSame DEF SDCfetch, NoSpix, TypedInv
  <2> QED
    BY <2>1, <2>2, <2>3 DEF TypedInv
<1>3. ASSUME NEW b \in Blocks, NEW p1 \in Patterns, NEW p2 \in Patterns, SDCstore(b, p1, p2)
      PROVE  TypedInv'
  <2>1. ControlTyped'
    BY <1>3 DEF SDCstore, Calls, ControlTyped
  <2>2. CountsTyped'
    <3>1. b \in Nat
      BY BlocksAreWords
    <3>2. blkno' = b /\ half' = 1 /\ UNCHANGED resets
      BY <1>3 DEF SDCstore
    <3> QED
      BY <3>1, <3>2 DEF TypedInv, CountsTyped
  <2>3. BufTyped'
    BY <1>3, BytesAssumption DEF SDCstore, BufTyped
  <2>4. MediaTyped'
    BY <1>3, MediaSame DEF SDCstore, NoSpix, TypedInv
  <2> QED
    BY <2>1, <2>2, <2>3, <2>4 DEF TypedInv
<1> QED
  BY <1>1, <1>2, <1>3

\* CMD0, again or not.
LEMMA ResetTyped ==
  ASSUME TypedInv, Reset
  PROVE  TypedInv'
<1>2. PICK hit \in Hits :
        /\ Takes(cmd(64, 0, 0, hit))
        /\ \/ Goes("cmd8") /\ UNCHANGED resets
           \/ resets > 1 /\ resets' = resets - 1 /\ UNCHANGED <<op, pc, err>>
           \/ Fail /\ UNCHANGED resets
  BY DEF Reset, Runs
<1>1. MediaTyped'
  BY <1>2, CmdKeeps, CodesTyped DEF TypedInv
<1>3. pc = "cmd0" /\ UNCHANGED <<blkno, half, buf>>
  BY DEF Reset
<1>4. ControlTyped'
  BY <1>2, <1>3, GoesTyped, FailTyped, SameTyped DEF TypedInv
<1>5. CountsTyped'
  <2>1. resets' = resets \/ (resets > 1 /\ resets' = resets - 1)
    BY <1>2
  <2>2. Resets \in Nat
    BY BoundsAssumption
  <2> QED
    BY <1>3, <2>1, <2>2 DEF TypedInv, CountsTyped
<1> QED
  BY <1>1, <1>3, <1>4, <1>5, BufSame DEF TypedInv

\* CMD8.
LEMMA VoltageTyped ==
  ASSUME TypedInv, CheckVoltage
  PROVE  TypedInv'
<1>1. pc = "cmd8" /\ UNCHANGED <<resets, blkno, half, buf>>
  BY DEF CheckVoltage
<1>3. PICK hit \in Hits : Takes(R7(72, 0, 426, hit)) /\ (Goes("cmd55") \/ Fail)
  BY DEF CheckVoltage, Runs
<1>2. MediaTyped'
  BY <1>3, CmdKeeps, CodesTyped DEF TypedInv
<1>4. ControlTyped'
  BY <1>1, <1>3, GoesTyped, FailTyped DEF TypedInv
<1> QED
  BY <1>1, <1>2, <1>4, CountsSame, BufSame DEF TypedInv

\* CMD55.
LEMMA AppTyped ==
  ASSUME TypedInv, AppCommand
  PROVE  TypedInv'
<1>1. pc = "cmd55" /\ UNCHANGED <<resets, blkno, half, buf>>
  BY DEF AppCommand
<1>3. PICK hit \in Hits : Takes(cmd(119, 0, 0, hit)) /\ (Goes("cmd41") \/ Fail)
  BY DEF AppCommand, Runs
<1>2. MediaTyped'
  BY <1>3, CmdKeeps, CodesTyped DEF TypedInv
<1>4. ControlTyped'
  BY <1>1, <1>3, GoesTyped, FailTyped DEF TypedInv
<1> QED
  BY <1>1, <1>2, <1>4, CountsSame, BufSame DEF TypedInv

\* CMD41.
LEMMA IdleTyped ==
  ASSUME TypedInv, LeaveIdle
  PROVE  TypedInv'
<1>1. pc = "cmd41" /\ UNCHANGED <<resets, blkno, half, buf>>
  BY DEF LeaveIdle
<1>3. PICK hit \in Hits : /\ Takes(cmd(105, 16384, 0, hit))
                          /\ Goes("cmd58") \/ Goes("cmd55") \/ Fail
  <2>1. PICK hit \in Hits :
          /\ Takes(cmd(105, 16384, 0, hit))
          /\ CASE Last(cmd(105, 16384, 0, hit).got) = 0 -> Goes("cmd58")
               [] Last(cmd(105, 16384, 0, hit).got) = 1 -> Goes("cmd55")
               [] OTHER -> Fail
    BY DEF LeaveIdle, Runs
  <2> DEFINE r == Last(cmd(105, 16384, 0, hit).got)
  <2>2. (CASE r = 0 -> Goes("cmd58") [] r = 1 -> Goes("cmd55") [] OTHER -> Fail)
    BY <2>1
  <2> HIDE DEF r
  <2>3. Goes("cmd58") \/ Goes("cmd55") \/ Fail
    BY <2>2
  <2> QED
    BY <2>1, <2>3
<1>2. MediaTyped'
  BY <1>3, CmdKeeps, CodesTyped DEF TypedInv
<1>4. ControlTyped'
  BY <1>1, <1>3, GoesTyped, FailTyped DEF TypedInv
<1> QED
  BY <1>1, <1>2, <1>4, CountsSame, BufSame DEF TypedInv

\* CMD58.
LEMMA SdhcTyped ==
  ASSUME TypedInv, rdsdhc
  PROVE  TypedInv'
<1>1. pc = "cmd58" /\ UNCHANGED <<resets, blkno, half, buf>>
  BY DEF rdsdhc
<1>3. PICK hit \in Hits : Takes(R7(122, 0, 0, hit)) /\ Ends(FALSE)
  BY DEF rdsdhc, Runs
<1>2. MediaTyped'
  BY <1>3, CmdKeeps, CodesTyped DEF TypedInv
<1>4. ControlTyped'
  BY <1>3, EndsTyped
<1> QED
  BY <1>1, <1>2, <1>4, CountsSame, BufSame DEF TypedInv

\* The two commands that address a sector.
LEMMA AddressedTyped ==
  ASSUME TypedInv, NEW c \in Byte, NEW hit \in Hits, Takes(cmd(c, Address[1], Address[2], hit))
  PROVE  MediaTyped'
<1>1. Address[1] \in Word16 /\ Address[2] \in Word16
  BY AddressTyped DEF TypedInv, CountsTyped
<1> QED
  BY <1>1, CmdKeeps DEF TypedInv

\* CMD17, which addresses a sector.
LEMMA ReadTyped ==
  ASSUME TypedInv, ReadCommand
  PROVE  TypedInv'
<1>1. pc = "read" /\ UNCHANGED <<resets, blkno, half, buf>>
  BY DEF ReadCommand
<1>3. PICK hit \in Hits :
        Takes(cmd(81, Address[1], Address[2], hit)) /\ (Goes("token") \/ Fail)
  BY DEF ReadCommand, Runs
<1>2. MediaTyped'
  BY <1>3, AddressedTyped, CodesTyped
<1>4. ControlTyped'
  BY <1>1, <1>3, GoesTyped, FailTyped DEF TypedInv
<1> QED
  BY <1>1, <1>2, <1>4, CountsSame, BufSame DEF TypedInv

\* CMD24, which does too.
LEMMA WriteTyped ==
  ASSUME TypedInv, WriteCommand
  PROVE  TypedInv'
<1>1. pc = "write" /\ UNCHANGED <<resets, blkno, half, buf>>
  BY DEF WriteCommand
<1>3. PICK hit \in Hits :
        Takes(cmd(88, Address[1], Address[2], hit)) /\ (Goes("wdata") \/ Fail)
  BY DEF WriteCommand, Runs
<1>2. MediaTyped'
  BY <1>3, AddressedTyped, CodesTyped
<1>4. ControlTyped'
  BY <1>1, <1>3, GoesTyped, FailTyped DEF TypedInv
<1> QED
  BY <1>1, <1>2, <1>4, CountsSame, BufSame DEF TypedInv

\* The wait for the data.
LEMMA TokenTyped ==
  ASSUME TypedInv, WaitToken
  PROVE  TypedInv'
<1>1. pc = "token" /\ UNCHANGED <<resets, blkno, half, buf>>
  BY DEF WaitToken
<1>3. PICK hit \in Hits : Takes(wait(Now, "wait", hit)) /\ (Goes("data") \/ Fail)
  BY DEF WaitToken, Runs
<1> DEFINE s == wait(Now, "wait", hit)
<1>2. MediaTyped'
  <2>1. LineTyped(Now, 0) /\ hit.as \in Byte
    BY NowTyped, HitsTyped DEF TypedInv, MediaTyped
  <2>2. PICK n \in Nat \ {0} : LineTyped(s, n)
    BY <2>1, WaitTyped
  <2> QED
    BY <1>3, <2>2, TakesTyped DEF MediaTyped
<1>4. ControlTyped'
  BY <1>1, <1>3, GoesTyped, FailTyped DEF TypedInv
<1> QED
  BY <1>1, <1>2, <1>4, CountsSame, BufSame DEF TypedInv

\* The first bytes of what was got fill half a buffer.
LEMMA Filled ==
  ASSUME NEW x \in Seq(Byte), Len(x) = Len512 + 2
  PROVE  SubSeq(x, 1, Len512) \in [1..Len512 -> Byte]
<1> DEFINE L == Len512
           q == SubSeq(x, 1, L)
<1>1. L \in Nat \ {0}
  BY BoundsAssumption
<1> HIDE DEF L
<1>2. Len(x) = L + 2
  BY DEF L
<1>3. 1 \in 1..(Len(x) + 1) /\ L \in 0..Len(x)
  BY <1>1, <1>2
<1>4. q \in Seq(Byte) /\ Len(q) = IF 1 <= L THEN L - 1 + 1 ELSE 0
  BY <1>3, SubSeqProperties
<1>5. L - 1 + 1 = L /\ 1 <= L
  BY <1>1
<1>6. q \in Seq(Byte) /\ Len(q) = L
  BY <1>4, <1>5
<1> HIDE DEF q
<1>7. q \in [1..L -> Byte]
  BY <1>1, <1>6
<1> QED
  BY <1>7 DEF q, L

\* A sector's data and their CRC, the wait behind them left out.
LEMMA SectorTyped ==
  ASSUME CardTyped(card), file \in Files, NEW hit, hit.as \in Byte
  PROVE  LineTyped(SectorData(hit), Len512 + 2)
<1> DEFINE n == Len512 + 2
           s == Behind(Now, n, hit)
           w == wait(s, "wait", hit)
<1>1. n \in Nat
  BY BoundsAssumption
<1>2. SectorData(hit) = [w EXCEPT !.got = s.got]
  BY DEF SectorData
<1> HIDE DEF n
<1>3. LineTyped(s, n)
  BY <1>1, NowTyped, BehindTyped
<1> HIDE DEF s
<1>4. PICK k \in Nat \ {0} : LineTyped(w, k)
  BY <1>3, WaitTyped
<1> HIDE DEF w
<1>5. PICK c, f, g : s = Line(c, f, g) /\ g \in Seq(Byte) /\ Len(g) = n
  BY <1>3, Zenon DEF LineTyped
<1>6. PICK d, e, h : w = Line(d, e, h) /\ CardTyped(d) /\ e \in Files
  BY <1>4, Zenon DEF LineTyped
<1>7. SectorData(hit) = Line(d, e, g)
  <2>1. s.got = g
    BY <1>5, LineFields
  <2>2. [w EXCEPT !.got = g] = Line(d, e, g)
    BY <1>6 DEF Line
  <2> QED
    BY <1>2, <2>1, <2>2
<1>8. LineTyped(Line(d, e, g), n)
  BY <1>1, <1>5, <1>6, LineHas
<1> QED
  BY <1>7, <1>8 DEF n

\* They fill their half.
LEMMA DataTyped ==
  ASSUME TypedInv, ReadData
  PROVE  TypedInv'
<1> DEFINE n == Len512 + 2
<1>2. pc = "data" /\ UNCHANGED <<resets, blkno>>
  BY DEF ReadData
<1>3. PICK hit \in Hits :
        /\ Takes(SectorData(hit))
        /\ buf' = [buf EXCEPT ![half] = SubSeq(SectorData(hit).got, 1, Len512)]
        /\ NextHalf("read") \/ (Fail /\ UNCHANGED half)
  BY DEF ReadData, Runs
<1> DEFINE s == SectorData(hit)
           got == s.got
<1>4. LineTyped(s, n)
  BY HitsTyped, SectorTyped DEF TypedInv, MediaTyped
<1> HIDE DEF s
<1>5. got \in Seq(Byte) /\ Len(got) = Len512 + 2
  <2>1. PICK c, f, g : s = Line(c, f, g) /\ g \in Seq(Byte) /\ Len(g) = n
    BY <1>4, Zenon DEF LineTyped
  <2> QED
    BY <2>1, LineFields
<1>6. BufTyped'
  <2> DEFINE p == SubSeq(got, 1, Len512)
  <2>2. buf' = [buf EXCEPT ![half] = p]
    BY <1>3 DEF s
  <2>1. p \in [1..Len512 -> Byte]
    <3> HIDE DEF got
    <3> QED
      BY <1>5, Filled
  <2> HIDE DEF p
  <2> QED
    BY <2>1, <2>2 DEF TypedInv, BufTyped, CountsTyped
<1>7. MediaTyped'
  <2>1. Takes(s)
    BY <1>3 DEF s
  <2> HIDE DEF n
  <2> QED
    BY <1>4, <2>1, TakesTyped DEF MediaTyped
<1>8. ControlTyped' /\ half' \in 1..2
  <2>1. CASE NextHalf("read")
    BY <1>2, <2>1, HalfTyped DEF TypedInv, CountsTyped
  <2>2. CASE Fail /\ UNCHANGED half
    BY <2>2, FailTyped DEF TypedInv, CountsTyped
  <2> QED
    BY <1>3, <2>1, <2>2
<1>9. CountsTyped'
  BY <1>2, <1>8 DEF TypedInv, CountsTyped
<1> QED
  BY <1>6, <1>7, <1>8, <1>9 DEF TypedInv

\* The data sent.
LEMMA PutDataTyped ==
  ASSUME TypedInv, WriteData
  PROVE  TypedInv'
<1> DEFINE p == Packet(buf[half])
           t == Sends(Now, p)
<1>1. pc = "wdata" /\ UNCHANGED <<resets, blkno, half, buf>>
  BY DEF WriteData
<1>3. PICK hit \in Hits : Takes(wait(t, "wait", hit)) /\ (Goes("busy") \/ Fail)
  BY DEF WriteData, Runs
<1> DEFINE s == wait(t, "wait", hit)
<1>2. MediaTyped'
  <2>1. LineTyped(Now, 0) /\ hit.as \in Byte
    BY NowTyped, HitsTyped DEF TypedInv, MediaTyped
  <2>2. p \in Seq(Byte)
    <3>1. buf[half] \in [1..Len512 -> Byte]
      BY DEF TypedInv, BufTyped, CountsTyped
    <3> QED
      BY <3>1, PacketTyped
  <2> HIDE DEF p
  <2>3. LineTyped(t, Len(p))
    BY <2>1, <2>2, SendsTyped
  <2> HIDE DEF t
  <2>4. PICK n \in Nat \ {0} : LineTyped(s, n)
    BY <2>1, <2>3, WaitTyped
  <2> QED
    BY <1>3, <2>4, TakesTyped DEF MediaTyped
<1>4. ControlTyped'
  BY <1>1, <1>3, GoesTyped, FailTyped DEF TypedInv
<1> QED
  BY <1>1, <1>2, <1>4, CountsSame, BufSame DEF TypedInv

\* The wait for the card.
LEMMA BusyTyped ==
  ASSUME TypedInv, Busy
  PROVE  TypedInv'
<1> DEFINE k == 1
<1>1. pc = "busy" /\ UNCHANGED <<resets, blkno, buf>>
  BY DEF Busy
<1>3. PICK hit \in Hits :
        Takes(Behind(Now, k, hit)) /\ (NextHalf("write") \/ UNCHANGED <<op, pc, err, half>>)
  BY DEF Busy, Runs
<1> DEFINE s == Behind(Now, k, hit)
<1>2. MediaTyped'
  <2>1. LineTyped(Now, 0) /\ k \in Nat /\ hit.as \in Byte
    BY NowTyped, HitsTyped DEF TypedInv, MediaTyped
  <2> HIDE DEF k
  <2>2. LineTyped(s, k)
    BY <2>1, BehindTyped
  <2> QED
    BY <1>3, <2>2, TakesTyped DEF MediaTyped
<1>4. ControlTyped' /\ half' \in 1..2
  <2>1. CASE NextHalf("write")
    BY <1>1, <2>1, HalfTyped DEF TypedInv, CountsTyped
  <2>2. CASE UNCHANGED <<op, pc, err, half>>
    BY <2>2, SameTyped DEF TypedInv, CountsTyped
  <2> QED
    BY <1>3, <2>1, <2>2
<1>5. CountsTyped'
  BY <1>1, <1>4 DEF TypedInv, CountsTyped
<1> QED
  BY <1>1, <1>2, <1>4, <1>5, BufSame DEF TypedInv

\* So does the program.
LEMMA TypedNext ==
  ASSUME TypedInv, [Next]_vars
  PROVE  TypedInv'
<1>1. CASE UNCHANGED vars
  BY <1>1, SameTyped, CountsSame, BufSame, MediaSame DEF vars, TypedInv
<1>2. CASE Next
  <2>1. CASE SDCinit
    BY <2>1, CallsTyped
  <2>2. CASE \E b \in Blocks : SDCfetch(b)
    BY <2>2, CallsTyped
  <2>3. CASE \E b \in Blocks, p1, p2 \in Patterns : SDCstore(b, p1, p2)
    BY <2>3, CallsTyped
  <2>4. CASE Starting
    BY <2>4, ResetTyped, VoltageTyped, AppTyped, IdleTyped, SdhcTyped DEF Starting
  <2>5. CASE Fetching
    BY <2>5, ReadTyped, TokenTyped, DataTyped DEF Fetching
  <2>6. CASE Storing
    BY <2>6, WriteTyped, PutDataTyped, BusyTyped DEF Storing
  <2> QED
    BY <1>2, <2>1, <2>2, <2>3, <2>4, <2>5, <2>6 DEF Next, Working
<1> QED
  BY <1>1, <1>2

\* What the invariant says of the model's types.
LEMMA TypedOK ==
  ASSUME TypedInv
  PROVE  TypeOK
<1>1. PICK i, r, s, a, b, at, k : card = Card(i, r, s, a, b, at, k) /\ Typed(i, r, s, a, b, at, k)
  BY Zenon DEF TypedInv, MediaTyped, CardTyped
<1>2. card.initstat = i /\ card.recv = r /\ card.cmd17 = a /\ card.cmd24 = b
  BY <1>1, CardFields
<1>3. /\ card.initstat \in 0..Up /\ Len(card.recv) < 6
      /\ card.cmd17 \in -1..(Len512 - 1) /\ card.cmd24 \in -2..(Len512 + 1)
  BY <1>1, <1>2 DEF Typed
<1>4. op \in {"none", "SDC$", "SDC@", "SDC!"} /\ (op = "none") = (pc = "none")
  BY DEF TypedInv, ControlTyped
<1>5. resets \in 0..Resets /\ half \in 1..2 /\ buf \in [1..2 -> [1..Len512 -> Byte]]
  BY DEF TypedInv, CountsTyped, BufTyped
<1>6. file \in [Sectors -> [1..Len512 -> Byte]]
  BY DEF TypedInv, MediaTyped, Files
<1> QED
  BY <1>3, <1>4, <1>5, <1>6 DEF TypeOK

\* A buffer of bytes has one CRC.
LEMMA TypedAgree ==
  ASSUME TypedInv
  PROVE  CrcsAgree
<1> SUFFICES ASSUME NEW h \in 1..2
             PROVE  /\ CRC16(buf[h]) = Crc(Z80CRC16, buf[h])
                    /\ CRC16(buf[h]) = Crc(CardCrc16, buf[h])
                    /\ CRC16(buf[h]) = Crc(CsumCrc16, buf[h]) % 65536
  BY DEF CrcsAgree
<1> DEFINE p == buf[h]
<1>1. p \in [1..Len512 -> Byte]
  BY DEF TypedInv, BufTyped
<1>2. Len512 \in Nat
  BY BoundsAssumption
<1> HIDE DEF p
<1>3. Len(p) = Len512
  BY <1>1, <1>2
<1>4. Bytes(p)
  <2>1. Byte \subseteq Byte8
    BY ByteIs DEF Byte8
  <2> QED
    BY <1>1, <1>2, <1>3, <2>1 DEF Bytes
<1>5. /\ CRC16(p) = Crc(Z80CRC16, p) /\ CRC16(p) = Crc(CardCrc16, p)
      /\ CRC16(p) = Crc(CsumCrc16, p) % 65536
  BY <1>4, FourSame DEF CRC16
<1> QED
  BY <1>5 DEF p

\* Whatever is damaged on the line, the card, the driver and the buffer hold
\* what their types say: the buffer bytes, the card a position in a sector.
THEOREM TypesHold == Spec => []TypedInv
<1>1. Init => TypedInv
  BY InitTyped
<1>2. TypedInv /\ [Next]_vars => TypedInv'
  BY TypedNext
<1> QED
  BY <1>1, <1>2, PTL DEF Spec

\* Hence the model's type invariant: the card never leaves its sector, its command
\* and its file, whatever the driver was told.
THEOREM Types == Spec => []TypeOK
<1>1. TypedInv => TypeOK
  BY TypedOK
<1> QED
  BY <1>1, TypesHold, PTL

\* The four CRCs of the system tell the same of a sector in the buffer, whatever
\* its bytes and whatever was damaged on the way.
THEOREM CrcsTellSame == Spec => []CrcsAgree
<1>1. TypedInv => CrcsAgree
  BY TypedAgree
<1> QED
  BY <1>1, TypesHold, PTL

-----------------------------------------------------------------------------
(* What the CRC catches.                                                   *)

\* A round loses nothing: what went out above is in bit 0.
LEMMA ShiftOne ==
  ASSUME NEW c \in Word16, NEW d \in Word16, Shift(c) = Shift(d)
  PROVE  c = d
<1> DEFINE u == Shift(c)
           v == Shift(d)
           P(i) == i \in {0, 5, 12}
<1>1. \A i \in 0..15 : Bit(u, i) <=> ~ (i >= 1 /\ Bit(c, i - 1) <=> P(i) /\ Bit(c, 15))
  BY ShiftIs
<1>2. \A i \in 0..15 : Bit(v, i) <=> ~ (i >= 1 /\ Bit(d, i - 1) <=> P(i) /\ Bit(d, 15))
  BY ShiftIs
<1>3. u = v /\ P(0)
  OBVIOUS
<1> HIDE DEF u, v, P
<1>4. Bit(c, 15) <=> Bit(d, 15)
  <2>1. Bit(u, 0) <=> Bit(c, 15)
    BY <1>1, <1>3
  <2>2. Bit(v, 0) <=> Bit(d, 15)
    BY <1>2, <1>3
  <2> QED
    BY <1>3, <2>1, <2>2
<1>5. ASSUME NEW i \in 0..15 PROVE Bit(c, i) <=> Bit(d, i)
  <2>1. CASE i = 15
    BY <1>4, <2>1
  <2>2. CASE i # 15
    <3> DEFINE j == i + 1
    <3>1. j \in 0..15 /\ j >= 1 /\ j - 1 = i
      BY <2>2
    <3> HIDE DEF j
    <3>2. Bit(u, j) <=> ~ (Bit(c, i) <=> P(j) /\ Bit(c, 15))
      BY <1>1, <3>1
    <3>3. Bit(v, j) <=> ~ (Bit(d, i) <=> P(j) /\ Bit(d, 15))
      BY <1>2, <3>1
    <3> QED
      BY <1>3, <1>4, <3>2, <3>3
  <2> QED
    BY <2>1, <2>2
<1> QED
  BY <1>5, SameWord

\* Nor do eight.
LEMMA EightOne ==
  ASSUME NEW c \in Word16, NEW d \in Word16, Rounds(Shift, c) = Rounds(Shift, d)
  PROVE  c = d
<1> DEFINE n == 8
<1>1. PICK r : Shifts(r, c) /\ Rounds(Shift, c) = r[8]
  BY EightRounds
<1>2. PICK q : Shifts(q, d) /\ Rounds(Shift, d) = q[8]
  BY EightRounds
<1> DEFINE S == {k \in 0..n : r[n - k] = q[n - k]}
<1>3. 0 \in S
  <2>1. n - 0 = 8 /\ 0 \in 0..n
    OBVIOUS
  <2>2. r[n - 0] = q[n - 0]
    BY <1>1, <1>2, <2>1
  <2> QED
    BY <2>1, <2>2
<1>4. ASSUME NEW k \in 1..n, k - 1 \in S PROVE k \in S
  <2> DEFINE i == n - (k - 1)
  <2>1. i \in 1..8 /\ i - 1 = n - k /\ i - 1 \in 0..8 /\ r[i] = q[i]
    BY <1>4
  <2> HIDE DEF i
  <2>2. r[i] = Shift(r[i - 1]) /\ q[i] = Shift(q[i - 1])
    BY <1>1, <1>2, <2>1 DEF Shifts
  <2>3. r[i - 1] \in Word16 /\ q[i - 1] \in Word16
    BY <1>1, <1>2, <2>1 DEF Shifts
  <2>4. r[i - 1] = q[i - 1]
    BY <2>1, <2>2, <2>3, ShiftOne
  <2>5. k \in 0..n
    OBVIOUS
  <2> QED
    BY <2>1, <2>4, <2>5
<1>5. n \in Nat
  OBVIOUS
<1>6. 0..n \subseteq S
  <2> HIDE DEF S, n
  <2> QED
    BY <1>3, <1>4, <1>5, UpTo
<1>7. r[0] = q[0]
  <2>1. n \in S
    BY <1>5, <1>6
  <2>2. n - n = 0
    BY <1>5
  <2> QED
    BY <2>1, <2>2
<1> QED
  BY <1>1, <1>2, <1>7 DEF Shifts

\* So the CRC of one byte more tells CRCs apart,
LEMMA ForthOne ==
  ASSUME NEW c \in Word16, NEW d \in Word16, NEW n \in Byte8,
         ForthCRC16(c, n) = ForthCRC16(d, n)
  PROVE  c = d
<1> DEFINE w == (n * 256) % 65536
           u == Xor(w, c, 16)
           v == Xor(w, d, 16)
<1>1. ForthCRC16(c, n) = Rounds(Shift, u) /\ ForthCRC16(d, n) = Rounds(Shift, v)
  BY DEF ForthCRC16
<1> HIDE DEF w
<1>2. u \in Word16 /\ \A i \in 0..15 : Bit(u, i) <=> ~ (Bit(w, i) <=> Bit(c, i))
  BY XorWord
<1>3. v \in Word16 /\ \A i \in 0..15 : Bit(v, i) <=> ~ (Bit(w, i) <=> Bit(d, i))
  BY XorWord
<1> HIDE DEF u, v
<1>4. u = v
  BY <1>1, <1>2, <1>3, EightOne
<1>5. \A i \in 0..15 : Bit(c, i) <=> Bit(d, i)
  BY <1>2, <1>3, <1>4
<1> QED
  BY <1>5, SameWord

\* and bytes.
LEMMA ByteOne ==
  ASSUME NEW c \in Word16, NEW n \in Byte8, NEW m \in Byte8,
         ForthCRC16(c, n) = ForthCRC16(c, m)
  PROVE  n = m
<1> DEFINE u == Joined(c, n)
           v == Joined(c, m)
           k == 8
<1>1. ForthCRC16(c, n) = Rounds(Shift, u) /\ ForthCRC16(c, m) = Rounds(Shift, v)
  BY DEF ForthCRC16, Joined
<1>2. /\ u \in Word16
      /\ \A i \in 0..15 : Bit(u, i) <=>
           IF i < 8 THEN Bit(Low(c), i) ELSE ~ (Bit(n, i - 8) <=> Bit(High(c), i - 8))
  BY JoinedBits
<1>3. /\ v \in Word16
      /\ \A i \in 0..15 : Bit(v, i) <=>
           IF i < 8 THEN Bit(Low(c), i) ELSE ~ (Bit(m, i - 8) <=> Bit(High(c), i - 8))
  BY JoinedBits
<1> HIDE DEF u, v
<1>4. u = v
  BY <1>1, <1>2, <1>3, EightOne
<1>5. ASSUME NEW i \in 0..7 PROVE Bit(n, i) <=> Bit(m, i)
  <2> DEFINE j == i + 8
  <2>1. j \in 0..15 /\ ~ (j < 8) /\ j - 8 = i
    OBVIOUS
  <2> HIDE DEF j
  <2>2. Bit(u, j) <=> ~ (Bit(n, i) <=> Bit(High(c), i))
    BY <1>2, <2>1
  <2>3. Bit(v, j) <=> ~ (Bit(m, i) <=> Bit(High(c), i))
    BY <1>3, <2>1
  <2> QED
    BY <1>4, <2>2, <2>3
<1>6. k \in 0..18 /\ Pow(k) = 256 /\ k - 1 = 7
  BY PowerValues
<1>7. n \in Nat /\ m \in Nat /\ n < 256 /\ m < 256
  BY DEF Byte8
<1> HIDE DEF k
<1>8. n < Pow(k) /\ m < Pow(k) /\ \A i \in 0..(k - 1) : Bit(n, i) <=> Bit(m, i)
  BY <1>5, <1>6, <1>7
<1> QED
  BY <1>6, <1>7, <1>8, SameBits

\* Of bytes that differ in one place the CRCs differ.
LEMMA OneByteTold ==
  ASSUME NEW data, Bytes(data), NEW other, Bytes(other), Len(other) = Len(data),
         NEW j \in 1..Len(data), other[j] # data[j],
         \A i \in 1..Len(data) : i # j => other[i] = data[i]
  PROVE  Crc(ForthCRC16, other) # Crc(ForthCRC16, data)
<1> DEFINE n == Len(data)
<1>1. PICK f : Counted(f, data) /\ Crc(ForthCRC16, data) = f[n]
  BY ThreeSame
<1>2. PICK g : Counted(g, other) /\ Crc(ForthCRC16, other) = g[n]
  BY ThreeSame
<1>3. n \in Nat /\ j \in 1..n
  BY DEF Bytes
<1>4. /\ f[0] = 0 /\ \A i \in 0..n : f[i] \in Word16
      /\ \A i \in 1..n : f[i] = ForthCRC16(f[i - 1], data[i])
  BY <1>1 DEF Counted
<1>5. /\ g[0] = 0 /\ \A i \in 0..n : g[i] \in Word16
      /\ \A i \in 1..n : g[i] = ForthCRC16(g[i - 1], other[i])
  BY <1>2 DEF Counted
<1>6. \A i \in 1..n : data[i] \in Byte8 /\ other[i] \in Byte8
  BY DEF Bytes
<1> HIDE DEF n
<1> DEFINE S == {i \in 0..n : (i < j => g[i] = f[i]) /\ (i >= j => g[i] # f[i])}
<1>7. 0 \in S
  BY <1>3, <1>4, <1>5
<1>8. ASSUME NEW i \in 1..n, i - 1 \in S PROVE i \in S
  <2> DEFINE h == i - 1
  <2>1. h \in 0..n /\ i \in 0..n /\ (h < j <=> i <= j)
    BY <1>3
  <2>2. (h < j => g[h] = f[h]) /\ (h >= j => g[h] # f[h])
    BY <1>8
  <2>3. f[i] = ForthCRC16(f[h], data[i]) /\ g[i] = ForthCRC16(g[h], other[i])
    BY <1>4, <1>5
  <2>4. f[h] \in Word16 /\ g[h] \in Word16 /\ data[i] \in Byte8 /\ other[i] \in Byte8
    BY <1>4, <1>5, <1>6, <2>1
  <2>5. i # j => other[i] = data[i]
    BY DEF n
  <2> HIDE DEF h
  <2>6. CASE i < j
    <3>1. g[i] = f[i]
      BY <2>1, <2>2, <2>3, <2>5, <2>6, <1>3
    <3> QED
      BY <1>3, <2>1, <2>6, <3>1
  <2>7. CASE i = j
    <3>1. g[h] = f[h]
      BY <2>1, <2>2, <2>7, <1>3
    <3>2. g[i] # f[i]
      BY <2>3, <2>4, <2>7, <3>1, ByteOne
    <3> QED
      BY <1>3, <2>1, <2>7, <3>2
  <2>8. CASE i > j
    <3>1. g[h] # f[h]
      BY <2>1, <2>2, <2>8, <1>3
    <3>2. g[i] # f[i]
      <4>1. i # j /\ other[i] = data[i]
        BY <1>3, <2>5, <2>8
      <4> QED
        BY <2>3, <2>4, <3>1, <4>1, ForthOne
    <3> QED
      BY <1>3, <2>1, <2>8, <3>2
  <2> QED
    BY <1>3, <2>6, <2>7, <2>8
<1>9. 0..n \subseteq S
  <2> HIDE DEF S
  <2> QED
    BY <1>3, <1>7, <1>8, UpTo
<1>10. g[n] # f[n]
  <2>1. n \in 0..n /\ n >= j
    BY <1>3
  <2> QED
    BY <1>9, <2>1
<1> QED
  BY <1>1, <1>2, <1>10

\* The data that come before the CRC.
LEMMA DataFirst ==
  ASSUME NEW x \in Seq(Nat), Len(x) = Len512 + 2
  PROVE  /\ SubSeq(x, 1, Len512) \in [1..Len512 -> Nat]
         /\ \A i \in 1..Len512 : SubSeq(x, 1, Len512)[i] = x[i]
<1> DEFINE L == Len512
           q == SubSeq(x, 1, L)
<1>1. L \in Nat \ {0}
  BY BoundsAssumption
<1>2. Len(x) = L + 2
  OBVIOUS
<1> HIDE DEF L
<1>3. 1 \in 1..(Len(x) + 1) /\ L \in 0..Len(x)
  BY <1>1, <1>2
<1>4. /\ q \in Seq(Nat) /\ Len(q) = IF 1 <= L THEN L - 1 + 1 ELSE 0
      /\ \A i \in 1..(L - 1 + 1) : q[i] = x[1 + i - 1]
  BY <1>3, SubSeqProperties
<1>5. L - 1 + 1 = L /\ 1 <= L /\ \A i \in 1..L : 1 + i - 1 = i
  BY <1>1
<1>6. q \in Seq(Nat) /\ Len(q) = L /\ \A i \in 1..L : q[i] = x[i]
  BY <1>4, <1>5
<1> HIDE DEF q
<1>7. q \in [1..L -> Nat] /\ \A i \in 1..L : q[i] = x[i]
  BY <1>1, <1>6
<1> QED
  BY <1>7 DEF q, L

\* A function of 1..n is a sequence.
LEMMA Listed ==
  ASSUME NEW n \in Nat, NEW V, NEW f \in [1..n -> V]
  PROVE  f \in Seq(V) /\ Len(f) = n
  OBVIOUS

\* A sector that came with one byte damaged, be it of the CRC, is not good.
LEMMA DamagedIsBad ==
  ASSUME NEW p \in [1..Len512 -> Byte], NEW j \in 1..(Len512 + 2), NEW d \in Byte,
         NEW got, got = [Sent(p) EXCEPT ![j] = d], got # Sent(p)
  PROVE  ~ Good(got)
<1> DEFINE L == Len512
           n == Crc(CardCrc16, p)
           x == Sent(p)
           h == High(n)
           l == Low(n)
           q == SubSeq(got, 1, L)
<1>1. L \in Nat \ {0}
  BY BoundsAssumption
<1>2. Byte \subseteq Byte8 /\ Byte \subseteq Nat
  BY ByteIs DEF Byte8
<1>3. Len(p) = L
  BY <1>1
<1>4. Bytes(p)
  BY <1>1, <1>2, <1>3 DEF Bytes
<1>5. n = Crc(ForthCRC16, p) /\ n \in Word16
  BY <1>4, FourSame
<1> HIDE DEF n
<1>6. h \in Nat /\ l \in Nat /\ n = 256 * h + l /\ n \in Nat
  <2>1. h \in Nat /\ l \in Nat /\ n = h * 256 + l
    BY <1>5, Halves
  <2>2. n \in Nat
    BY <1>5 DEF Word16
  <2> HIDE DEF h, l
  <2> QED
    BY <2>1, <2>2
<1>7. x = [i \in 1..(L + 2) |-> IF i <= L THEN p[i] ELSE IF i = L + 1 THEN h ELSE l]
  BY DEF Sent, n
<1> HIDE DEF x, h, l
<1>8. d \in Nat /\ j \in 1..(L + 2) /\ got = [x EXCEPT ![j] = d] /\ got # x
  BY <1>2 DEF x
<1> HIDE DEF L
<1>20. p \in [1..L -> Byte]
  BY DEF L
<1>9. /\ \A i \in 1..L : x[i] = p[i] /\ p[i] \in Nat
      /\ x[L + 1] = h /\ x[L + 2] = l /\ x \in [1..(L + 2) -> Nat]
  <2>1. \A i \in 1..L : p[i] \in Nat
    BY <1>2, <1>20
  <2>2. ASSUME NEW i \in 1..(L + 2)
        PROVE  (IF i <= L THEN p[i] ELSE IF i = L + 1 THEN h ELSE l) \in Nat
    BY <1>1, <1>6, <2>1
  <2>3. x \in [1..(L + 2) -> Nat]
    BY <1>7, <2>2
  <2>4. \A i \in 1..L : x[i] = p[i]
    BY <1>1, <1>7
  <2>5. x[L + 1] = h /\ x[L + 2] = l
    BY <1>1, <1>7
  <2> QED
    BY <2>1, <2>3, <2>4, <2>5
<1>10. d # x[j]
  <2> SUFFICES ASSUME d = x[j] PROVE FALSE
    OBVIOUS
  <2>1. got = x
    BY <1>8, <1>9
  <2> QED
    BY <1>8, <2>1
<1>11. got \in Seq(Nat) /\ Len(got) = L + 2 /\ got[j] = d
       /\ \A i \in 1..(L + 2) : i # j => got[i] = x[i]
  <2> DEFINE M == L + 2
  <2>1. M \in Nat /\ j \in 1..M /\ x \in [1..M -> Nat] /\ d \in Nat
    BY <1>1, <1>8, <1>9
  <2> HIDE DEF M
  <2>2. got \in [1..M -> Nat] /\ got[j] = d /\ \A i \in 1..M : i # j => got[i] = x[i]
    BY <1>8, <2>1
  <2>3. got \in Seq(Nat) /\ Len(got) = M
    BY <2>1, <2>2, Listed
  <2> QED
    BY <2>2, <2>3 DEF M
<1>16. ASSUME NEW i \in 1..L PROVE i \in 1..(L + 2)
  BY <1>1
<1>12. /\ \A i \in 1..L : q[i] = got[i]
       /\ q \in [1..L -> Nat]
  BY <1>11, DataFirst DEF L
<1> HIDE DEF q
<1>13. Good(got) <=> Crc(ForthCRC16, q) = 256 * got[L + 1] + got[L + 2]
  BY DEF Good, CRC16, q, L
<1>14. CASE j \in 1..L
  <2>1. Len(q) = L
    BY <1>1, <1>12
  <2>2. \A i \in 1..L : q[i] = IF i = j THEN d ELSE p[i]
    <3> SUFFICES ASSUME NEW i \in 1..L PROVE q[i] = IF i = j THEN d ELSE p[i]
      OBVIOUS
    <3>1. q[i] = got[i] /\ x[i] = p[i] /\ i \in 1..(L + 2)
      BY <1>9, <1>12, <1>16
    <3>2. got[i] = IF i = j THEN d ELSE x[i]
      BY <1>11, <3>1
    <3> QED
      BY <3>1, <3>2
  <2>3. \A i \in 1..L : q[i] \in Byte
    BY <1>20, <2>2
  <2>4. Bytes(q)
    BY <1>1, <1>2, <2>1, <2>3 DEF Bytes
  <2>5. q[j] # p[j] /\ \A i \in 1..L : i # j => q[i] = p[i]
    BY <1>9, <1>10, <1>14, <2>2
  <2>6. Crc(ForthCRC16, q) # Crc(ForthCRC16, p)
    BY <1>3, <1>4, <1>14, <2>1, <2>4, <2>5, OneByteTold
  <2>7. got[L + 1] = h /\ got[L + 2] = l
    BY <1>1, <1>9, <1>11, <1>14
  <2> QED
    BY <1>5, <1>6, <1>13, <2>6, <2>7
<1>15. CASE j \notin 1..L
  <2>1. \A i \in 1..L : q[i] = p[i]
    <3> SUFFICES ASSUME NEW i \in 1..L PROVE q[i] = p[i]
      OBVIOUS
    <3>1. q[i] = got[i] /\ x[i] = p[i] /\ i \in 1..(L + 2) /\ i # j
      BY <1>9, <1>12, <1>15, <1>16
    <3> QED
      BY <1>11, <3>1
  <2>2. q = p
    <3>1. q = [i \in 1..L |-> q[i]] /\ p = [i \in 1..L |-> p[i]]
      BY <1>12, <1>20
    <3> QED
      BY <2>1, <3>1
  <2>3. Crc(ForthCRC16, q) = 256 * h + l
    BY <1>5, <1>6, <2>2
  <2>4. j = L + 1 \/ j = L + 2
    BY <1>1, <1>8, <1>15
  <2>5. CASE j = L + 1
    <3>1. got[L + 1] = d /\ got[L + 2] = l /\ d # h
      BY <1>1, <1>8, <1>9, <1>10, <1>11, <2>5
    <3> QED
      BY <1>6, <1>8, <1>13, <2>3, <3>1
  <2>6. CASE j = L + 2
    <3>1. got[L + 2] = d /\ got[L + 1] = h /\ d # l
      BY <1>1, <1>8, <1>9, <1>10, <1>11, <2>6
    <3> QED
      BY <1>6, <1>8, <1>13, <2>3, <3>1
  <2> QED
    BY <2>4, <2>5, <2>6
<1> QED
  BY <1>14, <1>15

-----------------------------------------------------------------------------
(* A byte damaged on a line that was sound.                                *)

\* A byte behind silence.
LEMMA SilenceBroken ==
  ASSUME NEW n \in Nat, NEW b
  PROVE  /\ Append(Silence(n), b) # <<>> /\ Last(Append(Silence(n), b)) = b
         /\ n # 0 => Silence(n) # <<>> /\ Last(Silence(n)) = Idle
<1> DEFINE g == Silence(n)
           S == {Idle, b}
           x == Append(g, b)
<1>1. g \in Seq(S) /\ Len(g) = n /\ \A i \in 1..n : g[i] = Idle
  BY DEF Silence
<1> HIDE DEF g, S
<1>2. Len(x) = n + 1 /\ x[n + 1] = b
  BY <1>1 DEF S
<1>3. n # 0 => n \in 1..n
  OBVIOUS
<1>4. x # <<>>
  BY <1>2
<1>5. Last(x) = b
  BY <1>2 DEF Last
<1>6. n # 0 => g # <<>> /\ Last(g) = Idle
  BY <1>1, <1>3 DEF Last
<1> QED
  BY <1>4, <1>5, <1>6 DEF g

\* A step that damage has changed is not that of a sound line.
LEMMA Differs ==
  ASSUME NEW s, NEW t, glitches = 0, glitches' # 0, Counts(s, t)
  PROVE  s # t
<1>1. glitches' = glitches + (IF s = t THEN 0 ELSE 1)
  BY DEF Counts
<1> SUFFICES ASSUME s = t PROVE FALSE
  OBVIOUS
<1>2. glitches' = 0
  BY <1>1
<1> QED
  BY <1>2

\* The byte it damages.
LEMMA HitIs ==
  ASSUME NEW hit \in Hits, hit # None
  PROVE  /\ hit.as \in Damaged
         /\ \/ hit.part = "before"
            \/ hit.part = "wait"
            \/ hit.part = "behind" /\ hit.nth \in 1..LookedBehind
<1> DEFINE A == [part : {"before", "wait"}, nth : 1..Tries, as : Damaged]
           B == [part : {"behind"}, nth : 1..LookedBehind, as : Damaged]
<1>1. hit \in A \/ hit \in B
  <2> HIDE DEF A, B
  <2> QED
    BY DEF Hits, A, B
<1>2. CASE hit \in A
  BY <1>2
<1>3. CASE hit \in B
  BY <1>3
<1> QED
  BY <1>1, <1>2, <1>3

\* Two bytes got one after the other.
LEMMA AppendTwo ==
  ASSUME NEW a, NEW b
  PROVE  Append(<<a>>, b) = <<a, b>>
<1> DEFINE S == {a, b}
           g == <<a>>
           x == Append(g, b)
           y == <<a, b>>
<1>1. g \in Seq(S) /\ Len(g) = 1 /\ g[1] = a /\ b \in S
  OBVIOUS
<1>2. y \in Seq(S) /\ Len(y) = 2 /\ y[1] = a /\ y[2] = b
  OBVIOUS
<1> HIDE DEF g, y, S
<1>6. x \in Seq(S) /\ Len(x) = Len(g) + 1
  BY <1>1, AppendProperties
<1>7. x[Len(g) + 1] = b
  BY <1>1, AppendProperties
<1>8. \A i \in 1..Len(g) : x[i] = g[i]
  BY <1>1, AppendProperties
<1>3. x \in Seq(S) /\ Len(x) = 2 /\ x[1] = g[1] /\ x[2] = b
  BY <1>1, <1>6, <1>7, <1>8
<1> HIDE DEF x
<1>4. \A i \in 1..2 : i = 1 \/ i = 2
  OBVIOUS
<1>5. \A i \in 1..Len(x) : x[i] = y[i]
  BY <1>1, <1>2, <1>3, <1>4
<1> QED
  BY <1>2, <1>3, <1>5, SeqEqual DEF x, g, y

\* The answer to CMD17: behind it is the token,
LEMMA ReadHeard ==
  ASSUME NEW to, NEW hit, hit.part = "wait", NEW s,
         s = Line(Card(Up, <<>>, <<0, Token>>, 0, -2, to, 0), file, Silence(6)),
         wait(s, "wait", hit) # waits(s)
  PROVE  Last(wait(s, "wait", hit).got) # 0
<1> DEFINE q == <<0, Token>>
           n == -2
           o == 0
           z == <<>>
           y == Silence(6)
           u == <<Token>>
           x == IF hit.part = "wait" /\ hit.nth = 1 THEN hit.as ELSE Head(q)
           d == Card(Up, z, Tail(q), o, n, to, 0)
           e == Card(Up, z, z, o, n, to, 0)
<1>1. Up \in Int /\ ~ (Up < Woken) /\ o \in Int /\ n \in Int
  BY Steps4
<1>2. q # <<>> /\ Head(q) = 0 /\ Tail(q) = u /\ u # <<>> /\ Head(u) = Token /\ Tail(u) = z
  OBVIOUS
<1>3. 0 # Idle /\ Token # 0 /\ Token # Idle
  BY DEF Idle, Token
<1>4. s = Line(Card(Up, z, q, o, n, to, 0), file, y)
  OBVIOUS
<1> HIDE DEF q, n, o, z, y, u
<1>5. waits(s) = Line(d, file, <<0>>)
  <2>1. waits(Line(Card(Up, z, q, o, n, to, 0), file, y))
          = Line(Card(Up, z, Tail(q), o, n, to, 0), file, <<Head(q)>>)
    BY <1>1, <1>2, <1>3, WaitAnswer
  <2> QED
    BY <1>2, <1>4, <2>1
<1>6. CASE x # Idle
  <2> DEFINE v == x
             part == "wait"
  <2>1. v = (IF hit.part = part /\ hit.nth = 1 THEN hit.as ELSE Head(q)) /\ v # Idle
    BY <1>6
  <2> HIDE DEF v, d, part
  <2>2. wait(s, part, hit) = Line(d, file, <<v>>)
    BY <1>1, <1>2, <1>4, <2>1, HitAnswer DEF d
  <2>3. v # 0
    BY <1>5, <2>2 DEF part
  <2>4. wait(s, part, hit).got = <<v>>
    BY <2>2, LineFields
  <2> QED
    BY <2>3, <2>4, LastOne DEF part
<1>7. CASE x = Idle
  <2> DEFINE part == "wait"
  <2>1. hit.part = part /\ hit.nth = 1 /\ hit.as = Idle
    BY <1>2, <1>3, <1>7
  <2> HIDE DEF x, d, part
  <2> DEFINE c1 == Card(Up, z, Tail(q), o, n, to, 0)
             h1 == Line(c1, file, <<Idle>>)
             h2 == Line(e, file, <<Idle, Token>>)
             h2a == Line(e, file, Append(<<Idle>>, Token))
  <2>11. PICK h : Missing(h, h1, s, part, hit)
    BY <1>1, <1>2, <1>4, <2>1, AnswerMissed
  <2>2. /\ h[1] = h1
        /\ \A m \in 2..Tries : h[m] = Go("wait", h[m - 1], Idle)
        /\ wait(s, part, hit) = h[Tries]
    BY <2>11 DEF Missing
  <2>3. h1.got = <<Idle>> /\ Last(<<Idle>>) = Idle
    <3> DEFINE w == <<Idle>>
    <3>1. Last(w) = Idle
      BY LastOne
    <3> HIDE DEF w, c1
    <3>2. h1.got = w
      BY LineFields DEF w
    <3> QED
      BY <3>1, <3>2 DEF w
  <2>4. h2.got = <<Idle, Token>> /\ Last(<<Idle, Token>>) = Token /\ <<Idle, Token>> # <<>>
    <3> DEFINE w == <<Idle, Token>>
    <3>1. Last(w) = Token /\ w # <<>>
      BY DEF Last
    <3> HIDE DEF w, e
    <3>2. h2.got = w
      BY LineFields DEF w
    <3> QED
      BY <3>1, <3>2 DEF w
  <2>5. Go("wait", h1, Idle) = h2
    <3> DEFINE g == <<Idle>>
               v == Idle
    <3>1. Spix(Line(Card(Up, z, u, o, n, to, 0), file, g), v)
            = Line(Card(Up, z, Tail(u), o, n, to, 0), file, Append(g, Head(u)))
      <4> HIDE DEF g, v
      <4> QED
        BY <1>1, <1>2, SendSpix
    <3>2. Append(g, Token) = <<Idle, Token>>
      BY AppendTwo
    <3>3. Spix(h1, v) = h2
      BY <1>2, <3>1, <3>2
    <3>4. ~ (h1.got # <<>> /\ Last(h1.got) # Idle)
      BY <2>3
    <3> HIDE DEF h1, h2, v
    <3> QED
      BY <3>3, <3>4 DEF Go, v
  <2> HIDE DEF h1, h2
  <2>6. Tries \in Nat \ {0}
    BY BoundsAssumption
  <2> DEFINE S == {m \in 0..Tries : m >= 2 => h[m] = h2}
  <2>7. ASSUME NEW m \in 1..Tries, m - 1 \in S PROVE m \in S
    <3>1. CASE m = 1
      BY <2>6, <3>1
    <3>2. CASE m = 2
      <4>1. h[m] = Go("wait", h[m - 1], Idle) /\ h[m - 1] = h1
        BY <2>2, <2>6, <3>2
      <4> QED
        BY <2>5, <2>6, <4>1
    <3>3. CASE m > 2
      <4>1. h[m] = Go("wait", h[m - 1], Idle)
        BY <2>2, <2>6, <3>3
      <4>2. h[m - 1] = h2
        BY <2>6, <2>7, <3>3
      <4>3. Go("wait", h2, Idle) = h2
        BY <1>3, <2>4 DEF Go
      <4> QED
        BY <2>6, <4>1, <4>2, <4>3
    <3> QED
      BY <2>6, <3>1, <3>2, <3>3
  <2>8. Tries \in S
    <3>1. 0 \in S
      BY <2>6
    <3> HIDE DEF S
    <3>2. 0..Tries \subseteq S
      BY <2>6, <2>7, <3>1, UpTo
    <3> QED
      BY <2>6, <3>2
  <2>9. h[Tries] = h1 \/ h[Tries] = h2
    <3>1. Tries = 1 \/ Tries >= 2
      BY <2>6
    <3> QED
      BY <2>2, <2>8, <3>1
  <2>10. Last(h1.got) # 0 /\ Last(h2.got) # 0
    BY <1>3, <2>3, <2>4
  <2> QED
    BY <2>2, <2>9, <2>10 DEF part
<1> QED
  BY <1>6, <1>7

\* so the command fails; what it hears before it makes no difference.
LEMMA ReadDamaged ==
  ASSUME Sound, glitches = 0, glitches' # 0, ReadCommand
  PROVE  Fail
<1> DEFINE to == Sector(blkno, half)
           at == card.at
           k == card.crc
           f == Frame(81, 0, to)
           t == Line(Card(Up, <<>>, <<0, Token>>, 0, -2, to, 0), file, Silence(6))
<1>1. pc = "read"
  BY DEF ReadCommand
<1>2. SDC_SDHC = TRUE
  <2>1. started
    BY <1>1, Where DEF Sound, Places, Reads
  <2> QED
    BY <2>1 DEF Sound, Begun
<1>3. PICK hit \in Hits :
        /\ Counts(cmd(81, 0, to, hit), asks(81, 0, to))
        /\ IF Last(cmd(81, 0, to, hit).got) = 0 THEN Goes("token") ELSE Fail
  <2>1. Address[1] = 0 /\ Address[2] = to
    BY <1>2, AddressIs DEF Sound
  <2> HIDE DEF to
  <2> QED
    BY <2>1 DEF ReadCommand, Runs, asks
<1> DEFINE s == cmd(81, 0, to, hit)
<1>4. s # asks(81, 0, to)
  BY <1>3, Differs
<1>11. hit # None
  BY <1>4 DEF asks
<1>12. to \in Nat
  BY SectorIs DEF Sound
<1>5. card = Still(Up, at, k)
  BY <1>1 DEF Sound, Stage, Resting
<1>13. Up \in Int /\ ~ (Up < Woken)
  BY Steps4
<1> HIDE DEF at, k, to
<1>6. \A g : Sends(Line(card, file, g), f) = t
  BY <1>5, <1>12, ReadTold
<1>7. Now = Line(card, file, <<>>)
  BY NowIs
<1> HIDE DEF f, t
<1>8. Sends(wait(Now, "before", hit), f) = t
  <2> DEFINE part == "before"
  <2>1. \E x : wait(Line(Still(Up, at, k), file, <<>>), part, hit) = Line(Still(Up, at, k), file, x)
    <3> DEFINE z == <<>>
    <3> HIDE DEF z, part
    <3>1. \E x : wait(Line(Still(Up, at, k), file, z), part, hit) = Line(Still(Up, at, k), file, x)
      BY <1>13, StillHit
    <3> QED
      BY <3>1 DEF z
  <2> QED
    BY <1>5, <1>6, <1>7, <2>1
<1>9. s = wait(t, "wait", hit)
  BY <1>8 DEF cmd, f
<1>10. asks(81, 0, to) = waits(t)
  <2>1. waits(Now) = Line(Still(Up, at, k), file, Silence(Tries))
    <3> DEFINE z == <<>>
    <3> HIDE DEF z
    <3>1. waits(Line(Still(Up, at, k), file, z)) = Line(Still(Up, at, k), file, Silence(Tries))
      BY <1>13, WaitStill
    <3> QED
      BY <1>5, <1>7, <3>1 DEF z
  <2>2. Sends(waits(Now), f) = t
    BY <1>5, <1>6, <2>1
  <2> QED
    BY <2>2, AsksIs DEF f
<1> HIDE DEF s
<1>14. hit.part = "wait"
  <2> SUFFICES ASSUME hit.part # "wait" PROVE FALSE
    OBVIOUS
  <2> DEFINE part == "wait"
  <2>1. hit.part # part
    OBVIOUS
  <2> HIDE DEF part
  <2>2. wait(t, part, hit) = waits(t)
    BY <2>1, PlainWait
  <2> QED
    BY <1>4, <1>9, <1>10, <2>2 DEF part
<1>15. Last(s.got) # 0
  <2>1. wait(t, "wait", hit) # waits(t)
    BY <1>4, <1>9, <1>10
  <2>2. Last(wait(t, "wait", hit).got) # 0
    BY <1>14, <2>1, ReadHeard DEF t
  <2> QED
    BY <1>9, <2>2
<1> QED
  BY <1>3, <1>15 DEF s

\* The token: behind it are the data, of which a wait takes so many bytes.
LEMMA DataHeard ==
  ASSUME NEW to, NEW hit, hit.part = "wait", hit.nth = 1, hit.as = Idle, NEW s,
         s = Line(Card(Up, <<>>, <<Token>>, 0, -2, to, 0), file, <<>>)
  PROVE  \/ Last(wait(s, "wait", hit).got) = Idle
         \/ \E j \in 1..(Tries - 1) : Last(wait(s, "wait", hit).got)
                                       = IF to \in Sectors THEN file[to][j] ELSE Idle
<1> DEFINE z == <<>>
           n == -2
           o == 0
           q == <<Token>>
           part == "wait"
           w(j) == IF to \in Sectors THEN file[to][j] ELSE Idle
           Running(l, j) == \E k : l = Line(Card(Up, z, z, j, n, to, k), file, Silence(j + 1))
           Over(l) == l.got # <<>> /\ Last(l.got) # Idle /\ \E j \in 1..(Tries - 1) : Last(l.got) = w(j)
<1>1. Up \in Int /\ ~ (Up < Woken) /\ o \in Int /\ n \in Int /\ o = 0
  BY Steps4
<1>2. q # <<>> /\ Tail(q) = z /\ z = <<>>
  OBVIOUS
<1>3. s = Line(Card(Up, z, q, o, n, to, 0), file, z) /\ hit.part = part
  OBVIOUS
<1>4. Tries \in Nat \ {0} /\ Len512 \in Nat /\ Tries <= Len512
  BY BoundsAssumption
<1> HIDE DEF z, n, o, q, part
<1>11. PICK h : Missing(h, Line(Card(Up, z, Tail(q), o, n, to, 0), file, <<Idle>>), s, part, hit)
  BY <1>1, <1>2, <1>3, AnswerMissed
<1>5. /\ h[1] = Line(Card(Up, z, Tail(q), o, n, to, 0), file, <<Idle>>)
      /\ \A m \in 2..Tries : h[m] = Go("wait", h[m - 1], Idle)
      /\ wait(s, part, hit) = h[Tries]
  BY <1>11 DEF Missing
<1>6. Running(h[1], 0)
  <2> DEFINE y == 0
             g == <<Idle>>
  <2>1. Silence(y + 1) = g
    BY DEF Silence
  <2>2. h[1] = Line(Card(Up, z, z, y, n, to, y), file, g)
    BY <1>1, <1>2, <1>5
  <2> HIDE DEF g
  <2> QED
    BY <2>1, <2>2
<1> DEFINE S == {m \in 0..Tries : m # 0 => Running(h[m], m - 1) \/ Over(h[m])}
<1>7. ASSUME NEW m \in 1..Tries, m - 1 \in S PROVE m \in S
  <2>1. CASE m = 1
    BY <1>4, <1>6, <2>1
  <2>2. CASE m # 1
    <3> DEFINE l == h[m - 1]
               a == m - 2
               j == m - 1
    <3>1. /\ h[m] = Go("wait", l, Idle) /\ a \in Nat /\ a \in Int /\ a >= 0 /\ j = a + 1
          /\ j \in 1..(Tries - 1) /\ j # Len512 /\ m - 1 # 0 /\ (m - 1) - 1 = a
      BY <1>4, <1>5, <2>2
    <3>2. Running(l, a) \/ Over(l)
      BY <1>7, <3>1
    <3>7. m \in 0..Tries
      BY <1>4
    <3> HIDE DEF l, a, j
    <3>3. CASE Over(l)
      <4>1. h[m] = l
        BY <3>1, <3>3 DEF Go
      <4> QED
        BY <3>3, <3>7, <4>1
    <3>4. CASE Running(l, a)
      <4> DEFINE g == Silence(a + 1)
      <4>1. PICK k : l = Line(Card(Up, z, z, a, n, to, k), file, g)
        BY <3>4
      <4>10. a + 1 \in Nat /\ a + 1 # 0 /\ a + 1 = j
        BY <3>1
      <4>11. g # <<>> /\ Last(g) = Idle
        BY <4>10, SilenceBroken
      <4>12. Append(g, Idle) = Silence(j + 1)
        BY <4>10, SilenceGrows
      <4> DEFINE c == Card(Up, z, z, a, n, to, k)
                 b == w(j)
                 x == Append(g, b)
                 r == CardCrc16(k, b)
                 e == Card(Up, z, z, j, n, to, r)
                 v == Idle
      <4>2. l.got = g
        <5> HIDE DEF c
        <5> QED
          BY <4>1, LineFields DEF c
      <4>3. h[m] = Spix(l, v)
        BY <3>1, <4>2, <4>11 DEF Go
      <4>4. Spix(l, v) = Line(ReadOn(Up, z, z, a, n, to, k, r), file, x)
        <5>1. b = (IF to \in Sectors THEN file[to][a + 1] ELSE Idle)
          BY <3>1
        <5> HIDE DEF b, v
        <5> QED
          BY <1>1, <1>2, <3>1, <4>1, <5>1, ReadSpix
      <4>5. ReadOn(Up, z, z, a, n, to, k, r) = e
        BY <3>1 DEF ReadOn
      <4>6. x # <<>> /\ Last(x) = b
        <5> HIDE DEF b
        <5> QED
          BY <4>10, SilenceBroken
      <4>7. h[m] = Line(e, file, x)
        BY <4>3, <4>4, <4>5
      <4> HIDE DEF x, b, r
      <4>8. CASE b = Idle
        <5>2. x = Silence(j + 1)
          BY <4>8, <4>12 DEF x
        <5>1. Running(h[m], j)
          BY <4>7, <5>2
        <5> QED
          BY <3>1, <3>7, <5>1 DEF j
      <4>9. CASE b # Idle
        <5>1. h[m].got = x
          <6> HIDE DEF e
          <6> QED
            BY <4>7, LineFields
        <5>2. Over(h[m])
          BY <3>1, <4>6, <4>9, <5>1 DEF b
        <5> QED
          BY <3>7, <5>2
      <4> QED
        BY <4>8, <4>9
    <3> QED
      BY <3>2, <3>3, <3>4
  <2> QED
    BY <2>1, <2>2
<1>8. Tries \in S
  <2>1. 0 \in S
    BY <1>4
  <2> HIDE DEF S
  <2>2. 0..Tries \subseteq S
    BY <1>4, <1>7, <2>1, UpTo
  <2> QED
    BY <1>4, <2>2
<1>9. CASE Running(h[Tries], Tries - 1)
  <2> DEFINE g == Silence(Tries - 1 + 1)
  <2>3. PICK k : h[Tries] = Line(Card(Up, z, z, Tries - 1, n, to, k), file, g)
    BY <1>9
  <2>4. Last(g) = Idle
    <3>1. Tries - 1 + 1 \in Nat /\ Tries - 1 + 1 # 0
      BY <1>4
    <3> QED
      BY <3>1, SilenceBroken
  <2> HIDE DEF g
  <2>1. h[Tries] = Line(Card(Up, z, z, Tries - 1, n, to, k), file, g) /\ Last(g) = Idle
    BY <2>3, <2>4
  <2>2. h[Tries].got = g
    <3> DEFINE c == Card(Up, z, z, Tries - 1, n, to, k)
    <3>1. h[Tries] = Line(c, file, g)
      BY <2>1
    <3> HIDE DEF c
    <3> QED
      BY <3>1, LineFields
  <2> QED
    BY <1>5, <2>1, <2>2 DEF part
<1>10. CASE Over(h[Tries])
  BY <1>5, <1>10 DEF part
<1> QED
  BY <1>4, <1>8, <1>9, <1>10

LEMMA TokenDamaged ==
  ASSUME Sound, glitches = 0, glitches' # 0, WaitToken
  PROVE  Fail \/ TokenBehind
<1> DEFINE g == <<Token>>
           z == <<>>
           n == -2
           o == 0
           part == "wait"
           to == Sector(blkno, half)
           c == Card(Up, z, g, 0, n, to, 0)
<1>1. pc = "token"
  BY DEF WaitToken
<1>3. PICK hit \in Hits :
        /\ Counts(wait(Now, "wait", hit), waits(Now))
        /\ IF Last(wait(Now, "wait", hit).got) = Token THEN Goes("data") ELSE Fail
  BY DEF WaitToken, Runs, waits
<1> DEFINE s == wait(Now, "wait", hit)
<1>4. s # waits(Now)
  BY <1>3, Differs
<1>5. card = c
  BY <1>1 DEF Sound, Stage
<1>6. Now = Line(c, file, z)
  <2> HIDE DEF c
  <2> QED
    BY <1>5, NowIs DEF z
<1>7. g # <<>> /\ Head(g) = Token /\ Tail(g) = z /\ Token # Idle
  BY DEF Token, Idle
<1>8. Up \in Int /\ ~ (Up < Woken) /\ o \in Int /\ n \in Int /\ o = 0
  BY Steps4
<1>9. hit.part = part
  <2> SUFFICES ASSUME hit.part # part PROVE FALSE
    OBVIOUS
  <2> HIDE DEF c
  <2>1. wait(Now, part, hit) = waits(Now)
    BY PlainWait
  <2> QED
    BY <1>4, <2>1
<1> SUFFICES ASSUME ~ Fail PROVE TokenBehind
  OBVIOUS
<1>10. Last(s.got) = Token
  BY <1>3
<1> DEFINE x == IF hit.part = part /\ hit.nth = 1 THEN hit.as ELSE Head(g)
<1>11. x = Idle
  <2> SUFFICES ASSUME x # Idle PROVE FALSE
    OBVIOUS
  <2> DEFINE v == x
             d == Card(Up, z, Tail(g), o, n, to, 0)
  <2>1. v = (IF hit.part = part /\ hit.nth = 1 THEN hit.as ELSE Head(g)) /\ v # Idle
    OBVIOUS
  <2>2. Now = Line(Card(Up, z, g, o, n, to, 0), file, z)
    BY <1>6
  <2> HIDE DEF v, g, z, n, o, part, to, c, x
  <2>3. wait(Line(Card(Up, z, g, o, n, to, 0), file, z), part, hit) = Line(d, file, <<v>>)
    BY <1>7, <1>8, <2>1, HitAnswer
  <2>4. waits(Line(Card(Up, z, g, o, n, to, 0), file, z)) = Line(d, file, <<Head(g)>>)
    BY <1>7, <1>8, WaitAnswer
  <2> HIDE DEF d
  <2>5. s = Line(d, file, <<v>>)
    BY <2>2, <2>3 DEF part
  <2> HIDE DEF s
  <2>6. s.got = <<v>>
    BY <2>5, LineFields
  <2>7. v = Token
    BY <1>10, <2>6, LastOne
  <2> QED
    BY <1>4, <1>7, <2>2, <2>4, <2>5, <2>7
<1>12. hit.part = "wait" /\ hit.nth = 1 /\ hit.as = Idle
  BY <1>7, <1>9, <1>11
<1>13. \/ Last(s.got) = Idle
       \/ \E j \in 1..(Tries - 1) : Last(s.got) = IF to \in Sectors THEN file[to][j] ELSE Idle
  <2> HIDE DEF to
  <2>1. Now = Line(Card(Up, <<>>, <<Token>>, 0, -2, to, 0), file, <<>>)
    BY <1>6
  <2> QED
    BY <1>12, <2>1, DataHeard
<1>14. PICK j \in 1..(Tries - 1) : to \in Sectors /\ file[to][j] = Token
  BY <1>7, <1>10, <1>13
<1>15. card.at = to
  <2> HIDE DEF z, n, g, to
  <2> QED
    BY <1>5, CardFields
<1> QED
  BY <1>1, <1>14, <1>15 DEF TokenBehind

\* A byte of the data or of their CRC, or one behind them.
LEMMA DataDamaged ==
  ASSUME Sound, glitches = 0, glitches' # 0, ReadData
  PROVE  Fail
<1> DEFINE N == Len512 + 2
           s == Idles(Now, N)
           z == <<>>
           n == -2
           to == Sector(blkno, half)
           p == Held(file, to)
           c == Card(Up, z, z, 0, n, to, 0)
           x == Sent(p)
<1>1. pc = "data"
  BY DEF ReadData
<1>4. PICK hit \in Hits :
        /\ Counts(SectorData(hit), SectorData(None))
        /\ IF Good(SectorData(hit).got) THEN NextHalf("read") ELSE Fail /\ UNCHANGED half
  BY DEF ReadData, Runs
<1>5. card = c
  BY <1>1 DEF Sound, Stage
<1>6. p \in Patterns \cup {Blank}
  BY HeldIs DEF Sound, Contents
<1>7. Len(p) = Len512 /\ p \in [1..Len512 -> Byte]
  <2> HIDE DEF p
  <2>1. Blank \in [1..Len512 -> Byte]
    BY Answered DEF Blank
  <2> QED
    BY <1>6, <2>1, BytesAssumption, SentIsGood
<1>8. PICK k : s = Line(Still(Up, to, k), file, x)
  <2>1. Now = Line(c, file, z)
    <3> HIDE DEF c
    <3> QED
      BY <1>5, NowIs
  <2>2. p = Held(file, to)
    OBVIOUS
  <2> HIDE DEF to, p
  <2>3. \E k : Idles(Line(Card(Up, <<>>, <<>>, 0, -2, to, 0), file, z), Len512 + 2)
                 = Line(Still(Up, to, k), file, Sent(p))
    <3> HIDE DEF z
    <3> QED
      BY <1>7, <2>2, SectorTaken
  <2> QED
    BY <2>1, <2>3
<1> DEFINE d == Still(Up, to, k)
           part == "wait"
<1>15. DOMAIN x = 1..(Len512 + 2)
  <2> HIDE DEF p
  <2> QED
    BY DEF Sent
<1>16. LookedBehind = Len512 + 2
  BY <1>1 DEF LookedBehind
<1> HIDE DEF s, x, to, p, N
<1>17. ASSUME NEW t, NEW g, NEW h, t = Line(d, file, g)
       PROVE  [wait(t, part, h) EXCEPT !.got = t.got] = t
  <2>1. Up \in Int /\ ~ (Up < Woken)
    BY Steps4
  <2>2. \E y : wait(Line(Still(Up, to, k), file, g), part, h) = Line(Still(Up, to, k), file, y)
    <3> HIDE DEF part
    <3> QED
      BY <2>1, StillHit
  <2>3. PICK y : wait(t, part, h) = Line(d, file, y)
    BY <1>17, <2>2
  <2> HIDE DEF d
  <2>4. t.got = g
    BY <1>17, LineFields
  <2>5. [Line(d, file, y) EXCEPT !.got = g] = Line(d, file, g)
    BY DEF Line
  <2> QED
    BY <1>17, <2>3, <2>4, <2>5
<1> HIDE DEF d
<1>18. s = Line(d, file, x)
  BY <1>8 DEF d
<1>19. \A h : SectorData(h) = [wait(Behind(Now, N, h), part, h) EXCEPT !.got = Behind(Now, N, h).got]
  BY DEF SectorData, N
<1> HIDE DEF part
<1>20. SectorData(None) = s
  <2>1. Behind(Now, N, None) = s
    BY BehindSound DEF s
  <2> QED
    BY <1>17, <1>18, <1>19, <2>1
<1>21. SectorData(hit) # s
  BY <1>4, <1>20, Differs
<1>22. hit # None
  BY <1>20, <1>21
<1>23. hit.part = "behind" /\ hit.nth \in 1..(Len512 + 2) /\ hit.as \in Damaged
  <2> SUFFICES ASSUME hit.part # "behind" PROVE FALSE
    BY <1>16, <1>22, HitIs
  <2>1. Behind(Now, N, hit) = s
    BY DEF Behind, s
  <2>2. SectorData(hit) = s
    BY <1>17, <1>18, <1>19, <2>1
  <2> QED
    BY <1>21, <2>2
<1> DEFINE j == hit.nth
           b == hit.as
           y == [x EXCEPT ![j] = b]
<1>24. Behind(Now, N, hit) = Line(d, file, y)
  <2>1. Behind(Now, N, hit) = Hit(s, j, hit)
    BY <1>23 DEF Behind, s
  <2>2. Hit(Line(d, file, x), j, hit) = Line(d, file, IF j \in DOMAIN x THEN y ELSE x)
    BY HitLine
  <2> HIDE DEF y
  <2> QED
    BY <1>15, <1>18, <1>23, <2>1, <2>2
<1> HIDE DEF y
<1>25. SectorData(hit) = Line(d, file, y)
  BY <1>17, <1>19, <1>24
<1>26. SectorData(hit).got = y
  BY <1>25, LineFields
<1>27. y # x
  BY <1>18, <1>21, <1>25
<1>12. b \in Byte
  BY <1>23, BytesAssumption
<1>14. ~ Good(y)
  BY <1>7, <1>12, <1>23, <1>27, DamagedIsBad DEF y, x
<1> QED
  BY <1>4, <1>14, <1>26

\* The first byte that comes damaged in SDC@ ends it with SDerr, in a sector of any
\* size: an answer is compared with what it must be, the CRC catches any one byte
\* of the data or of its own, and a token that came as $ff is missed, unless
\* another follows it within the wait.
THEOREM FindsDamage == Spec => DamageFound
<1> DEFINE Step == op = "SDC@" /\ glitches = 0 /\ glitches' # 0 => err' \/ TokenBehind
<1>1. ASSUME SoundInv, [Next]_vars PROVE Step
  <2> SUFFICES ASSUME op = "SDC@", glitches = 0, glitches' # 0 PROVE err' \/ TokenBehind
    OBVIOUS
  <2>1. Sound
    BY <1>1 DEF SoundInv
  <2>2. pc \in Reads
    BY <2>1 DEF Sound, Places
  <2>3. CASE ReadCommand \/ WaitToken \/ ReadData
    <3>1. Fail \/ TokenBehind
      BY <2>1, <2>3, ReadDamaged, TokenDamaged, DataDamaged
    <3> QED
      BY <3>1 DEF Fail, Ends
  <2>4. ~ (ReadCommand \/ WaitToken \/ ReadData) => FALSE
    <3> SUFFICES ASSUME ~ (ReadCommand \/ WaitToken \/ ReadData) PROVE FALSE
      OBVIOUS
    <3>1. ~ UNCHANGED vars
      BY DEF vars
    <3>2. ~ SDCinit /\ ~ (\E b \in Blocks : SDCfetch(b))
          /\ ~ (\E b \in Blocks, p1, p2 \in Patterns : SDCstore(b, p1, p2))
      BY DEF SDCinit, SDCfetch, SDCstore, Calls
    <3>3. ~ Starting
      BY <2>2 DEF Starting, Reset, CheckVoltage, AppCommand, LeaveIdle, rdsdhc, Reads
    <3>4. ~ Storing
      BY <2>2 DEF Storing, WriteCommand, WriteData, Busy, Reads
    <3> QED
      BY <1>1, <3>1, <3>2, <3>3, <3>4 DEF Next, Working, Fetching
  <2> QED
    BY <2>3, <2>4
<1>2. SoundInv /\ [Next]_vars => [Step]_vars
  BY <1>1
<1> QED
  BY <1>2, Soundness, PTL DEF Spec, DamageFound
=============================================================================
