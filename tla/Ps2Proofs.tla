----------------------------- MODULE Ps2Proofs -----------------------------
(***************************************************************************)
(* What (key?) makes of the bytes on their way, for any keys and any       *)
(* number of bytes: a press comes out as the character of its key, with    *)
(* the shift that was down, and PS2_SHIFT follows the shift keys.          *)
(*                                                                         *)
(* The bytes on the line decide what (key?) will do, not the keys that are *)
(* down by now.  So the invariant reads the line ahead: Run says in which  *)
(* state (key?) is before each of its bytes, and what it will return for   *)
(* it; and the state after the last one is compared with the keys.         *)
(***************************************************************************)
EXTENDS Ps2, SequenceTheorems, TLAPS

States == {"key?", "break"}

(* What the byte b does to (key?) in state p with PS2_SHIFT s: the state   *)
(* it leaves, the shift, and that what is returned is what b may come out  *)
(* as.                                                                     *)
Turn(b, p, s, q, t) ==
  /\ q = IF b.kc \in Scrolls THEN p
         ELSE IF b.kc = "f0" /\ p = "key?" THEN "break" ELSE "key?"
  /\ t = IF b.kc \in Shifts THEN p = "key?" ELSE s
  /\ IF b.kc \in Plain /\ p = "key?"
       THEN [key |-> b.kc, shifted |-> s] \in b.may
       ELSE Nothing \in b.may

(* Reading the bytes of l takes (key?) from p and s to q and t.            *)
Run(l, p, s, q, t) ==
  \E ps \in [1..(Len(l) + 1) -> States], ss \in [1..(Len(l) + 1) -> BOOLEAN] :
    /\ ps[1] = p /\ ss[1] = s /\ ps[Len(l) + 1] = q /\ ss[Len(l) + 1] = t
    /\ \A i \in 1..Len(l) : Turn(l[i], ps[i], ss[i], ps[i + 1], ss[i + 1])

(* The keys: one that is used alone is; after a scroll key no other was    *)
(* pressed yet; there is doubt only under a shift, and none under one.     *)
KeysKnown ==
  /\ \A h, k \in held : h # k => {h, k} \cap Alone = {}
  /\ missed => held \subseteq Scrolls
  /\ doubt => Shifted(held)
  /\ ~doubt => \A h, k \in held \cap Shifts : h = k

(* Once all bytes are read, (key?) is in its loop only after a scroll key, *)
(* and PS2_SHIFT tells of the shift keys.                                  *)
Coming ==
  \E q \in States, t \in BOOLEAN :
    /\ Run(line, pc, PS2_SHIFT, q, t)
    /\ q = "break" => missed
    /\ ~doubt => t = Shifted(held)

Inv == TypeOK /\ KeysKnown /\ Coming /\ Faithful
-----------------------------------------------------------------------------
(* Sequences of bytes, and runs over them.                                 *)

LEMMA NothingIsAChar == Nothing \in Chars
  BY DEF Chars

LEMMA QuietIsAByte == \A c \in Codes : Quiet(c) \in Bytes
  BY NothingIsAChar DEF Quiet, Bytes

LEMMA TurnTypes ==
  ASSUME NEW b, NEW p \in States, NEW s \in BOOLEAN, NEW q, NEW t, Turn(b, p, s, q, t)
  PROVE  q \in States /\ t \in BOOLEAN
<1>1. q \in States
  BY DEF Turn, States
<1>2. t \in BOOLEAN
  BY Zenon DEF Turn
<1> QED
  BY <1>1, <1>2

\* No bytes change nothing.
LEMMA RunOfNone ==
  ASSUME NEW p \in States, NEW s \in BOOLEAN
  PROVE  /\ Run(<<>>, p, s, p, s)
         /\ \A q, t : Run(<<>>, p, s, q, t) => q = p /\ t = s
<1> DEFINE ps == [i \in 1..1 |-> p]
           ss == [i \in 1..1 |-> s]
<1>1. Len(<<>>) + 1 = 1 /\ 1..Len(<<>>) = {}
  OBVIOUS
<1>2. ps \in [1..1 -> States] /\ ss \in [1..1 -> BOOLEAN] /\ ps[1] = p /\ ss[1] = s
  OBVIOUS
<1> HIDE DEF ps, ss
<1>3. Run(<<>>, p, s, p, s)
  BY <1>1, <1>2, Zenon DEF Run
<1>4. ASSUME NEW q, NEW t, Run(<<>>, p, s, q, t) PROVE q = p /\ t = s
  BY <1>1, <1>4, Zenon DEF Run
<1> QED
  BY <1>3, <1>4

\* A byte that is sent is read after all others.
LEMMA RunAppend ==
  ASSUME NEW l \in Seq(Bytes), NEW b \in Bytes, NEW p, NEW s, NEW q, NEW t,
         NEW u \in States, NEW v \in BOOLEAN,
         Run(l, p, s, q, t), Turn(b, q, t, u, v)
  PROVE  Run(Append(l, b), p, s, u, v)
<1> DEFINE n == Len(l)
<1>1. n \in Nat
  BY LenProperties
<1>2. /\ Len(Append(l, b)) = n + 1 /\ Append(l, b)[n + 1] = b
      /\ \A i \in 1..n : Append(l, b)[i] = l[i]
  BY AppendProperties
<1>3. PICK ps \in [1..(n + 1) -> States], ss \in [1..(n + 1) -> BOOLEAN] :
        /\ ps[1] = p /\ ss[1] = s /\ ps[n + 1] = q /\ ss[n + 1] = t
        /\ \A i \in 1..n : Turn(l[i], ps[i], ss[i], ps[i + 1], ss[i + 1])
  BY DEF Run
<1> DEFINE pt == [i \in 1..(n + 2) |-> IF i = n + 2 THEN u ELSE ps[i]]
           st == [i \in 1..(n + 2) |-> IF i = n + 2 THEN v ELSE ss[i]]
<1> HIDE DEF n
<1>4. pt \in [1..(n + 2) -> States]
  BY <1>1, <1>3
<1>5. st \in [1..(n + 2) -> BOOLEAN]
  <2>1. ASSUME NEW i \in 1..(n + 2), i # n + 2 PROVE i \in 1..(n + 1)
    BY <1>1, <2>1
  <2> QED
    BY <1>3, <2>1, Zenon
<1>6. /\ pt[1] = p /\ pt[n + 2] = u
      /\ \A i \in 1..(n + 1) : pt[i] = ps[i]
  BY <1>1, <1>3
<1>7. /\ st[1] = s /\ st[n + 2] = v
      /\ \A i \in 1..(n + 1) : st[i] = ss[i]
  BY <1>1, <1>3
<1> HIDE DEF pt, st
<1>8. ASSUME NEW i \in 1..(n + 1)
      PROVE  Turn(Append(l, b)[i], pt[i], st[i], pt[i + 1], st[i + 1])
  <2>1. CASE i = n + 1
    <3>1. i + 1 = n + 2 /\ i \in 1..(n + 1)
      BY <1>1, <2>1
    <3> QED
      BY <3>1, <2>1, <1>2, <1>3, <1>6, <1>7, Zenon
  <2>2. CASE i # n + 1
    <3>1. i \in 1..n /\ i + 1 \in 1..(n + 1)
      BY <1>1, <2>2
    <3> QED
      BY <3>1, <1>2, <1>3, <1>6, <1>7, Zenon
  <2> QED
    BY <2>1, <2>2
<1>9. Len(Append(l, b)) + 1 = n + 2
  BY <1>1, <1>2
<1> QED
  BY <1>2, <1>4, <1>5, <1>6, <1>7, <1>8, <1>9, Zenon DEF Run

\* The first byte takes one turn, and the others go on from there.
LEMMA RunHead ==
  ASSUME NEW l \in Seq(Bytes), l # <<>>, NEW p, NEW s, NEW q, NEW t, Run(l, p, s, q, t)
  PROVE  \E u \in States, v \in BOOLEAN :
           Turn(Head(l), p, s, u, v) /\ Run(Tail(l), u, v, q, t)
<1> DEFINE n == Len(l)
<1>1. n \in Nat \ {0} /\ Head(l) = l[1]
  BY EmptySeq
<1>2. Len(Tail(l)) = n - 1 /\ \A i \in 1..(n - 1) : Tail(l)[i] = l[i + 1]
  BY HeadTailProperties
<1>3. PICK ps \in [1..(n + 1) -> States], ss \in [1..(n + 1) -> BOOLEAN] :
        /\ ps[1] = p /\ ss[1] = s /\ ps[n + 1] = q /\ ss[n + 1] = t
        /\ \A i \in 1..n : Turn(l[i], ps[i], ss[i], ps[i + 1], ss[i + 1])
  BY DEF Run
<1> DEFINE pt == [i \in 1..n |-> ps[i + 1]]
           st == [i \in 1..n |-> ss[i + 1]]
<1> HIDE DEF n
<1>4. \A i \in 1..n : i \in 1..(n + 1) /\ i + 1 \in 1..(n + 1)
  BY <1>1
<1>5. pt \in [1..n -> States] /\ st \in [1..n -> BOOLEAN]
  BY <1>3, <1>4, Zenon
<1>6. \A i \in 1..n : pt[i] = ps[i + 1] /\ st[i] = ss[i + 1]
  BY Zenon
<1> HIDE DEF pt, st
<1>7. Turn(Head(l), p, s, pt[1], st[1])
  <2>1. 1 \in 1..n
    BY <1>1
  <2> QED
    BY <2>1, <1>1, <1>3, <1>6, Zenon
<1>8. pt[1] \in States /\ st[1] \in BOOLEAN
  <2>1. 1 \in 1..n
    BY <1>1
  <2> QED
    BY <2>1, <1>5, Zenon
<1>9. Run(Tail(l), pt[1], st[1], q, t)
  <2>1. Len(Tail(l)) + 1 = n /\ n \in 1..n
    BY <1>1, <1>2
  <2>2. pt[n] = q /\ st[n] = t
    BY <2>1, <1>3, <1>6, Zenon
  <2>3. ASSUME NEW i \in 1..Len(Tail(l))
        PROVE  Turn(Tail(l)[i], pt[i], st[i], pt[i + 1], st[i + 1])
    <3>1. i \in 1..(n - 1) /\ i \in 1..n /\ i + 1 \in 1..n
      BY <1>1, <1>2
    <3> QED
      BY <3>1, <1>2, <1>3, <1>6, Zenon
  <2> QED
    BY <2>1, <2>2, <2>3, <1>5, Zenon DEF Run
<1> QED
  BY <1>7, <1>8, <1>9

-----------------------------------------------------------------------------
(* What the keyboard sends.                                                *)

LEMMA CodesDisjoint ==
  /\ "e0" \in Codes /\ "f0" \in Codes /\ Keys \subseteq Codes
  /\ "e0" \notin Plain \cup Shifts \cup Mute \cup Scrolls
  /\ "f0" \notin Plain \cup Shifts \cup Mute \cup Scrolls
  BY CodesAssumption DEF Codes, Keys

LEMMA PrefixType == \A k : Prefix(k) \in Seq(Bytes) /\ Len(Prefix(k)) \in Nat
<1>1. Quiet("e0") \in Bytes
  BY QuietIsAByte, CodesDisjoint
<1> QED
  BY <1>1, LenProperties DEF Prefix

LEMMA MayType == TypeOK => \A k : May(k) \subseteq Chars
  BY NothingIsAChar DEF TypeOK, May, Chars, Shifted

LEMMA PressIsAByte == ASSUME TypeOK, NEW k \in Keys PROVE [kc |-> k, may |-> May(k)] \in Bytes
  BY MayType, CodesDisjoint DEF Bytes

LEMMA TwoIsConcat ==
  ASSUME NEW S, NEW b \in S, NEW c \in S
  PROVE  <<b, c>> = <<b>> \o <<c>>
<1> DEFINE l == Append(<<b>>, c)
           m == <<b, c>>
<1>1. <<b>> \in Seq(S) /\ Len(<<b>>) = 1 /\ <<b>>[1] = b
  OBVIOUS
<1>2. /\ l \in Seq(S) /\ Len(l) = Len(<<b>>) + 1 /\ l[Len(<<b>>) + 1] = c
      /\ \A i \in 1..Len(<<b>>) : l[i] = <<b>>[i]
  BY <1>1, AppendProperties
<1>3. Len(l) = 2 /\ l[1] = b /\ l[2] = c
  BY <1>1, <1>2
<1>4. m \in Seq(S) /\ Len(m) = 2 /\ m[1] = b /\ m[2] = c
  OBVIOUS
<1>5. l = <<b>> \o <<c>>
  BY <1>1, AppendIsConcat
<1> HIDE DEF l, m
<1>6. \A i \in 1..Len(l) : l[i] = m[i]
  BY <1>3, <1>4
<1>7. l = m
  BY <1>2, <1>3, <1>4, <1>6, SeqEqual
<1> QED
  BY <1>5, <1>7 DEF m

\* $e0 ends the loop of (key?) if it was in it, and changes no shift.
LEMMA RunPrefix ==
  ASSUME NEW l \in Seq(Bytes), NEW p, NEW s, NEW q \in States, NEW t \in BOOLEAN, NEW k,
         Run(l, p, s, q, t)
  PROVE  \E u \in States : /\ Run(l \o Prefix(k), p, s, u, t)
                           /\ u = "break" => q = "break"
<1>1. CASE k \in Extended
  <2>1. Quiet("e0") \in Bytes
    BY QuietIsAByte, CodesDisjoint
  <2>2. l \o Prefix(k) = Append(l, Quiet("e0"))
    BY <1>1, <2>1, AppendIsConcat DEF Prefix
  <2>3. /\ Quiet("e0").kc = "e0" /\ Quiet("e0").may = {Nothing}
        /\ "key?" \in States
    BY DEF Quiet, States
  <2>4. Turn(Quiet("e0"), q, t, "key?", t)
    BY <2>3, CodesDisjoint, Zenon DEF Turn
  <2>5. Run(Append(l, Quiet("e0")), p, s, "key?", t)
    BY <2>1, <2>3, <2>4, RunAppend
  <2> QED
    BY <2>2, <2>3, <2>5
<1>2. CASE k \notin Extended
  <2>1. l \o Prefix(k) = l
    BY <1>2, ConcatEmptySeq DEF Prefix
  <2> QED
    BY <2>1
<1> QED
  BY <1>1, <1>2

\* The bytes of a press come after those on the line, and fit.
LEMMA PressLine ==
  ASSUME TypeOK, NEW k \in Keys, Press(k)
  PROVE  /\ line' = Append(line \o Prefix(k), [kc |-> k, may |-> May(k)])
         /\ line \o Prefix(k) \in Seq(Bytes)
         /\ line' \in Seq(Bytes) /\ Len(line') <= Cap
<1> DEFINE b == [kc |-> k, may |-> May(k)]
<1>1. b \in Bytes /\ line \in Seq(Bytes)
  BY PressIsAByte DEF TypeOK
<1> HIDE DEF b
<1>2. /\ Prefix(k) \in Seq(Bytes) /\ Len(Prefix(k)) \in Nat /\ Len(line) \in Nat
      /\ <<b>> \in Seq(Bytes) /\ Len(<<b>>) = 1
  BY <1>1, PrefixType, LenProperties
<1>3. line' = line \o (Prefix(k) \o <<b>>) /\ Len(line) + Len(Prefix(k) \o <<b>>) <= Cap
  BY DEF Press, Sends, b
<1>4. /\ line \o Prefix(k) \in Seq(Bytes)
      /\ line' = (line \o Prefix(k)) \o <<b>>
  BY <1>1, <1>2, <1>3, ConcatProperties, ConcatAssociative
<1>5. line' = Append(line \o Prefix(k), b)
  BY <1>1, <1>4, AppendIsConcat
<1>6. line' \in Seq(Bytes)
  BY <1>1, <1>4, <1>5, AppendProperties
<1>7. Prefix(k) \o <<b>> \in Seq(Bytes)
  BY <1>2, ConcatProperties
<1>8. Len(line') = Len(line) + Len(Prefix(k) \o <<b>>)
  BY <1>1, <1>3, <1>7, ConcatProperties
<1> QED
  BY <1>3, <1>4, <1>5, <1>6, <1>8 DEF b

\* So do the bytes of a release.
LEMMA ReleaseLine ==
  ASSUME TypeOK, NEW k \in Keys, Release(k)
  PROVE  /\ line' = Append(Append(line \o Prefix(k), Quiet("f0")), Quiet(k))
         /\ line \o Prefix(k) \in Seq(Bytes)
         /\ line' \in Seq(Bytes) /\ Len(line') <= Cap
<1> DEFINE b == Quiet("f0")
           c == Quiet(k)
<1>1. b \in Bytes /\ c \in Bytes /\ line \in Seq(Bytes)
  BY QuietIsAByte, CodesDisjoint DEF TypeOK
<1> HIDE DEF b, c
<1>2. /\ Prefix(k) \in Seq(Bytes) /\ Len(Prefix(k)) \in Nat /\ Len(line) \in Nat
      /\ <<b>> \in Seq(Bytes) /\ <<c>> \in Seq(Bytes) /\ <<b, c>> = <<b>> \o <<c>>
  <2>1. Prefix(k) \in Seq(Bytes) /\ Len(Prefix(k)) \in Nat /\ Len(line) \in Nat
    BY <1>1, PrefixType, LenProperties
  <2>2. <<b>> \in Seq(Bytes) /\ <<c>> \in Seq(Bytes)
    BY <1>1
  <2>3. <<b, c>> = <<b>> \o <<c>>
    BY <1>1, TwoIsConcat
  <2> QED
    BY <2>1, <2>2, <2>3
<1>3. /\ line' = line \o (Prefix(k) \o (<<b>> \o <<c>>))
      /\ Len(line) + Len(Prefix(k) \o (<<b>> \o <<c>>)) <= Cap
  BY <1>2 DEF Release, Sends, b, c
<1>4. /\ line \o Prefix(k) \in Seq(Bytes)
      /\ <<b>> \o <<c>> \in Seq(Bytes)
  BY <1>1, <1>2, ConcatProperties
<1>5. line' = (line \o Prefix(k)) \o (<<b>> \o <<c>>)
  BY <1>1, <1>2, <1>3, <1>4, ConcatAssociative
<1>6. line' = ((line \o Prefix(k)) \o <<b>>) \o <<c>>
  BY <1>2, <1>4, <1>5, ConcatAssociative
<1>7. /\ (line \o Prefix(k)) \o <<b>> = Append(line \o Prefix(k), b)
      /\ Append(line \o Prefix(k), b) \in Seq(Bytes)
  BY <1>1, <1>4, AppendIsConcat, AppendProperties
<1>8. /\ line' = Append(Append(line \o Prefix(k), b), c)
      /\ line' \in Seq(Bytes)
  <2> DEFINE l == Append(line \o Prefix(k), b)
  <2>1. l \in Seq(Bytes) /\ line' = l \o <<c>>
    BY <1>6, <1>7
  <2> HIDE DEF l
  <2>2. line' = Append(l, c) /\ line' \in Seq(Bytes)
    BY <1>1, <2>1, AppendIsConcat, AppendProperties
  <2> QED
    BY <2>2 DEF l
<1>9. Prefix(k) \o (<<b>> \o <<c>>) \in Seq(Bytes)
  BY <1>2, <1>4, ConcatProperties
<1>10. Len(line') = Len(line) + Len(Prefix(k) \o (<<b>> \o <<c>>))
  BY <1>1, <1>3, <1>9, ConcatProperties
<1> QED
  BY <1>3, <1>4, <1>8, <1>10 DEF b, c

-----------------------------------------------------------------------------
(* Types, and what a press and a release do to the keys.                   *)

LEMMA TypeInit == Init => TypeOK
<1> SUFFICES ASSUME Init PROVE TypeOK
  OBVIOUS
<1>1. Quiet("e0") \in Bytes /\ Nothing \in Chars
  BY QuietIsAByte, CodesDisjoint, NothingIsAChar
<1>2. <<>> \in Seq(Bytes) /\ Len(<<>>) <= Cap
  BY CapAssumption, EmptySeq
<1> QED
  BY <1>1, <1>2 DEF Init, TypeOK

\* What (ps2kc) takes is one of the bytes that were sent.
LEMMA TakesType ==
  ASSUME TypeOK, NEW c, Takes(c)
  PROVE  /\ byte' \in Bytes /\ byte'.kc = c /\ byte' = Head(line) /\ line # <<>>
         /\ line' \in Seq(Bytes) /\ Len(line') <= Cap /\ line' = Tail(line)
<1>1. line \in Seq(Bytes) /\ line # <<>> /\ line' = Tail(line) /\ byte' = Head(line)
  BY DEF Takes, TypeOK
<1>2. byte' \in Bytes /\ line' \in Seq(Bytes) /\ Len(line') = Len(line) - 1
  BY <1>1, HeadTailProperties
<1>3. Len(line) \in Nat /\ Len(line) <= Cap
  BY <1>1, LenProperties DEF TypeOK
<1> QED
  BY <1>1, <1>2, <1>3, CapAssumption DEF Takes

(* A byte that is read does to (key?) what Turn says, whichever it is.     *)
LEMMA KeyTurns ==
  ASSUME TypeOK, key
  PROVE  /\ \E c : Takes(c)
         /\ UNCHANGED <<held, doubt, missed>>
         /\ pc' \in States /\ PS2_SHIFT' \in BOOLEAN /\ char' \in Chars
         /\ \A u, v : Turn(Head(line), pc, PS2_SHIFT, u, v) =>
              pc' = u /\ PS2_SHIFT' = v /\ char' \in byte'.may
<1> DEFINE b == Head(line)
           Good == /\ pc' \in States /\ PS2_SHIFT' \in BOOLEAN /\ char' \in Chars
                   /\ \A u, v : Turn(b, pc, PS2_SHIFT, u, v) =>
                        pc' = u /\ PS2_SHIFT' = v /\ char' \in byte'.may
<1>1. /\ pc \in States /\ PS2_SHIFT \in BOOLEAN /\ Nothing \in Chars
      /\ "key?" \in States /\ "break" \in States
  BY NothingIsAChar DEF TypeOK, States
<1>2. ASSUME NEW c, Takes(c)
      PROVE  b.kc = c /\ byte' = b /\ UNCHANGED <<held, doubt, missed>>
  BY <1>2 DEF Takes
<1> HIDE DEF b
<1>3. ASSUME Kept PROVE (\E c : Takes(c)) /\ Good
  <2>1. PICK c \in Scrolls : Takes(c)
    BY <1>3 DEF Kept
  <2>2. /\ pc' = pc /\ PS2_SHIFT' = PS2_SHIFT /\ char' = Nothing
        /\ b.kc \in Scrolls /\ b.kc \notin Plain \cup Shifts /\ byte' = b
    BY <1>2, <1>3, <2>1, KeysAssumption DEF Kept
  <2> QED
    BY <1>1, <1>2, <2>1, <2>2, Zenon DEF Turn
<1>4. ASSUME Ignore PROVE (\E c : Takes(c)) /\ Good
  <2>1. PICK c \in {"e0"} \cup Mute : Takes(c)
    BY <1>4 DEF Ignore
  <2>2. pc = "key?" /\ pc' = "key?" /\ PS2_SHIFT' = PS2_SHIFT /\ char' = Nothing
    BY <1>4 DEF Ignore, Returns
  <2>3. b.kc \notin Plain \cup Shifts /\ b.kc # "f0" /\ byte' = b
    BY <1>2, <2>1, KeysAssumption, CodesDisjoint
  <2> QED
    BY <1>1, <1>2, <2>1, <2>2, <2>3, Zenon DEF Turn
<1>5. ASSUME Break PROVE (\E c : Takes(c)) /\ Good
  <2>1. Takes("f0") /\ pc = "key?" /\ pc' = "break" /\ char' = Nothing /\ PS2_SHIFT' = PS2_SHIFT
    BY <1>5 DEF Break
  <2>2. b.kc = "f0" /\ b.kc \notin Plain \cup Shifts \cup Scrolls /\ byte' = b
    BY <1>2, <2>1, CodesDisjoint
  <2> QED
    BY <1>1, <1>2, <2>1, <2>2, Zenon DEF Turn
<1>6. ASSUME Broken PROVE (\E c : Takes(c)) /\ Good
  <2>1. PICK c \in Codes \ Scrolls : Takes(c) /\ PS2_SHIFT' = (PS2_SHIFT /\ c \notin Shifts)
    BY <1>6 DEF Broken
  <2>2. pc = "break" /\ pc # "key?" /\ pc' = "key?" /\ char' = Nothing
    BY <1>6 DEF Broken, Returns
  <2>3. b.kc = c /\ byte' = b
    BY <1>2, <2>1
  <2>4. PS2_SHIFT' \in BOOLEAN
    BY <2>1, Zenon
  <2>5. ASSUME NEW u, NEW v, Turn(b, pc, PS2_SHIFT, u, v)
        PROVE  pc' = u /\ PS2_SHIFT' = v /\ char' \in byte'.may
    <3>1. pc' = u /\ char' \in byte'.may
      BY <2>1, <2>2, <2>3, <2>5, Zenon DEF Turn
    <3>2. CASE c \in Shifts
      BY <2>1, <2>2, <2>3, <2>5, <3>2, Zenon DEF Turn
    <3>3. CASE c \notin Shifts
      <4>1. v = PS2_SHIFT
        BY <2>3, <2>5, <3>3, Zenon DEF Turn
      <4>2. PS2_SHIFT' = PS2_SHIFT
        BY <1>1, <2>1, <3>3, Zenon
      <4> QED
        BY <3>1, <4>1, <4>2
    <3> QED
      BY <3>1, <3>2, <3>3
  <2> QED
    BY <1>1, <1>2, <2>1, <2>2, <2>4, <2>5
<1>7. ASSUME Shift PROVE (\E c : Takes(c)) /\ Good
  <2>1. PICK c \in Shifts : Takes(c)
    BY <1>7 DEF Shift
  <2>2. pc = "key?" /\ pc' = "key?" /\ PS2_SHIFT' = TRUE /\ char' = Nothing
    BY <1>7 DEF Shift, Returns
  <2>3. b.kc \in Shifts /\ b.kc \notin Plain \cup Scrolls /\ b.kc # "f0" /\ byte' = b
    BY <1>2, <2>1, KeysAssumption, CodesDisjoint
  <2> QED
    BY <1>1, <1>2, <2>1, <2>2, <2>3, Zenon DEF Turn
<1>8. ASSUME NEW k \in Plain, Char(k) PROVE (\E c : Takes(c)) /\ Good
  <2>1. /\ Takes(k) /\ pc = "key?" /\ pc' = "key?" /\ PS2_SHIFT' = PS2_SHIFT
        /\ char' = [key |-> k, shifted |-> PS2_SHIFT]
    BY <1>8 DEF Char, Returns
  <2>2. b.kc = k /\ b.kc \notin Shifts \cup Scrolls /\ b.kc # "f0" /\ byte' = b
    BY <1>2, <2>1, KeysAssumption, CodesDisjoint
  <2>3. char' \in Chars
    BY <1>1, <2>1 DEF Chars
  <2> QED
    BY <1>1, <2>1, <2>2, <2>3, Zenon DEF Turn
<1>9. (\E c : Takes(c)) /\ Good
  BY <1>3, <1>4, <1>5, <1>6, <1>7, <1>8 DEF key
<1> QED
  BY <1>2, <1>9 DEF b

LEMMA TypeNext == TypeOK /\ [Next]_vars => TypeOK'
<1> SUFFICES ASSUME TypeOK, [Next]_vars PROVE TypeOK'
  OBVIOUS
<1>1. ASSUME NEW k \in Keys, Press(k) PROVE TypeOK'
  <2>1. line' \in Seq(Bytes) /\ Len(line') <= Cap
    BY <1>1, PressLine
  <2>2. held' \subseteq Keys /\ doubt' \in BOOLEAN /\ missed' \in BOOLEAN
    BY <1>1 DEF Press, TypeOK
  <2>3. UNCHANGED <<PS2_SHIFT, pc, byte, char>>
    BY <1>1 DEF Press, Sends
  <2> QED
    BY <2>1, <2>2, <2>3 DEF TypeOK
<1>2. ASSUME NEW k \in Keys, Release(k) PROVE TypeOK'
  <2>1. line' \in Seq(Bytes) /\ Len(line') <= Cap
    BY <1>2, ReleaseLine
  <2>2. held' \subseteq Keys /\ doubt' \in BOOLEAN /\ missed' \in BOOLEAN
    BY <1>2 DEF Release, TypeOK
  <2>3. UNCHANGED <<PS2_SHIFT, pc, byte, char>>
    BY <1>2 DEF Release, Sends
  <2> QED
    BY <2>1, <2>2, <2>3 DEF TypeOK
<1>3. CASE key
  <2>1. PICK c : Takes(c)
    BY <1>3, KeyTurns
  <2>2. byte' \in Bytes /\ line' \in Seq(Bytes) /\ Len(line') <= Cap
    BY <2>1, TakesType
  <2>3. /\ UNCHANGED <<held, doubt, missed>>
        /\ pc' \in States /\ PS2_SHIFT' \in BOOLEAN /\ char' \in Chars
    BY <1>3, KeyTurns
  <2> QED
    BY <2>2, <2>3 DEF TypeOK, States
<1>4. CASE UNCHANGED vars
  BY <1>4 DEF vars, TypeOK
<1> QED
  BY <1>1, <1>2, <1>3, <1>4 DEF Next

LEMMA KeysInit == Init => KeysKnown
  BY DEF Init, KeysKnown, Shifted

LEMMA KeysNext == TypeOK /\ KeysKnown /\ [Next]_vars => KeysKnown'
<1> SUFFICES ASSUME TypeOK, KeysKnown, [Next]_vars PROVE KeysKnown'
  OBVIOUS
<1>1. ASSUME NEW k \in Keys, Press(k) PROVE KeysKnown'
  <2>1. /\ \A h \in held \ {k} : {h, k} \cap Alone = {}
        /\ held' = held \cup {k}
        /\ doubt' = (doubt \/ (k \in Shifts /\ (missed \/ Shifted(held \ {k}))))
        /\ missed' = (missed /\ k \in Scrolls)
    BY <1>1 DEF Press
  <2>2. \A h, j \in held' : h # j => {h, j} \cap Alone = {}
    BY <2>1 DEF KeysKnown
  <2>3. missed' => held' \subseteq Scrolls
    BY <2>1 DEF KeysKnown
  <2>4. doubt' => Shifted(held')
    BY <2>1 DEF KeysKnown, Shifted
  <2>5. ~doubt' => \A h, j \in held' \cap Shifts : h = j
    BY <2>1 DEF KeysKnown, Shifted
  <2> QED
    BY <2>2, <2>3, <2>4, <2>5 DEF KeysKnown
<1>2. ASSUME NEW k \in Keys, Release(k) PROVE KeysKnown'
  <2>1. /\ k \in held /\ held' = held \ {k}
        /\ doubt' = (doubt /\ Shifted(held'))
        /\ missed' = (missed \/ k \in Scrolls)
    BY <1>2 DEF Release
  <2>2. \A h, j \in held' : h # j => {h, j} \cap Alone = {}
    BY <2>1 DEF KeysKnown
  <2>3. missed' => held' \subseteq Scrolls
    BY <2>1, AloneAssumption DEF KeysKnown
  <2>4. doubt' => Shifted(held')
    BY <2>1 DEF KeysKnown, Shifted
  <2>5. ~doubt' => \A h, j \in held' \cap Shifts : h = j
    BY <2>1 DEF KeysKnown, Shifted
  <2> QED
    BY <2>2, <2>3, <2>4, <2>5 DEF KeysKnown
<1>3. CASE key
  BY <1>3, KeyTurns DEF KeysKnown
<1>4. CASE UNCHANGED vars
  BY <1>4 DEF vars, KeysKnown
<1> QED
  BY <1>1, <1>2, <1>3, <1>4 DEF Next

-----------------------------------------------------------------------------
(* What is coming.                                                         *)

LEMMA ComingInit == Init => Coming
<1> SUFFICES ASSUME Init PROVE Coming
  OBVIOUS
<1>1. line = <<>> /\ pc \in States /\ PS2_SHIFT \in BOOLEAN
  BY DEF Init, States
<1>2. Run(line, pc, PS2_SHIFT, pc, PS2_SHIFT)
  BY <1>1, RunOfNone
<1>3. pc # "break" /\ PS2_SHIFT = Shifted(held)
  BY DEF Init, Shifted
<1> QED
  BY <1>1, <1>2, <1>3 DEF Coming

\* The code of a press turns (key?) as the keys and the doubts say.
LEMMA PressComes ==
  ASSUME TypeOK, KeysKnown, Coming, NEW k \in Keys, Press(k)
  PROVE  Coming'
<1> DEFINE b == [kc |-> k, may |-> May(k)]
<1>1. PICK q \in States, t \in BOOLEAN :
        /\ Run(line, pc, PS2_SHIFT, q, t)
        /\ q = "break" => missed
        /\ ~doubt => t = Shifted(held)
  BY DEF Coming
<1>2. line \in Seq(Bytes)
  BY DEF TypeOK
<1>3. PICK u \in States : /\ Run(line \o Prefix(k), pc, PS2_SHIFT, u, t)
                          /\ u = "break" => q = "break"
  BY <1>1, <1>2, RunPrefix
<1>4. /\ line' = Append(line \o Prefix(k), b)
      /\ line \o Prefix(k) \in Seq(Bytes)
  BY PressLine
<1>5. b \in Bytes
  BY PressIsAByte
<1>6. /\ held' = held \cup {k}
      /\ doubt' = (doubt \/ (k \in Shifts /\ (missed \/ Shifted(held \ {k}))))
      /\ missed' = (missed /\ k \in Scrolls)
      /\ UNCHANGED <<pc, PS2_SHIFT>>
  BY DEF Press, Sends
<1>7. b.kc = k /\ k # "f0"
  BY CodesDisjoint DEF Keys
<1>8. u # "key?" => missed
  BY <1>1, <1>3 DEF States
<1> DEFINE w == IF k \in Scrolls THEN u ELSE "key?"
           v == IF k \in Shifts THEN u = "key?" ELSE t
<1>9. w \in States /\ v \in BOOLEAN
  <2>1. w \in States
    BY DEF States
  <2>2. v \in BOOLEAN
    BY Zenon
  <2> QED
    BY <2>1, <2>2
<1>10. Turn(b, u, t, w, v)
  <2>1. w = IF b.kc \in Scrolls THEN u
            ELSE IF b.kc = "f0" /\ u = "key?" THEN "break" ELSE "key?"
    BY <1>7
  <2>2. v = IF b.kc \in Shifts THEN u = "key?" ELSE t
    BY <1>7, Zenon
  <2>3. ASSUME k \in Plain, u = "key?" PROVE [key |-> k, shifted |-> t] \in b.may
    <3>1. t \in IF doubt THEN BOOLEAN ELSE {Shifted(held)}
      BY <1>1, Zenon
    <3>2. [key |-> k, shifted |-> t]
            \in [key : {k}, shifted : IF doubt THEN BOOLEAN ELSE {Shifted(held)}]
      BY <3>1, Zenon
    <3> QED
      BY <2>3, <3>2 DEF May
  <2>4. ASSUME ~(k \in Plain /\ u = "key?") PROVE Nothing \in b.may
    BY <1>8, <2>4 DEF May
  <2> HIDE DEF w, v
  <2> QED
    BY <1>7, <2>1, <2>2, <2>3, <2>4, Zenon DEF Turn
<1>11. w = "break" => missed'
  BY <1>6, <1>8
<1>12. ~doubt' => v = Shifted(held')
  <2>1. CASE k \in Shifts
    <3>1. Shifted(held')
      BY <1>6, <2>1 DEF Shifted
    <3>2. ~doubt' => u = "key?"
      BY <1>6, <1>8, <2>1
    <3>3. u = "key?" => v = TRUE
      BY <2>1, Zenon
    <3> QED
      BY <3>1, <3>2, <3>3, Zenon
  <2>2. CASE k \notin Shifts
    <3>1. Shifted(held') = Shifted(held)
      BY <1>6, <2>2 DEF Shifted
    <3>2. v = t
      BY <2>2, Zenon
    <3>3. ~doubt' => ~doubt
      BY <1>6
    <3> QED
      BY <1>1, <3>1, <3>2, <3>3, Zenon
  <2> QED
    BY <2>1, <2>2
<1> HIDE DEF b, w, v
<1>13. Run(line', pc, PS2_SHIFT, w, v)
  BY <1>3, <1>4, <1>5, <1>9, <1>10, RunAppend
<1> QED
  BY <1>6, <1>9, <1>11, <1>12, <1>13, Zenon DEF Coming

\* So do $f0 and the code of a release: (key?) is not in its loop before them,
\* unless only scroll keys are down, and after them only for a scroll key.
LEMMA ReleaseComes ==
  ASSUME TypeOK, KeysKnown, Coming, NEW k \in Keys, Release(k)
  PROVE  Coming'
<1> DEFINE b == Quiet("f0")
           c == Quiet(k)
<1>1. PICK q \in States, t \in BOOLEAN :
        /\ Run(line, pc, PS2_SHIFT, q, t)
        /\ q = "break" => missed
        /\ ~doubt => t = Shifted(held)
  BY DEF Coming
<1>2. line \in Seq(Bytes)
  BY DEF TypeOK
<1>3. PICK u \in States : /\ Run(line \o Prefix(k), pc, PS2_SHIFT, u, t)
                          /\ u = "break" => q = "break"
  BY <1>1, <1>2, RunPrefix
<1>4. /\ line' = Append(Append(line \o Prefix(k), b), c)
      /\ line \o Prefix(k) \in Seq(Bytes)
  BY ReleaseLine
<1>5. b \in Bytes /\ c \in Bytes
  BY QuietIsAByte, CodesDisjoint
<1>6. /\ k \in held /\ held' = held \ {k}
      /\ doubt' = (doubt /\ Shifted(held'))
      /\ missed' = (missed \/ k \in Scrolls)
      /\ UNCHANGED <<pc, PS2_SHIFT>>
  BY DEF Release, Sends
<1>7. /\ b.kc = "f0" /\ "f0" \notin Plain \cup Shifts \cup Scrolls /\ b.may = {Nothing}
      /\ c.kc = k /\ k # "f0" /\ c.may = {Nothing}
  BY CodesDisjoint DEF Quiet, Keys
<1>8. k \notin Scrolls => u = "key?"
  BY <1>1, <1>3, <1>6 DEF States, KeysKnown
<1>9. k \in Scrolls => k \notin Plain \cup Shifts
  BY KeysAssumption
<1> DEFINE w == IF u = "key?" THEN "break" ELSE "key?"
           x == IF k \in Scrolls THEN w ELSE "key?"
           v == IF k \in Shifts THEN w = "key?" ELSE t
<1>10. w \in States /\ x \in States /\ v \in BOOLEAN
  <2>1. w \in States /\ x \in States
    BY DEF States
  <2>2. v \in BOOLEAN
    BY Zenon
  <2> QED
    BY <2>1, <2>2
<1>11. k \notin Scrolls => w = "break" /\ w # "key?"
  BY <1>8
<1>12. v = IF k \in Shifts THEN FALSE ELSE t
  BY <1>9, <1>11, Zenon
<1>13. x = "break" => missed'
  BY <1>6
<1>14. ~doubt' => v = Shifted(held')
  <2>1. CASE k \in Shifts
    <3>1. ~doubt' => ~Shifted(held')
      <4>1. CASE doubt
        BY <1>6, <4>1, Zenon
      <4>2. CASE ~doubt
        <5>1. \A h, j \in held \cap Shifts : h = j
          BY <4>2 DEF KeysKnown
        <5> QED
          BY <1>6, <2>1, <5>1 DEF Shifted
      <4> QED
        BY <4>1, <4>2
    <3>2. v = FALSE
      BY <1>12, <2>1, Zenon
    <3>3. ~Shifted(held') => Shifted(held') = FALSE
      BY Zenon DEF Shifted
    <3> QED
      BY <3>1, <3>2, <3>3, Zenon
  <2>2. CASE k \notin Shifts
    <3>1. Shifted(held') = Shifted(held)
      BY <1>6, <2>2 DEF Shifted
    <3>2. ~doubt' => ~doubt
      BY <1>6, <3>1 DEF KeysKnown
    <3> QED
      BY <1>1, <1>12, <2>2, <3>1, <3>2, Zenon
  <2> QED
    BY <2>1, <2>2
<1>15. Turn(b, u, t, w, t)
  <2>1. w = IF b.kc \in Scrolls THEN u
            ELSE IF b.kc = "f0" /\ u = "key?" THEN "break" ELSE "key?"
    BY <1>7
  <2> HIDE DEF w
  <2> QED
    BY <1>7, <2>1, Zenon DEF Turn
<1>16. Turn(c, w, t, x, v)
  <2>1. x = IF c.kc \in Scrolls THEN w
            ELSE IF c.kc = "f0" /\ w = "key?" THEN "break" ELSE "key?"
    BY <1>7
  <2>2. v = IF c.kc \in Shifts THEN w = "key?" ELSE t
    BY <1>7, Zenon
  <2>3. ~(k \in Plain /\ w = "key?")
    BY <1>9, <1>11
  <2> HIDE DEF w, x, v
  <2> QED
    BY <1>7, <2>1, <2>2, <2>3, Zenon DEF Turn
<1> HIDE DEF b, c, w, x, v
<1>17. Run(Append(line \o Prefix(k), b), pc, PS2_SHIFT, w, t)
  BY <1>3, <1>4, <1>5, <1>10, <1>15, RunAppend
<1>18. Append(line \o Prefix(k), b) \in Seq(Bytes)
  BY <1>4, <1>5, AppendProperties
<1>19. Run(line', pc, PS2_SHIFT, x, v)
  BY <1>4, <1>5, <1>10, <1>16, <1>17, <1>18, RunAppend
<1> QED
  BY <1>6, <1>10, <1>13, <1>14, <1>19, Zenon DEF Coming

\* (key?) does with a byte what was to come.
LEMMA KeyComes ==
  ASSUME TypeOK, Coming, key
  PROVE  Coming' /\ Faithful'
<1>1. PICK q \in States, t \in BOOLEAN :
        /\ Run(line, pc, PS2_SHIFT, q, t)
        /\ q = "break" => missed
        /\ ~doubt => t = Shifted(held)
  BY DEF Coming
<1>2. PICK c : Takes(c)
  BY KeyTurns
<1>3. line \in Seq(Bytes) /\ line # <<>> /\ line' = Tail(line)
  BY <1>2, TakesType DEF TypeOK
<1>4. PICK u \in States, v \in BOOLEAN :
        Turn(Head(line), pc, PS2_SHIFT, u, v) /\ Run(Tail(line), u, v, q, t)
  BY <1>1, <1>3, RunHead
<1>5. pc' = u /\ PS2_SHIFT' = v /\ char' \in byte'.may /\ UNCHANGED <<held, doubt, missed>>
  BY <1>4, KeyTurns
<1>6. Run(line', pc', PS2_SHIFT', q, t)
  BY <1>3, <1>4, <1>5
<1>7. (q = "break" => missed') /\ (~doubt' => t = Shifted(held'))
  <2>1. missed' = missed /\ doubt' = doubt /\ Shifted(held') = Shifted(held)
    BY <1>5
  <2> QED
    BY <1>1, <2>1, Zenon
<1>8. Coming'
  BY <1>6, <1>7, Zenon DEF Coming
<1> QED
  BY <1>5, <1>8 DEF Faithful

-----------------------------------------------------------------------------
LEMMA InvInit == Init => Inv
<1>1. Init => Faithful
  BY DEF Init, Faithful, Quiet
<1> QED
  BY <1>1, TypeInit, KeysInit, ComingInit DEF Inv

LEMMA InvNext == Inv /\ [Next]_vars => Inv'
<1> SUFFICES ASSUME Inv, [Next]_vars PROVE Inv'
  OBVIOUS
<1>1. TypeOK' /\ KeysKnown'
  BY TypeNext, KeysNext DEF Inv
<1>2. ASSUME NEW k \in Keys, Press(k) PROVE Coming' /\ Faithful'
  <2>1. Coming'
    BY <1>2, PressComes DEF Inv
  <2>2. UNCHANGED <<byte, char>>
    BY <1>2 DEF Press, Sends
  <2> QED
    BY <2>1, <2>2 DEF Inv, Faithful
<1>3. ASSUME NEW k \in Keys, Release(k) PROVE Coming' /\ Faithful'
  <2>1. Coming'
    BY <1>3, ReleaseComes DEF Inv
  <2>2. UNCHANGED <<byte, char>>
    BY <1>3 DEF Release, Sends
  <2> QED
    BY <2>1, <2>2 DEF Inv, Faithful
<1>4. ASSUME key PROVE Coming' /\ Faithful'
  BY <1>4, KeyComes DEF Inv
<1>5. CASE UNCHANGED vars
  <2>1. UNCHANGED <<held, line, PS2_SHIFT, pc, doubt, missed>>
    BY <1>5 DEF vars
  <2>2. Coming'
    BY <2>1, Zenon DEF Inv, Coming
  <2> QED
    BY <1>1, <1>5, <2>2 DEF vars, Inv, Faithful
<1> QED
  BY <1>1, <1>2, <1>3, <1>4, <1>5 DEF Next, Inv

(* With no byte on its way, what is coming is what is.                     *)
LEMMA InvShows == Inv => ShiftKnown
<1> SUFFICES ASSUME Inv, line = <<>>, ~doubt PROVE PS2_SHIFT = Shifted(held)
  BY DEF ShiftKnown
<1>1. PICK q \in States, t \in BOOLEAN :
        Run(<<>>, pc, PS2_SHIFT, q, t) /\ t = Shifted(held)
  BY DEF Inv, Coming
<1>2. pc \in States /\ PS2_SHIFT \in BOOLEAN
  BY DEF Inv, TypeOK, States
<1>3. t = PS2_SHIFT
  BY <1>1, <1>2, RunOfNone
<1> QED
  BY <1>1, <1>3

\* All of it holds in every state.
THEOREM Invariance == Spec => []Inv
  BY InvInit, InvNext, PTL DEF Spec

\* The variables keep their types: the line holds no more than Cap bytes, and
\* (key?) returns nothing but the characters of the table.
THEOREM Types == Spec => []TypeOK
<1>1. Inv => TypeOK
  BY DEF Inv
<1> QED
  BY <1>1, Invariance, PTL

\* Whatever the keys, and however many bytes are on their way: each byte comes
\* out of (key?) as the character its press may come out as, or as nothing.
THEOREM Typing == Spec => []Faithful
<1>1. Inv => Faithful
  BY DEF Inv
<1> QED
  BY <1>1, Invariance, PTL

\* And once all are read PS2_SHIFT is on if a shift key is down, off if none is.
THEOREM Shifting == Spec => []ShiftKnown
  BY InvShows, Invariance, PTL
=============================================================================
