--------------------------- MODULE KeyboardProofs ---------------------------
(***************************************************************************)
(* The keyboard, for any keys, ring size and bounds: whoever takes the     *)
(* bytes, the ring holds what was typed and the key state follows the      *)
(* keys.  The bytes on their way are a debt: decoding them, from the       *)
(* decoder's state of now, must end in the state that the keys held down   *)
(* imply, and must yield exactly the keys typed and not yet decoded.       *)
(***************************************************************************)
EXTENDS Keyboard, ArithmeticLemmas, TLAPS

(***************************************************************************)
(* The decoder as a function.                                              *)
(***************************************************************************)
Decoders ==
  [shift : BOOLEAN, ctrl : BOOLEAN, ext : BOOLEAN,
   down : SUBSET Letters, edown : SUBSET Arrows]

\* The bytes the keyboard may send next.
Fits(d, b) ==
  /\ b \in Byte
  /\ IF d.ext THEN b.code \in Arrows
     ELSE b = Prefix \/ b.code \in Letters \cup {"shift", "ctrl"}

KeysAfter(S, b) == IF b.make THEN S \cup {b.code} ELSE S \ {b.code}

Decoded(d, b) ==
  [shift |-> IF ~d.ext /\ b.code = "shift" THEN b.make ELSE d.shift,
   ctrl  |-> IF ~d.ext /\ b.code = "ctrl" THEN b.make ELSE d.ctrl,
   ext   |-> ~d.ext /\ b = Prefix,
   down  |-> IF ~d.ext /\ b.code \in Letters THEN KeysAfter(d.down, b) ELSE d.down,
   edown |-> IF d.ext THEN KeysAfter(d.edown, b) ELSE d.edown]

Yields(d, b) ==
  b.make /\ (d.ext \/ (b.code \in Letters /\ ~ (d.ctrl /\ b.code = "c")))

KeyOf(d, b) ==
  Ascii(b.code, IF d.ext THEN "key" ELSE IF d.ctrl THEN "control"
                ELSE IF d.shift THEN "upper" ELSE "lower")

\* Decoding the bytes P leads from d to e and yields the keys T: s holds the
\* states on the way, c how many keys came before each byte.
Way(P, T, d, e, s, c) ==
  /\ s[1] = d /\ s[Len(P) + 1] = e
  /\ c[1] = 0 /\ c[Len(P) + 1] = Len(T)
  /\ \A i \in 1 .. Len(P) :
       /\ Fits(s[i], P[i]) /\ s[i + 1] = Decoded(s[i], P[i])
       /\ IF Yields(s[i], P[i])
          THEN c[i + 1] = c[i] + 1 /\ c[i] < Len(T) /\ T[c[i] + 1] = KeyOf(s[i], P[i])
          ELSE c[i + 1] = c[i]

Leads(P, T, d, e) ==
  \E s \in [1 .. Len(P) + 1 -> Decoders], c \in [1 .. Len(P) + 1 -> Nat] :
    Way(P, T, d, e, s, c)

LEMMA DecodedType ==
  ASSUME NEW d \in Decoders, NEW b, Fits(d, b)
  PROVE  /\ Decoded(d, b) \in Decoders
         /\ Yields(d, b) \in BOOLEAN
         /\ Yields(d, b) => KeyOf(d, b) \in KeyCode
<1>1. b \in Byte /\ b.make \in BOOLEAN
  BY DEF Fits, Byte
<1>2. d.ext \in BOOLEAN /\ d.shift \in BOOLEAN /\ d.ctrl \in BOOLEAN
      /\ d.down \subseteq Letters /\ d.edown \subseteq Arrows
  BY DEF Decoders
<1>3. KeysAfter(d.down, b) \subseteq d.down \cup {b.code}
      /\ KeysAfter(d.edown, b) \subseteq d.edown \cup {b.code}
  BY DEF KeysAfter
<1>4. d.ext => b.code \in Arrows
  BY DEF Fits
<1>5. Decoded(d, b) \in Decoders
  BY <1>1, <1>2, <1>3, <1>4 DEF Decoded, Decoders
<1>6. Yields(d, b) \in BOOLEAN
  BY DEF Yields
<1>7. Yields(d, b) => b.code \in Letters \cup Arrows
  BY <1>4 DEF Yields
<1> QED
  BY <1>5, <1>6, <1>7 DEF KeyOf, KeyCode, Ascii

LEMMA NothingLeads ==
  ASSUME NEW d \in Decoders
  PROVE  Leads(<<>>, <<>>, d, d)
<1> DEFINE s == [i \in 1 .. 1 |-> d]
           c == [i \in 1 .. 1 |-> 0]
<1>1. s \in [1 .. Len(<<>>) + 1 -> Decoders] /\ c \in [1 .. Len(<<>>) + 1 -> Nat]
  OBVIOUS
<1>2. Way(<<>>, <<>>, d, d, s, c)
  BY DEF Way
<1> QED
  BY <1>1, <1>2 DEF Leads

\* With no byte on its way nothing is owed.
LEMMA LeadsNowhere ==
  ASSUME NEW T \in Seq(KeyCode), NEW d, NEW e, Leads(<<>>, T, d, e)
  PROVE  T = <<>> /\ d = e
BY DEF Leads, Way

\* The keyboard sends one byte more.
LEMMA LeadsAppend ==
  ASSUME NEW P \in Seq(Byte), NEW T \in Seq(KeyCode), NEW d, NEW e \in Decoders,
         Leads(P, T, d, e), NEW b, Fits(e, b)
  PROVE  Leads(Append(P, b), IF Yields(e, b) THEN Append(T, KeyOf(e, b)) ELSE T,
               d, Decoded(e, b))
<1> DEFINE n == Len(P)
           U == IF Yields(e, b) THEN Append(T, KeyOf(e, b)) ELSE T
<1>1. PICK s \in [1 .. n + 1 -> Decoders], c \in [1 .. n + 1 -> Nat] : Way(P, T, d, e, s, c)
  BY DEF Leads
<1> DEFINE s2 == [i \in 1 .. n + 2 |-> IF i = n + 2 THEN Decoded(e, b) ELSE s[i]]
           c2 == [i \in 1 .. n + 2 |-> IF i = n + 2 THEN Len(U) ELSE c[i]]
<1>2. b \in Byte /\ n \in Nat /\ Append(P, b) \in Seq(Byte) /\ Len(Append(P, b)) = n + 1
  BY DEF Fits
<1>3. /\ Len(T) \in Nat
      /\ Yields(e, b) => /\ U \in Seq(KeyCode) /\ Len(U) = Len(T) + 1
                         /\ U[Len(T) + 1] = KeyOf(e, b)
                         /\ \A i \in 1 .. Len(T) : U[i] = T[i]
      /\ ~Yields(e, b) => U = T
  BY DecodedType
<1> HIDE DEF U, n
<1>4. s2 \in [1 .. Len(Append(P, b)) + 1 -> Decoders]
      /\ c2 \in [1 .. Len(Append(P, b)) + 1 -> Nat]
  BY <1>1, <1>2, <1>3, DecodedType
<1>5. /\ s2[1] = d /\ s2[Len(Append(P, b)) + 1] = Decoded(e, b)
      /\ c2[1] = 0 /\ c2[Len(Append(P, b)) + 1] = Len(U)
  BY <1>1, <1>2, <1>3 DEF Way, n
<1>6. ASSUME NEW i \in 1 .. n + 1
      PROVE  /\ Fits(s2[i], Append(P, b)[i])
             /\ s2[i + 1] = Decoded(s2[i], Append(P, b)[i])
             /\ IF Yields(s2[i], Append(P, b)[i])
                THEN /\ c2[i + 1] = c2[i] + 1 /\ c2[i] < Len(U)
                     /\ U[c2[i] + 1] = KeyOf(s2[i], Append(P, b)[i])
                ELSE c2[i + 1] = c2[i]
  <2>1. CASE i = n + 1
    <3>1. Append(P, b)[i] = b /\ s2[i] = e /\ s2[i + 1] = Decoded(e, b)
      BY <1>1, <1>2, <2>1 DEF Way, n
    <3>2. c2[i] = Len(T) /\ c2[i + 1] = Len(U)
      BY <1>1, <1>2, <2>1 DEF Way, n
    <3> HIDE DEF s2, c2
    <3>3. CASE Yields(e, b)
      <4>1. Len(U) = Len(T) + 1 /\ U[Len(T) + 1] = KeyOf(e, b) /\ Len(T) < Len(U)
        BY <1>3, <3>3
      <4> QED
        BY <3>1, <3>2, <3>3, <4>1
    <3>4. CASE ~Yields(e, b)
      BY <1>3, <3>1, <3>2, <3>4
    <3> QED
      BY <3>3, <3>4
  <2>2. CASE i \in 1 .. n
    <3>1. Append(P, b)[i] = P[i] /\ s2[i] = s[i] /\ s2[i + 1] = s[i + 1]
          /\ c2[i] = c[i] /\ c2[i + 1] = c[i + 1] /\ c[i] \in Nat
      BY <1>1, <1>2, <2>2 DEF n
    <3>2. /\ Fits(s[i], P[i]) /\ s[i + 1] = Decoded(s[i], P[i])
          /\ IF Yields(s[i], P[i])
             THEN c[i + 1] = c[i] + 1 /\ c[i] < Len(T) /\ T[c[i] + 1] = KeyOf(s[i], P[i])
             ELSE c[i + 1] = c[i]
      BY <1>1, <2>2 DEF Way, n
    <3>3. c[i] < Len(T) => c[i] < Len(U) /\ U[c[i] + 1] = T[c[i] + 1]
      <4>1. SUFFICES ASSUME c[i] < Len(T)
                     PROVE  c[i] < Len(U) /\ U[c[i] + 1] = T[c[i] + 1]
        OBVIOUS
      <4>2. PICK a \in 1 .. Len(T) : a = c[i] + 1
        BY <1>3, <3>1, <4>1
      <4>3. CASE Yields(e, b)
        <5>1. U[a] = T[a] /\ Len(U) = Len(T) + 1
          BY <1>3, <4>3
        <5> QED
          BY <1>3, <3>1, <4>1, <4>2, <5>1
      <4>4. CASE ~Yields(e, b)
        BY <1>3, <4>1, <4>4
      <4> QED
        BY <4>3, <4>4
    <3> HIDE DEF s2, c2
    <3> QED
      BY <3>1, <3>2, <3>3
  <2> QED
    BY <1>2, <2>1, <2>2
<1>7. Way(Append(P, b), U, d, Decoded(e, b), s2, c2)
  <2> HIDE DEF s2, c2
  <2> QED
    BY <1>2, <1>5, <1>6 DEF Way
<1> QED
  <2> HIDE DEF s2, c2
  <2> QED
    BY <1>4, <1>7 DEF Leads, U

\* The kernel takes one byte: it is one that fits, and its key was typed next.
LEMMA LeadsTail ==
  ASSUME NEW P \in Seq(Byte), P # <<>>, NEW T \in Seq(KeyCode), NEW d, NEW e,
         Leads(P, T, d, e)
  PROVE  /\ d \in Decoders /\ Fits(d, Head(P))
         /\ Yields(d, Head(P)) => T # <<>> /\ Head(T) = KeyOf(d, Head(P))
         /\ Leads(Tail(P), IF Yields(d, Head(P)) THEN Tail(T) ELSE T,
                  Decoded(d, Head(P)), e)
<1> DEFINE n == Len(P)
           b == Head(P)
           U == IF Yields(d, b) THEN Tail(T) ELSE T
<1>1. PICK s \in [1 .. n + 1 -> Decoders], c \in [1 .. n + 1 -> Nat] : Way(P, T, d, e, s, c)
  BY DEF Leads
<1>2. n \in Nat \ {0} /\ b = P[1] /\ Tail(P) \in Seq(Byte) /\ Len(Tail(P)) = n - 1
      /\ \A i \in 1 .. n - 1 : Tail(P)[i] = P[i + 1]
  OBVIOUS
<1> HIDE DEF n, b
<1>3. d \in Decoders /\ s[1] = d /\ Fits(d, b) /\ s[2] = Decoded(d, b)
  <2>1. 1 \in 1 .. n /\ 1 \in 1 .. n + 1 /\ 1 + 1 = 2
    BY <1>2
  <2>2. s[1] = d /\ Fits(s[1], P[1]) /\ s[1 + 1] = Decoded(s[1], P[1])
    BY <1>1, <2>1 DEF Way, n
  <2>3. s[1] \in Decoders
    BY <1>1, <2>1
  <2> QED
    BY <1>2, <2>1, <2>2, <2>3
<1>4. c[1] = 0 /\ IF Yields(d, b) THEN c[2] = 1 /\ 0 < Len(T) /\ T[1] = KeyOf(d, b)
                  ELSE c[2] = 0
  BY <1>1, <1>2, <1>3 DEF Way, n
<1>5. Yields(d, b) => T # <<>> /\ Head(T) = KeyOf(d, b)
  BY <1>4
<1>6. PICK g \in {0, 1} : g = IF Yields(d, b) THEN 1 ELSE 0
  OBVIOUS
<1>7. /\ c[2] = g /\ Len(U) = Len(T) - g /\ Len(T) \in Nat
      /\ \A i \in 1 .. Len(T) - g : U[i] = T[i + g]
  BY <1>4, <1>6
<1> HIDE DEF U
\* The counts never fall below what the first byte yielded.
<1>8. \A i \in 1 .. n + 1 : i >= 2 => c[i] >= g
  <2> DEFINE Low == {i \in 2 .. n + 1 : c[i] < g}
  <2>1. SUFFICES ASSUME Low # {} PROVE FALSE
    <3>1. ASSUME NEW i \in 1 .. n + 1, i >= 2, ~ (c[i] >= g) PROVE Low # {}
      <4>1. c[i] \in Nat /\ g \in Nat
        BY <1>1, <1>6
      <4>2. i \in 2 .. n + 1 /\ c[i] < g
        BY <1>2, <3>1, <4>1
      <4> QED
        BY <4>2
    <3> HIDE DEF Low
    <3> QED
      BY <2>1, <3>1
  <2>2. PICK m \in Low : \A i \in Low : m <= i
    <3>1. Low \subseteq Nat
      BY <1>2
    <3> HIDE DEF Low
    <3> QED
      BY <2>1, <3>1, MinNat
  <2>3. m # 2
    BY <1>6, <1>7, <2>2
  <2>4. m - 1 \in 2 .. n /\ m - 1 \notin Low
    BY <1>2, <2>2, <2>3
  <2>5. c[m - 1] >= g /\ c[m - 1] \in Nat /\ c[m] \in Nat
    BY <1>1, <1>2, <1>6, <2>4
  <2>6. c[(m - 1) + 1] >= c[m - 1]
    <3>1. PICK i \in 1 .. n : i = m - 1
      BY <1>2, <2>4
    <3>2. IF Yields(s[i], P[i]) THEN c[i + 1] = c[i] + 1 ELSE c[i + 1] = c[i]
      BY <1>1, <3>1 DEF Way, n
    <3>3. c[i + 1] = c[i] + 1 \/ c[i + 1] = c[i]
      BY <3>2
    <3>4. c[i] \in Nat
      BY <2>5, <3>1
    <3> QED
      BY <3>1, <3>3, <3>4
  <2> QED
    BY <1>6, <2>2, <2>4, <2>5, <2>6
<1> DEFINE s2 == [i \in 1 .. n |-> s[i + 1]]
           c2 == [i \in 1 .. n |-> c[i + 1] - g]
<1>9. s2 \in [1 .. Len(Tail(P)) + 1 -> Decoders]
  BY <1>1, <1>2
<1>10. c2 \in [1 .. Len(Tail(P)) + 1 -> Nat]
  <2>1. ASSUME NEW i \in 1 .. n PROVE c[i + 1] - g \in Nat
    BY <1>1, <1>2, <1>6, <1>8
  <2> QED
    BY <1>2, <2>1
<1>11. /\ s2[1] = Decoded(d, b) /\ s2[Len(Tail(P)) + 1] = e
       /\ c2[1] = 0 /\ c2[Len(Tail(P)) + 1] = Len(U)
  BY <1>1, <1>2, <1>3, <1>6, <1>7 DEF Way, n
<1>12. ASSUME NEW i \in 1 .. n - 1
       PROVE  /\ Fits(s2[i], Tail(P)[i]) /\ s2[i + 1] = Decoded(s2[i], Tail(P)[i])
              /\ IF Yields(s2[i], Tail(P)[i])
                 THEN /\ c2[i + 1] = c2[i] + 1 /\ c2[i] < Len(U)
                      /\ U[c2[i] + 1] = KeyOf(s2[i], Tail(P)[i])
                 ELSE c2[i + 1] = c2[i]
  <2>1. PICK j \in 2 .. n : j = i + 1
    BY <1>2
  <2>2. /\ Tail(P)[i] = P[j] /\ s2[i] = s[j] /\ s2[i + 1] = s[j + 1]
        /\ c2[i] = c[j] - g /\ c2[i + 1] = c[j + 1] - g
        /\ c[j] \in Nat /\ c[j + 1] \in Nat /\ c[j] >= g
    <3>1. i \in 1 .. n /\ i + 1 \in 1 .. n /\ j + 1 = (i + 1) + 1
      BY <1>2, <2>1
    <3>2. s2[i] = s[j] /\ s2[i + 1] = s[j + 1]
      BY <2>1, <3>1
    <3>3. c2[i] = c[j] - g /\ c2[i + 1] = c[j + 1] - g
      BY <2>1, <3>1
    <3>4. j \in 1 .. n + 1 /\ j + 1 \in 1 .. n + 1 /\ j \in 2 .. n + 1
      BY <1>2, <2>1
    <3>5. c[j] \in Nat /\ c[j + 1] \in Nat /\ c[j] >= g
      BY <1>1, <1>8, <3>4
    <3>6. Tail(P)[i] = P[j]
      BY <1>2, <2>1, <3>1
    <3> QED
      BY <3>2, <3>3, <3>5, <3>6
  <2>3. /\ Fits(s[j], P[j]) /\ s[j + 1] = Decoded(s[j], P[j])
        /\ IF Yields(s[j], P[j])
           THEN c[j + 1] = c[j] + 1 /\ c[j] < Len(T) /\ T[c[j] + 1] = KeyOf(s[j], P[j])
           ELSE c[j + 1] = c[j]
    BY <1>1, <1>2, <2>1 DEF Way, n
  <2>4. c[j] < Len(T) => c[j] - g < Len(U) /\ U[(c[j] - g) + 1] = T[c[j] + 1]
    <3>1. SUFFICES ASSUME c[j] < Len(T)
                   PROVE  c[j] - g < Len(U) /\ U[(c[j] - g) + 1] = T[c[j] + 1]
      OBVIOUS
    <3>2. PICK a \in 1 .. Len(T) - g : a = (c[j] - g) + 1
      BY <1>6, <1>7, <2>2, <3>1
    <3> HIDE DEF s2, c2
    <3>3. U[a] = T[a + g]
      BY <1>7
    <3>4. a + g = c[j] + 1 /\ c[j] - g < Len(U)
      BY <1>6, <1>7, <2>2, <3>1, <3>2
    <3> QED
      BY <3>2, <3>3, <3>4
  <2> HIDE DEF s2, c2
  <2>5. c[j + 1] = c[j] + 1 => c[j + 1] - g = (c[j] - g) + 1
    <3>1. c[j] \in Int /\ g \in Int
      BY <1>6, <2>2
    <3>2. \A u, v \in Int : (u + 1) - v = (u - v) + 1
      OBVIOUS
    <3> QED
      BY <3>1, <3>2
  <2>6. CASE Yields(s[j], P[j])
    <3>1. c2[i + 1] = c2[i] + 1 /\ c2[i] < Len(U) /\ U[c2[i] + 1] = KeyOf(s[j], P[j])
      BY <2>2, <2>3, <2>4, <2>5, <2>6
    <3> QED
      BY <2>2, <2>3, <2>6, <3>1
  <2>7. CASE ~Yields(s[j], P[j])
    BY <2>2, <2>3, <2>7
  <2> QED
    BY <2>6, <2>7
<1>13. Way(Tail(P), U, Decoded(d, b), e, s2, c2)
  <2> HIDE DEF s2, c2
  <2> QED
    BY <1>2, <1>11, <1>12 DEF Way
<1>14. Leads(Tail(P), U, Decoded(d, b), e)
  <2> HIDE DEF s2, c2
  <2> QED
    BY <1>9, <1>10, <1>13 DEF Leads
<1> QED
  BY <1>3, <1>5, <1>14 DEF U, b

(***************************************************************************)
(* The ring, with the distances between head and tail made linear.         *)
(***************************************************************************)
LEMMA ModNear ==
  ASSUME NEW N \in Nat \ {0}, NEW x \in Int, 0 - N <= x, x < N + N
  PROVE  x % N = IF x < 0 THEN x + N ELSE IF x < N THEN x ELSE x - N
<1>1. CASE x < 0
  <2>1. x + N \in 0 .. N - 1 /\ x = N * (-1) + (x + N)
    BY <1>1
  <2> QED
    BY <1>1, <2>1, DivUnique, -1 \in Int
<1>2. CASE x \in 0 .. N - 1
  <2>1. x = N * 0 + x
    OBVIOUS
  <2> QED
    BY <1>2, <2>1, DivUnique
<1>3. CASE x >= N
  <2>1. x - N \in 0 .. N - 1 /\ x = N * 1 + (x - N)
    BY <1>3
  <2> QED
    BY <1>3, <2>1, DivUnique
<1> QED
  BY <1>1, <1>2, <1>3

Wrapped(x) == IF x < KBD_BUF_SIZE THEN x ELSE x - KBD_BUF_SIZE
Distance(h, t) == IF h >= t THEN h - t ELSE (h - t) + KBD_BUF_SIZE

LEMMA ModWrapped ==
  ASSUME NEW x \in Nat, x < KBD_BUF_SIZE + KBD_BUF_SIZE
  PROVE  x % KBD_BUF_SIZE = Wrapped(x)
<1>1. KBD_BUF_SIZE \in Nat \ {0} /\ x \in Int /\ 0 - KBD_BUF_SIZE <= x /\ ~ (x < 0)
  BY KeyboardAssumption
<1>2. x % KBD_BUF_SIZE = IF x < 0 THEN x + KBD_BUF_SIZE
                         ELSE IF x < KBD_BUF_SIZE THEN x ELSE x - KBD_BUF_SIZE
  BY <1>1, ModNear
<1> QED
  BY <1>1, <1>2 DEF Wrapped

LEMMA RingArithmetic ==
  ASSUME NEW h \in Slots, NEW t \in Slots
  PROVE  /\ (h - t) % KBD_BUF_SIZE = Distance(h, t)
         /\ Succ(h) = Wrapped(h + 1) /\ Succ(h) \in Slots
         /\ \A n \in 1 .. KBD_BUF_SIZE :
              /\ (t + n - 1) % KBD_BUF_SIZE = Wrapped((t + n) - 1)
              /\ Wrapped((t + n) - 1) \in Slots
<1> USE KeyboardAssumption DEF Slots
<1>1. (h - t) % KBD_BUF_SIZE = Distance(h, t)
  <2>1. PICK x \in Int : x = h - t
    OBVIOUS
  <2>2. 0 - KBD_BUF_SIZE <= x /\ x < KBD_BUF_SIZE
    BY <2>1
  <2>3. KBD_BUF_SIZE \in Nat \ {0} /\ x < KBD_BUF_SIZE + KBD_BUF_SIZE
    BY <2>2
  <2>4. x % KBD_BUF_SIZE = IF x < 0 THEN x + KBD_BUF_SIZE
                           ELSE IF x < KBD_BUF_SIZE THEN x ELSE x - KBD_BUF_SIZE
    BY ONLY <2>2, <2>3, ModNear, x \in Int
  <2> QED
    BY <2>1, <2>2, <2>4 DEF Distance
<1>2. Succ(h) = Wrapped(h + 1)
  <2>1. PICK x \in Int : x = h + 1
    OBVIOUS
  <2>2. x % KBD_BUF_SIZE = Wrapped(x)
    BY <2>1, ModWrapped
  <2> QED
    BY <2>1, <2>2 DEF Succ
<1>3. Wrapped(h + 1) \in Slots
  BY DEF Wrapped
<1>4. ASSUME NEW n \in 1 .. KBD_BUF_SIZE
      PROVE  /\ (t + n - 1) % KBD_BUF_SIZE = Wrapped((t + n) - 1)
             /\ Wrapped((t + n) - 1) \in Slots
  <2>1. PICK x \in 0 .. (KBD_BUF_SIZE + KBD_BUF_SIZE) - 2 : x = (t + n) - 1 /\ x = t + n - 1
    OBVIOUS
  <2>2. x % KBD_BUF_SIZE = Wrapped(x)
    BY ModWrapped
  <2>3. Wrapped(x) \in Slots
    BY DEF Wrapped
  <2> QED
    BY <2>1, <2>2, <2>3
<1> QED
  BY <1>1, <1>2, <1>3, <1>4

\* The ring from t up to h holds the keys D.
Holds(buf, h, t, D) ==
  /\ Len(D) = Distance(h, t)
  /\ \A n \in 1 .. Len(D) : buf[Wrapped((t + n) - 1)] = D[n]

LEMMA RingIsDue == TypeOK => (RingKeys = due <=> Holds(kbd_buf, kbd_head, kbd_tail, due))
<1> SUFFICES ASSUME TypeOK PROVE RingKeys = due <=> Holds(kbd_buf, kbd_head, kbd_tail, due)
  OBVIOUS
<1> USE KeyboardAssumption
<1>1. kbd_head \in Slots /\ kbd_tail \in Slots /\ due \in Seq(KeyCode)
  BY DEF TypeOK
<1>2. PICK m \in 0 .. KBD_BUF_SIZE - 1 :
         m = (kbd_head - kbd_tail) % KBD_BUF_SIZE /\ m = Distance(kbd_head, kbd_tail)
  <2>1. Distance(kbd_head, kbd_tail) \in 0 .. KBD_BUF_SIZE - 1
    BY <1>1 DEF Distance, Slots
  <2> QED
    BY <1>1, <2>1, RingArithmetic
<1>3. PICK R : R = [n \in 1 .. m |-> kbd_buf[Wrapped((kbd_tail + n) - 1)]]
  OBVIOUS
<1>4. RingKeys = R
  <2>1. \A n \in 1 .. m : n \in 1 .. KBD_BUF_SIZE
    OBVIOUS
  <2>2. \A n \in 1 .. m : (kbd_tail + n - 1) % KBD_BUF_SIZE = Wrapped((kbd_tail + n) - 1)
    BY <1>1, <2>1, RingArithmetic
  <2> QED
    BY <1>2, <1>3, <2>2 DEF RingKeys
<1>5. /\ DOMAIN R = 1 .. m
      /\ \A n \in 1 .. m : R[n] = kbd_buf[Wrapped((kbd_tail + n) - 1)]
  BY <1>3
<1>6. ASSUME R = due PROVE Holds(kbd_buf, kbd_head, kbd_tail, due)
  <2>1. Len(due) = m
    BY <1>1, <1>2, <1>5, <1>6
  <2> QED
    BY <1>2, <1>5, <1>6, <2>1 DEF Holds
<1>7. ASSUME Holds(kbd_buf, kbd_head, kbd_tail, due) PROVE R = due
  <2>1. Len(due) = m /\ DOMAIN due = 1 .. m
    BY <1>1, <1>2, <1>7 DEF Holds
  <2>2. \A n \in 1 .. m : R[n] = due[n]
    BY <1>5, <1>7, <2>1 DEF Holds
  <2>3. due = [n \in 1 .. m |-> due[n]]
    BY <1>1, <2>1
  <2> QED
    BY <1>3, <1>5, <2>2, <2>3
<1> QED
  BY <1>4, <1>6, <1>7

\* kbd_push beside what the ring holds.
LEMMA PushHolds ==
  ASSUME NEW buf \in [Slots -> KeyCode \cup {Empty}], NEW h \in Slots, NEW t \in Slots,
         NEW D \in Seq(KeyCode), Holds(buf, h, t, D), Succ(h) # t, NEW key \in KeyCode
  PROVE  Holds([buf EXCEPT ![h] = key], Succ(h), t, Append(D, key))
<1>0. /\ Len(Append(D, key)) = Len(D) + 1 /\ Append(D, key)[Len(D) + 1] = key
      /\ \A n \in 1 .. Len(D) : Append(D, key)[n] = D[n]
  OBVIOUS
<1> USE KeyboardAssumption
<1>1. PICK m \in 0 .. KBD_BUF_SIZE - 1 : m = Len(D) /\ m = Distance(h, t)
  BY DEF Holds, Distance, Slots
<1>2. Succ(h) = Wrapped(h + 1)
  BY RingArithmetic
<1>3. Distance(Succ(h), t) = m + 1 /\ Wrapped((t + (m + 1)) - 1) = h
  BY <1>1, <1>2 DEF Distance, Wrapped, Slots
<1>4. ASSUME NEW n \in 1 .. m
      PROVE  Wrapped((t + n) - 1) \in Slots /\ Wrapped((t + n) - 1) # h
  BY <1>1 DEF Distance, Wrapped, Slots
<1>5. Len(Append(D, key)) = m + 1 /\ Append(D, key)[m + 1] = key
      /\ \A n \in 1 .. m : Append(D, key)[n] = D[n]
  BY <1>0, <1>1
<1>6. ASSUME NEW n \in 1 .. m + 1
      PROVE  [buf EXCEPT ![h] = key][Wrapped((t + n) - 1)] = Append(D, key)[n]
  <2>1. CASE n = m + 1
    BY <1>3, <1>5, <2>1
  <2>2. CASE n \in 1 .. m
    <3>1. buf[Wrapped((t + n) - 1)] = D[n]
      BY <1>1, <2>2 DEF Holds
    <3> QED
      BY <1>4, <1>5, <2>2, <3>1
  <2>3. n = m + 1 \/ n \in 1 .. m
    OBVIOUS
  <2> QED
    BY <2>1, <2>2, <2>3
<1> QED
  BY <1>3, <1>5, <1>6 DEF Holds

\* The rest of kbd_pop.
LEMMA TakeHolds ==
  ASSUME NEW buf \in [Slots -> KeyCode \cup {Empty}], NEW h \in Slots, NEW t \in Slots,
         NEW D \in Seq(KeyCode), Holds(buf, h, t, D), D # <<>>
  PROVE  Holds([buf EXCEPT ![t] = Empty], h, Succ(t), Tail(D))
<1>0. /\ Len(Tail(D)) = Len(D) - 1
      /\ \A n \in 1 .. Len(D) - 1 : Tail(D)[n] = D[n + 1]
  OBVIOUS
<1> USE KeyboardAssumption
<1>1. PICK m \in 1 .. KBD_BUF_SIZE - 1 : m = Len(D) /\ m = Distance(h, t)
  <2>1. Distance(h, t) \in 0 .. KBD_BUF_SIZE - 1
    BY DEF Distance, Slots
  <2>2. Len(D) \in Nat \ {0} /\ Len(D) = Distance(h, t)
    BY DEF Holds
  <2> QED
    BY <2>1, <2>2
<1>2. Succ(t) = Wrapped(t + 1)
  BY RingArithmetic
<1>3. Distance(h, Succ(t)) = m - 1
  BY <1>1, <1>2 DEF Distance, Wrapped, Slots
<1>4. Len(Tail(D)) = m - 1 /\ \A n \in 1 .. m - 1 : Tail(D)[n] = D[n + 1]
  BY <1>0, <1>1
<1>5. ASSUME NEW n \in 1 .. m - 1
      PROVE  [buf EXCEPT ![t] = Empty][Wrapped((Succ(t) + n) - 1)] = Tail(D)[n]
  <2>1. PICK a \in 2 .. m : a = n + 1
    OBVIOUS
  <2>2. /\ Wrapped((Succ(t) + n) - 1) = Wrapped((t + a) - 1)
        /\ Wrapped((t + a) - 1) \in Slots /\ Wrapped((t + a) - 1) # t
    BY <1>1, <1>2, <2>1 DEF Wrapped, Slots
  <2>3. buf[Wrapped((t + a) - 1)] = D[a]
    BY <1>1 DEF Holds
  <2> QED
    BY <1>4, <2>1, <2>2, <2>3
<1> QED
  BY <1>3, <1>4, <1>5 DEF Holds

(***************************************************************************)
(* The invariant.                                                          *)
(***************************************************************************)
DecoderNow ==
  [shift |-> kbd_shift, ctrl |-> kbd_ctrl, ext |-> kbd_ext,
   down |-> key_down, edown |-> ext_key_down]

Arrow(base) == [base |-> base, ext |-> TRUE]

\* The decoder's state when nothing is on its way and the keys H are held.
Settled(H) ==
  [shift |-> Shift \in H, ctrl |-> Ctrl \in H, ext |-> FALSE,
   down |-> {b \in Letters : Plain(b) \in H}, edown |-> {b \in Arrows : Arrow(b) \in H}]

\* The bytes on their way, the one in the output buffer first.
Pending == IF port.full THEN <<port.byte>> \o wire ELSE wire

BytesPayTyped == Leads(Pending, typed, DecoderNow, Settled(held))
RingHoldsDue == Holds(kbd_buf, kbd_head, kbd_tail, due)
TakesOldest == pc = "take" => due # <<>> /\ k = Head(due)

KeyboardInv == TypeOK /\ BytesPayTyped /\ RingHoldsDue /\ TakesOldest

LEMMA NowIsDecoder == TypeOK => DecoderNow \in Decoders
BY DEF TypeOK, DecoderNow, Decoders

LEMMA SettledIsDecoder == ASSUME NEW H PROVE Settled(H) \in Decoders
BY DEF Settled, Decoders

\* kbd_handle_scancode does what Decoded, Yields and KeyOf say.
LEMMA DecodeStep ==
  ASSUME TypeOK, NEW b, Fits(DecoderNow, b), kbd_handle_scancode(b)
  PROVE  /\ DecoderNow' = Decoded(DecoderNow, b)
         /\ IF Yields(DecoderNow, b) THEN Pushes(KeyOf(DecoderNow, b)) ELSE NoKey
<1>1. /\ kbd_shift \in BOOLEAN /\ kbd_ctrl \in BOOLEAN /\ kbd_ext \in BOOLEAN
      /\ b \in Byte /\ b.make \in BOOLEAN
  BY DEF TypeOK, Fits, Byte
<1>2. IF kbd_ext THEN b.code \in Arrows
      ELSE b = Prefix \/ b.code \in Letters \cup {"shift", "ctrl"}
  BY DEF Fits, DecoderNow
<1>3. /\ "shift" \notin Letters \cup Arrows /\ "ctrl" \notin Letters \cup Arrows
      /\ "E0" \notin Letters \cup Arrows /\ Prefix.code = "E0" /\ Prefix.make = TRUE
  BY KeyboardAssumption DEF Prefix
<1>4. CASE b = Prefix
  <2>1. ~kbd_ext /\ b.code = "E0" /\ b.code \notin Letters
    BY <1>2, <1>3, <1>4
  <2>2. /\ kbd_ext' = TRUE /\ NoKey
        /\ UNCHANGED <<kbd_shift, kbd_ctrl, key_down, ext_key_down>>
    BY <1>3, <1>4, <2>1 DEF kbd_handle_scancode
  <2>3. ~Yields(DecoderNow, b)
    BY <2>1 DEF Yields, DecoderNow
  <2>4. DecoderNow' = Decoded(DecoderNow, b)
    BY <1>4, <2>1, <2>2 DEF DecoderNow, Decoded
  <2> QED
    BY <2>2, <2>3, <2>4
<1>5. CASE b # Prefix /\ b.code \in {"shift", "ctrl"}
  <2>1. ~kbd_ext /\ b.code \notin Letters
    BY <1>2, <1>3, <1>5
  <2>2. DecodeModifier(b)
    BY <1>3, <1>5 DEF kbd_handle_scancode
  <2>3. ~Yields(DecoderNow, b)
    BY <2>1 DEF Yields, DecoderNow
  <2>4. DecoderNow' = Decoded(DecoderNow, b)
    BY <1>5, <2>1, <2>2 DEF DecoderNow, Decoded, DecodeModifier
  <2> QED
    BY <2>2, <2>3, <2>4 DEF DecodeModifier
<1>6. CASE b # Prefix /\ b.code \notin {"shift", "ctrl"}
  <2>1. /\ b.code \in Letters \cup Arrows /\ b.code # "shift" /\ b.code # "ctrl"
        /\ kbd_ext \/ b.code \in Letters
    BY <1>2, <1>6
  <2>2. CASE ~b.make
    <3>1. DecodeBreak(b)
      BY <1>1, <1>3, <1>6, <2>1, <2>2 DEF kbd_handle_scancode
    <3>2. ~Yields(DecoderNow, b)
      BY <2>2 DEF Yields
    <3>3. DecoderNow' = Decoded(DecoderNow, b)
      BY <1>1, <1>6, <2>1, <2>2, <3>1 DEF DecoderNow, Decoded, KeysAfter, DecodeBreak
    <3> QED
      BY <3>1, <3>2, <3>3 DEF DecodeBreak
  <2>3. CASE b.make /\ kbd_ext
    <3>1. DecodeExt(b) /\ b.code \in Arrows
      BY <1>1, <1>2, <1>3, <1>6, <2>1, <2>3 DEF kbd_handle_scancode
    <3>2. Yields(DecoderNow, b) /\ KeyOf(DecoderNow, b) = Ascii(b.code, "key")
      BY <2>3 DEF Yields, KeyOf, DecoderNow
    <3>3. DecoderNow' = Decoded(DecoderNow, b)
      BY <1>1, <1>6, <2>1, <2>3, <3>1 DEF DecoderNow, Decoded, KeysAfter, DecodeExt
    <3> QED
      BY <3>1, <3>2, <3>3 DEF DecodeExt
  <2>4. CASE b.make /\ ~kbd_ext
    <3>1. DecodeLetter(b) /\ b.code \in Letters
      BY <1>1, <1>3, <1>6, <2>1, <2>4 DEF kbd_handle_scancode
    <3>2. Yields(DecoderNow, b) <=> ~Kills(b)
      BY <1>1, <2>1, <2>4 DEF Yields, Kills, DecoderNow
    <3>3. KeyOf(DecoderNow, b) = Ascii(b.code, IF kbd_ctrl THEN "control"
                                   ELSE IF kbd_shift THEN "upper" ELSE "lower")
      BY <2>4 DEF KeyOf, DecoderNow
    <3>4. DecoderNow' = Decoded(DecoderNow, b)
      BY <1>1, <1>6, <2>1, <2>4, <3>1 DEF DecoderNow, Decoded, KeysAfter, DecodeLetter
    <3>5. IF Kills(b) THEN NoKey ELSE Pushes(KeyOf(DecoderNow, b))
      BY <3>1, <3>3 DEF DecodeLetter
    <3> QED
      BY <3>2, <3>4, <3>5
  <2> QED
    BY <1>1, <2>2, <2>3, <2>4
<1> QED
  BY <1>4, <1>5, <1>6

\* The whole of taking a byte: it pays its part of what is owed, and what the
\* reader has half taken stays the oldest key.
LEMMA TakesByte ==
  ASSUME KeyboardInv, port.full, kbd_handle_scancode(port.byte),
         port' = [port EXCEPT !.full = FALSE], UNCHANGED keyboard
  PROVE  /\ BytesPayTyped' /\ RingHoldsDue'
         /\ port' \in [byte : Byte, full : BOOLEAN]
         /\ DecoderNow' \in Decoders
         /\ kbd_buf' \in [Slots -> KeyCode \cup {Empty}] /\ kbd_head' \in Slots
         /\ kbd_tail' \in Slots /\ typed' \in Seq(KeyCode) /\ due' \in Seq(KeyCode)
         /\ due # <<>> => due' # <<>> /\ Head(due') = Head(due)
<1> DEFINE b == port.byte
           d == DecoderNow
<1>1. TypeOK /\ Leads(Pending, typed, d, Settled(held))
      /\ Holds(kbd_buf, kbd_head, kbd_tail, due)
  BY DEF KeyboardInv, BytesPayTyped, RingHoldsDue
<1>2. /\ kbd_buf \in [Slots -> KeyCode \cup {Empty}] /\ kbd_head \in Slots
      /\ kbd_tail \in Slots /\ typed \in Seq(KeyCode) /\ due \in Seq(KeyCode)
      /\ wire \in Seq(Byte) /\ port \in [byte : Byte, full : BOOLEAN]
  BY <1>1 DEF TypeOK
<1>3. Pending \in Seq(Byte) /\ Pending # <<>> /\ Head(Pending) = b /\ Tail(Pending) = wire
  BY <1>2 DEF Pending
<1>4. /\ Fits(d, b)
      /\ Yields(d, b) => typed # <<>> /\ Head(typed) = KeyOf(d, b)
      /\ Leads(wire, IF Yields(d, b) THEN Tail(typed) ELSE typed, Decoded(d, b),
               Settled(held))
  <2>1. PICK P \in Seq(Byte) : P = Pending
    BY <1>3
  <2>2. PICK e : e = Settled(held)
    OBVIOUS
  <2>3. PICK T \in Seq(KeyCode) : T = typed
    BY <1>2
  <2>4. P # <<>> /\ Head(P) = b /\ Tail(P) = wire /\ Leads(P, T, d, e)
    BY <1>1, <1>3, <2>1, <2>2, <2>3
  <2> HIDE DEF d, b
  <2>5. /\ Fits(d, Head(P))
        /\ Yields(d, Head(P)) => T # <<>> /\ Head(T) = KeyOf(d, Head(P))
        /\ Leads(Tail(P), IF Yields(d, Head(P)) THEN Tail(T) ELSE T,
                 Decoded(d, Head(P)), e)
    BY <2>4, LeadsTail, Zenon
  <2> QED
    BY <2>2, <2>3, <2>4, <2>5, Zenon
<1>5. DecoderNow' = Decoded(d, b) /\ IF Yields(d, b) THEN Pushes(KeyOf(d, b)) ELSE NoKey
  BY <1>1, <1>4, DecodeStep
<1>6. d \in Decoders /\ Decoded(d, b) \in Decoders /\ (Yields(d, b) => KeyOf(d, b) \in KeyCode)
  BY <1>1, <1>4, NowIsDecoder, DecodedType
<1>7. port' \in [byte : Byte, full : BOOLEAN] /\ ~port'.full
  BY <1>2
<1>8. Pending' = wire /\ held' = held
  BY <1>7 DEF Pending, keyboard
<1> HIDE DEF b, d
<1>9. CASE Yields(d, b)
  <2>1. Pushes(KeyOf(d, b)) /\ typed # <<>> /\ Head(typed) = KeyOf(d, b)
    BY <1>4, <1>5, <1>9
  <2>2. typed' = Tail(typed) /\ kbd_tail' = kbd_tail /\ kbd_push(KeyOf(d, b))
    BY <2>1 DEF Pushes
  <2>3. typed' \in Seq(KeyCode)
    BY <1>2, <2>1, <2>2
  <2>4. BytesPayTyped'
    BY <1>4, <1>5, <1>8, <1>9, <2>2 DEF BytesPayTyped
  <2>5. CASE Succ(kbd_head) = kbd_tail
    <3>1. kbd_buf' = kbd_buf /\ kbd_head' = kbd_head /\ due' = due
      BY <2>2, <2>5 DEF kbd_push
    <3>2. RingHoldsDue'
      BY <1>1, <2>2, <3>1 DEF RingHoldsDue
    <3> QED
      BY <1>2, <1>5, <1>6, <1>7, <2>2, <2>3, <2>4, <3>1, <3>2
  <2>6. CASE Succ(kbd_head) # kbd_tail
    <3>1. PICK key \in KeyCode : key = KeyOf(d, b)
      BY <1>6, <1>9
    <3>2. /\ kbd_buf' = [kbd_buf EXCEPT ![kbd_head] = key]
          /\ kbd_head' = Succ(kbd_head) /\ due' = Append(due, key)
      BY <2>1, <2>2, <2>6, <3>1 DEF kbd_push
    <3>3. Holds([kbd_buf EXCEPT ![kbd_head] = key], Succ(kbd_head), kbd_tail, Append(due, key))
      BY <1>1, <1>2, <2>6, PushHolds
    <3>4. RingHoldsDue'
      BY <2>2, <3>2, <3>3 DEF RingHoldsDue
    <3>5. /\ kbd_buf' \in [Slots -> KeyCode \cup {Empty}]
          /\ kbd_head' \in Slots
      BY <1>2, <3>2, RingArithmetic
    <3>6. due' \in Seq(KeyCode) /\ (due # <<>> => due' # <<>> /\ Head(due') = Head(due))
      BY <1>2, <3>2
    <3> QED
      BY <1>2, <1>5, <1>6, <1>7, <2>2, <2>3, <2>4, <3>4, <3>5, <3>6
  <2> QED
    BY <2>5, <2>6
<1>10. CASE ~Yields(d, b)
  <2>1. UNCHANGED <<kbd_buf, kbd_head, kbd_tail, due, typed>>
    BY <1>5, <1>10 DEF NoKey, ring
  <2>2. BytesPayTyped'
    BY <1>4, <1>5, <1>8, <1>10, <2>1 DEF BytesPayTyped
  <2>3. RingHoldsDue'
    BY <1>1, <2>1 DEF RingHoldsDue
  <2> QED
    BY <1>2, <1>5, <1>6, <1>7, <2>1, <2>2, <2>3
<1> QED
  BY <1>9, <1>10

(***************************************************************************)
(* The keyboard sends.                                                     *)
(***************************************************************************)
LEMMA PendingAppend ==
  ASSUME TypeOK, NEW x \in Byte
  PROVE  /\ Pending \in Seq(Byte)
         /\ (IF port.full THEN <<port.byte>> \o (wire \o <<x>>) ELSE wire \o <<x>>)
            = Append(Pending, x)
BY DEF TypeOK, Pending

LEMMA PendingAppendTwo ==
  ASSUME TypeOK, NEW x \in Byte, NEW y \in Byte
  PROVE  (IF port.full THEN <<port.byte>> \o (wire \o (<<x>> \o <<y>>))
                       ELSE wire \o (<<x>> \o <<y>>))
         = Append(Append(Pending, x), y)
BY DEF TypeOK, Pending

LEMMA KeyKinds ==
  ASSUME NEW key \in PhysicalKeys
  PROVE  \/ /\ key.base \in Letters \cup {"shift", "ctrl"} /\ key.ext = FALSE
            /\ key = Plain(key.base)
         \/ key.base \in Arrows /\ key.ext = TRUE /\ key = Arrow(key.base)
<1>1. CASE key = Shift
  BY <1>1 DEF Shift, Plain
<1>2. CASE key = Ctrl
  BY <1>2 DEF Ctrl, Plain
<1>3. CASE key \in [base : Letters, ext : {FALSE}]
  BY <1>3 DEF Plain
<1>4. CASE key \in [base : Arrows, ext : {TRUE}]
  BY <1>4 DEF Arrow
<1> QED
  BY <1>1, <1>2, <1>3, <1>4 DEF PhysicalKeys

\* The state that keys imply moves with a key as the decoder does with its byte.
LEMMA SettledPlain ==
  ASSUME NEW H, NEW key \in PhysicalKeys, ~key.ext, NEW make \in BOOLEAN
  PROVE  LET b == [code |-> key.base, make |-> make]
         IN  /\ b \in Byte /\ Fits(Settled(H), b)
             /\ Decoded(Settled(H), b) = Settled(IF make THEN H \cup {key} ELSE H \ {key})
<1> DEFINE b == [code |-> key.base, make |-> make]
           G == IF make THEN H \cup {key} ELSE H \ {key}
<1>1. key.base \in Letters \cup {"shift", "ctrl"} /\ key = Plain(key.base)
  BY KeyKinds
<1>2. b.code = key.base /\ b.make = make /\ b \in Byte
  BY <1>1 DEF Byte
<1>3. /\ "shift" \notin Letters \cup Arrows /\ "ctrl" \notin Letters \cup Arrows
      /\ "E0" \notin Letters \cup Arrows
  BY KeyboardAssumption
<1>4. Settled(H).ext = FALSE
  BY DEF Settled
<1>5. b # Prefix
  BY <1>1, <1>2, <1>3 DEF Prefix
<1>6. Fits(Settled(H), b)
  BY <1>1, <1>2, <1>4 DEF Fits
<1>7. \A c : Plain(c) = key <=> c = key.base
  BY <1>1 DEF Plain
<1>8. \A c \in Arrows : Arrow(c) # key
  <2>1. \A c : Arrow(c).ext = TRUE
    BY DEF Arrow
  <2>2. key.ext = FALSE
    BY <1>1 DEF Plain
  <2> QED
    BY <2>1, <2>2
<1> HIDE DEF b
<1>9. (Shift \in G) = IF b.code = "shift" THEN b.make ELSE Shift \in H
  BY <1>2, <1>7 DEF Shift
<1>10. (Ctrl \in G) = IF b.code = "ctrl" THEN b.make ELSE Ctrl \in H
  BY <1>2, <1>7 DEF Ctrl
<1>11. {c \in Letters : Plain(c) \in G}
       = IF b.code \in Letters THEN KeysAfter({c \in Letters : Plain(c) \in H}, b)
         ELSE {c \in Letters : Plain(c) \in H}
  BY <1>2, <1>7 DEF KeysAfter
<1>12. {c \in Arrows : Arrow(c) \in G} = {c \in Arrows : Arrow(c) \in H}
  BY <1>8
<1>13. Decoded(Settled(H), b) = Settled(G)
  BY <1>5, <1>9, <1>10, <1>11, <1>12 DEF Decoded, Settled
<1> QED
  BY <1>2, <1>6, <1>13 DEF b

LEMMA SettledArrow ==
  ASSUME NEW H, NEW key \in PhysicalKeys, key.ext, NEW make \in BOOLEAN
  PROVE  LET b == [code |-> key.base, make |-> make]
             d == Decoded(Settled(H), Prefix)
         IN  /\ b \in Byte /\ Prefix \in Byte /\ Fits(Settled(H), Prefix) /\ Fits(d, b)
             /\ d.ext /\ ~Yields(Settled(H), Prefix)
             /\ Decoded(d, b) = Settled(IF make THEN H \cup {key} ELSE H \ {key})
<1> DEFINE b == [code |-> key.base, make |-> make]
           d == Decoded(Settled(H), Prefix)
           G == IF make THEN H \cup {key} ELSE H \ {key}
<1>1. key.base \in Arrows /\ key = Arrow(key.base)
  BY KeyKinds
<1>2. b.code = key.base /\ b.make = make /\ b \in Byte
  BY <1>1 DEF Byte
<1>3. Prefix \in Byte /\ Prefix.code = "E0" /\ "E0" \notin Letters
  BY KeyboardAssumption DEF Byte, Prefix
<1>4. Settled(H).ext = FALSE
  BY DEF Settled
<1>5. Fits(Settled(H), Prefix) /\ ~Yields(Settled(H), Prefix)
  BY <1>3, <1>4 DEF Fits, Yields
<1>6. d = [shift |-> Shift \in H, ctrl |-> Ctrl \in H, ext |-> TRUE,
           down |-> {c \in Letters : Plain(c) \in H},
           edown |-> {c \in Arrows : Arrow(c) \in H}]
  BY <1>3 DEF Decoded, Settled
<1> HIDE DEF b, d
<1>7. d.ext /\ Fits(d, b)
  BY <1>1, <1>2, <1>6 DEF Fits
<1>8. \A c : Arrow(c) = key <=> c = key.base
  BY <1>1 DEF Arrow
<1>9. \A c : Plain(c) # key
  <2>1. \A c : Plain(c).ext = FALSE
    BY DEF Plain
  <2>2. key.ext = TRUE
    BY <1>1 DEF Arrow
  <2> QED
    BY <2>1, <2>2
<1>10. {c \in Arrows : Arrow(c) \in G} = KeysAfter({c \in Arrows : Arrow(c) \in H}, b)
  BY <1>1, <1>2, <1>8 DEF KeysAfter
<1>11. /\ (Shift \in G) = (Shift \in H) /\ (Ctrl \in G) = (Ctrl \in H)
       /\ {c \in Letters : Plain(c) \in G} = {c \in Letters : Plain(c) \in H}
  BY <1>9 DEF Shift, Ctrl
<1>12. Decoded(d, b) = Settled(G)
  BY <1>6, <1>10, <1>11 DEF Decoded, Settled
<1> QED
  BY <1>2, <1>3, <1>5, <1>7, <1>12 DEF b, d

LEMMA TypedGrows ==
  \A T \in Seq(KeyCode), x \in KeyCode :
    T \o <<x>> = Append(T, x) /\ Append(T, x) \in Seq(KeyCode)
OBVIOUS

LEMMA TypedStays == \A T \in Seq(KeyCode) : T \o <<>> = T
OBVIOUS

\* The bytes of a key extend what is owed by the key it means.
LEMMA Sent ==
  ASSUME KeyboardInv, NEW key \in PhysicalKeys, NEW make \in BOOLEAN,
         Sends(Bytes(key, make)), held' = IF make THEN held \cup {key} ELSE held \ {key},
         typed' = IF make THEN typed \o Meaning(key) ELSE typed
  PROVE  KeyboardInv'
<1> DEFINE b == [code |-> key.base, make |-> make]
           e == Settled(held)
<1>1. TypeOK /\ Leads(Pending, typed, DecoderNow, e)
  BY DEF KeyboardInv, BytesPayTyped
<1>2. /\ wire \in Seq(Byte) /\ typed \in Seq(KeyCode) /\ held \subseteq PhysicalKeys
      /\ Pending \in Seq(Byte)
  BY <1>1 DEF TypeOK, Pending
<1>3. /\ wire' = wire \o Bytes(key, make) /\ Len(wire) + Len(Bytes(key, make)) <= WireMax
      /\ UNCHANGED <<port, irq, ring, decoder, exit_requested, reader, due>>
  BY DEF Sends
<1>4. DecoderNow' = DecoderNow
  BY <1>3 DEF decoder, DecoderNow
<1>5. e \in Decoders
  BY SettledIsDecoder
<1>6. Bytes(key, make) \in Seq(Byte) /\ BytesPayTyped' /\ typed' \in Seq(KeyCode)
  <2>1. CASE ~key.ext
    <3>1. /\ b \in Byte /\ Fits(e, b) /\ Decoded(e, b) = Settled(held')
          /\ key.base \in Letters \cup {"shift", "ctrl"} /\ key = Plain(key.base)
      <4>1. /\ b \in Byte /\ Fits(e, b)
            /\ Decoded(e, b) = Settled(IF make THEN held \cup {key} ELSE held \ {key})
        BY <2>1, SettledPlain
      <4>2. held' = IF make THEN held \cup {key} ELSE held \ {key}
        OBVIOUS
      <4>3. key.base \in Letters \cup {"shift", "ctrl"} /\ key = Plain(key.base)
        BY <2>1, KeyKinds
      <4> HIDE DEF b, e
      <4> QED
        BY <4>1, <4>2, <4>3, Zenon
    <3>2. Bytes(key, make) = <<b>>
      BY <2>1, <3>1 DEF Bytes
    <3>3. Pending' = Append(Pending, b)
      <4>1. Pending' = IF port.full THEN <<port.byte>> \o (wire \o <<b>>) ELSE wire \o <<b>>
        BY <1>3, <3>2 DEF Pending
      <4> HIDE DEF b
      <4> QED
        BY <1>1, <3>1, <4>1, PendingAppend
    <3>4. typed' = IF Yields(e, b) THEN Append(typed, KeyOf(e, b)) ELSE typed
      <4>1. e.ext = FALSE /\ e.ctrl = (Ctrl \in held) /\ e.shift = (Shift \in held)
        BY DEF Settled
      <4>2. Yields(e, b) <=> make /\ key.base \in Letters /\ ~ (Ctrl \in held /\ key.base = "c")
        BY <4>1 DEF Yields
      <4>3. key \in {Shift, Ctrl} <=> key.base \notin Letters
        BY <3>1, KeyboardAssumption DEF Shift, Ctrl, Plain
      <4>4. make => Meaning(key) = IF Yields(e, b) THEN <<KeyOf(e, b)>> ELSE <<>>
        BY <2>1, <4>1, <4>2, <4>3 DEF Meaning, KeyOf
      <4>5. Yields(e, b) => KeyOf(e, b) \in KeyCode
        BY <1>5, <3>1, DecodedType
      <4> HIDE DEF b, e
      <4> QED
        BY <1>2, <4>2, <4>4, <4>5, TypedGrows, TypedStays, Zenon
    <3>5. Leads(Append(Pending, b),
                IF Yields(e, b) THEN Append(typed, KeyOf(e, b)) ELSE typed,
                DecoderNow, Decoded(e, b))
      BY <1>1, <1>2, <1>5, <3>1, LeadsAppend
    <3>6. BytesPayTyped'
      BY <1>4, <3>1, <3>3, <3>4, <3>5 DEF BytesPayTyped
    <3>7. typed' \in Seq(KeyCode)
      <4>1. Yields(e, b) => KeyOf(e, b) \in KeyCode
        BY <1>5, <3>1, DecodedType
      <4> HIDE DEF b, e
      <4>2. CASE Yields(e, b)
        <5>1. typed' = Append(typed, KeyOf(e, b)) /\ KeyOf(e, b) \in KeyCode
          BY <3>4, <4>1, <4>2, Zenon
        <5> QED
          BY <1>2, <5>1, TypedGrows, Zenon
      <4>3. CASE ~Yields(e, b)
        BY <1>2, <3>4, <4>3
      <4> QED
        BY <4>2, <4>3
    <3> QED
      BY <3>1, <3>2, <3>6, <3>7
  <2>2. CASE key.ext
    <3> DEFINE d == Decoded(e, Prefix)
    <3>1. /\ b \in Byte /\ Prefix \in Byte /\ Fits(e, Prefix) /\ Fits(d, b)
          /\ d.ext /\ ~Yields(e, Prefix) /\ Decoded(d, b) = Settled(held')
          /\ d \in Decoders
      BY <1>5, <2>2, SettledArrow, DecodedType
    <3>2. Bytes(key, make) = <<Prefix>> \o <<b>>
      BY <2>2 DEF Bytes
    <3>3. Pending' = Append(Append(Pending, Prefix), b)
      <4>1. Pending' = IF port.full THEN <<port.byte>> \o (wire \o (<<Prefix>> \o <<b>>))
                       ELSE wire \o (<<Prefix>> \o <<b>>)
        BY <1>3, <3>2 DEF Pending
      <4> HIDE DEF b
      <4> QED
        BY <1>1, <3>1, <4>1, PendingAppendTwo
    <3>4. Leads(Append(Pending, Prefix), typed, DecoderNow, d)
      <4> HIDE DEF e
      <4>1. Leads(Append(Pending, Prefix),
                  IF Yields(e, Prefix) THEN Append(typed, KeyOf(e, Prefix)) ELSE typed,
                  DecoderNow, Decoded(e, Prefix))
        BY <1>1, <1>2, <1>5, <3>1, LeadsAppend
      <4> QED
        BY <3>1, <4>1
    <3> HIDE DEF d
    <3>5. Append(Pending, Prefix) \in Seq(Byte)
      BY <1>2, <3>1
    <3>6. Leads(Append(Append(Pending, Prefix), b),
                IF Yields(d, b) THEN Append(typed, KeyOf(d, b)) ELSE typed,
                DecoderNow, Decoded(d, b))
      <4>1. PICK P \in Seq(Byte) : P = Append(Pending, Prefix)
        BY <3>5
      <4>2. Leads(Append(P, b), IF Yields(d, b) THEN Append(typed, KeyOf(d, b)) ELSE typed,
                  DecoderNow, Decoded(d, b))
        BY <1>2, <3>1, <3>4, <4>1, LeadsAppend
      <4> QED
        BY <4>1, <4>2
    <3>7. typed' = IF Yields(d, b) THEN Append(typed, KeyOf(d, b)) ELSE typed
      <4>1. Yields(d, b) <=> make
        BY <3>1 DEF Yields
      <4>2. make => Meaning(key) = <<KeyOf(d, b)>> /\ KeyOf(d, b) \in KeyCode
        BY <2>2, <3>1, <4>1, DecodedType DEF Meaning, KeyOf
      <4> HIDE DEF b, e
      <4> QED
        BY <1>2, <4>1, <4>2, TypedGrows
    <3>8. BytesPayTyped'
      BY <1>4, <3>1, <3>3, <3>6, <3>7 DEF BytesPayTyped
    <3>9. typed' \in Seq(KeyCode)
      <4>1. Yields(d, b) => KeyOf(d, b) \in KeyCode
        BY <3>1, DecodedType
      <4> HIDE DEF b
      <4>2. CASE Yields(d, b)
        <5>1. typed' = Append(typed, KeyOf(d, b)) /\ KeyOf(d, b) \in KeyCode
          BY <3>7, <4>1, <4>2, Zenon
        <5> QED
          BY <1>2, <5>1, TypedGrows, Zenon
      <4>3. CASE ~Yields(d, b)
        BY <1>2, <3>7, <4>3
      <4> QED
        BY <4>2, <4>3
    <3> QED
      BY <3>1, <3>2, <3>8, <3>9
  <2> QED
    BY <2>1, <2>2
<1>7. wire' \in Seq(Byte) /\ Len(wire') <= WireMax /\ held' \subseteq PhysicalKeys
  BY <1>2, <1>3, <1>6
<1>8. TypeOK'
  BY <1>1, <1>3, <1>6, <1>7 DEF TypeOK, ring, decoder, reader
<1>9. RingHoldsDue' /\ TakesOldest'
  BY <1>3 DEF KeyboardInv, RingHoldsDue, TakesOldest, ring, reader
<1> QED
  BY <1>6, <1>8, <1>9 DEF KeyboardInv

(***************************************************************************)
(* The steps.                                                              *)
(***************************************************************************)
LEMMA KeyboardInit == Init => KeyboardInv
<1> SUFFICES ASSUME Init PROVE KeyboardInv
  OBVIOUS
<1>1. /\ wire = <<>> /\ port = [byte |-> Prefix, full |-> FALSE]
      /\ held = {} /\ typed = <<>> /\ due = <<>> /\ Prefix \in Byte /\ 0 \in Slots
      /\ kbd_head = 0 /\ kbd_tail = 0 /\ pc = "user"
  BY KeyboardAssumption DEF Init, Byte, Prefix, Slots
<1>2. TypeOK
  <2>1. /\ wire \in Seq(Byte) /\ Len(wire) <= WireMax /\ typed \in Seq(KeyCode)
        /\ due \in Seq(KeyCode) /\ port \in [byte : Byte, full : BOOLEAN]
    BY <1>1, KeyboardAssumption
  <2>2. kbd_buf \in [Slots -> KeyCode \cup {Empty}]
    BY DEF Init
  <2> QED
    BY <1>1, <2>1, <2>2 DEF Init, TypeOK
<1>3. DecoderNow = Settled({})
  <2>1. /\ (Shift \in {}) = FALSE /\ (Ctrl \in {}) = FALSE
        /\ {b \in Letters : Plain(b) \in {}} = {} /\ {b \in Arrows : Arrow(b) \in {}} = {}
    OBVIOUS
  <2>2. /\ kbd_shift = FALSE /\ kbd_ctrl = FALSE /\ kbd_ext = FALSE
        /\ key_down = {} /\ ext_key_down = {}
    BY DEF Init
  <2> QED
    BY <2>1, <2>2, Zenon DEF DecoderNow, Settled
<1>4. BytesPayTyped
  <2>1. Pending = <<>>
    BY <1>1 DEF Pending
  <2>2. Leads(<<>>, <<>>, Settled({}), Settled({}))
    BY NothingLeads, SettledIsDecoder
  <2> QED
    BY <1>1, <1>3, <2>1, <2>2 DEF BytesPayTyped
<1>5. RingHoldsDue
  BY <1>1 DEF RingHoldsDue, Holds, Distance
<1>6. TakesOldest
  BY <1>1 DEF TakesOldest
<1> QED
  BY <1>2, <1>4, <1>5, <1>6 DEF KeyboardInv

\* A byte is taken by the interrupt or by the reader: what is left to show is
\* that the rest keeps its range and the reader its key.
LEMMA TakenKeepsInv ==
  ASSUME KeyboardInv, port.full, kbd_handle_scancode(port.byte),
         port' = [port EXCEPT !.full = FALSE], UNCHANGED <<keyboard, k>>,
         irq' \in BOOLEAN, exit_requested' \in BOOLEAN, iflag' \in BOOLEAN,
         pc' \in {"user", "pop", "take", "drain", "idle", "halt"},
         mode' \in {"wait", "poll", "last", "none"}, pc' = "take" => pc = "take"
  PROVE  KeyboardInv'
<1>1. /\ BytesPayTyped' /\ RingHoldsDue'
      /\ port' \in [byte : Byte, full : BOOLEAN]
      /\ DecoderNow' \in Decoders
      /\ kbd_buf' \in [Slots -> KeyCode \cup {Empty}] /\ kbd_head' \in Slots
      /\ kbd_tail' \in Slots /\ typed' \in Seq(KeyCode) /\ due' \in Seq(KeyCode)
      /\ due # <<>> => due' # <<>> /\ Head(due') = Head(due)
  BY TakesByte
<1>2. /\ kbd_shift' \in BOOLEAN /\ kbd_ctrl' \in BOOLEAN /\ kbd_ext' \in BOOLEAN
      /\ key_down' \subseteq Letters /\ ext_key_down' \subseteq Arrows
  BY <1>1 DEF Decoders, DecoderNow
<1>3. TypeOK /\ held' = held /\ wire' = wire /\ k' = k
  BY DEF KeyboardInv, keyboard
<1>4. TypeOK'
  BY <1>1, <1>2, <1>3 DEF TypeOK
<1>5. TakesOldest'
  BY <1>1, <1>3 DEF KeyboardInv, TakesOldest
<1> QED
  BY <1>1, <1>4, <1>5 DEF KeyboardInv

\* A step that leaves the keyboard, the output buffer, the decoder and the
\* ring alone.
LEMMA QuietKeepsInv ==
  ASSUME KeyboardInv, UNCHANGED <<keyboard, port, ring, decoder, typed, due>>,
         irq' \in BOOLEAN, exit_requested' \in BOOLEAN, iflag' \in BOOLEAN,
         pc' \in {"user", "pop", "take", "drain", "idle", "halt"},
         mode' \in {"wait", "poll", "last", "none"}, k' \in KeyCode \cup {Empty},
         pc' = "take" => due # <<>> /\ k' = Head(due)
  PROVE  KeyboardInv'
<1>1. /\ Pending' = Pending /\ DecoderNow' = DecoderNow /\ held' = held
      /\ kbd_buf' = kbd_buf /\ kbd_head' = kbd_head /\ kbd_tail' = kbd_tail
      /\ typed' = typed /\ due' = due
  BY DEF keyboard, ring, decoder, Pending, DecoderNow
<1>2. TypeOK'
  BY DEF KeyboardInv, TypeOK, keyboard, ring, decoder
<1>3. BytesPayTyped' /\ RingHoldsDue' /\ TakesOldest'
  BY <1>1 DEF KeyboardInv, BytesPayTyped, RingHoldsDue, TakesOldest
<1> QED
  BY <1>2, <1>3 DEF KeyboardInv

LEMMA KeyboardStep == KeyboardInv /\ [Next]_vars => KeyboardInv'
<1> SUFFICES ASSUME KeyboardInv, [Next]_vars PROVE KeyboardInv'
  OBVIOUS
<1>1. TypeOK
  BY DEF KeyboardInv
<1>2. /\ irq \in BOOLEAN /\ exit_requested \in BOOLEAN /\ iflag \in BOOLEAN
      /\ pc \in {"user", "pop", "take", "drain", "idle", "halt"}
      /\ mode \in {"wait", "poll", "last", "none"} /\ k \in KeyCode \cup {Empty}
      /\ due \in Seq(KeyCode) /\ port \in [byte : Byte, full : BOOLEAN]
      /\ pc = "take" => due # <<>> /\ k = Head(due)
  BY <1>1 DEF TypeOK, KeyboardInv, TakesOldest
<1>3. ASSUME NEW key \in PhysicalKeys, Press(key) PROVE KeyboardInv'
  BY <1>3, Sent DEF Press
<1>4. ASSUME NEW key \in PhysicalKeys, Release(key) PROVE KeyboardInv'
  BY <1>4, Sent DEF Release
<1>5. CASE PortFills
  <2>1. /\ wire \in Seq(Byte) /\ wire # <<>> /\ ~port.full /\ Len(wire) <= WireMax
        /\ port' = [byte |-> Head(wire), full |-> TRUE] /\ wire' = Tail(wire)
        /\ UNCHANGED <<held, ring, decoder, exit_requested, reader, typed, due>>
        /\ irq' = TRUE
    BY <1>1, <1>5 DEF PortFills, TypeOK
  <2>2. Pending' = Pending
    BY <2>1 DEF Pending
  <2>3. wire' \in Seq(Byte) /\ Len(wire') <= WireMax /\ port' \in [byte : Byte, full : BOOLEAN]
    BY <2>1, KeyboardAssumption
  <2>4. TypeOK'
    BY <1>1, <2>1, <2>3 DEF TypeOK, ring, decoder, reader
  <2>5. BytesPayTyped' /\ RingHoldsDue' /\ TakesOldest'
    BY <2>1, <2>2 DEF KeyboardInv, BytesPayTyped, RingHoldsDue, TakesOldest, DecoderNow,
                      ring, decoder, reader
  <2> QED
    BY <2>4, <2>5 DEF KeyboardInv
<1>6. CASE IRQ1
  <2>1. /\ irq' = FALSE /\ UNCHANGED <<keyboard, mode, iflag, k>>
        /\ pc' = IF pc = "halt" THEN "pop" ELSE pc
    BY <1>6 DEF IRQ1, Wake
  <2>2. CASE port.full
    <3>1. /\ kbd_handle_scancode(port.byte) /\ port' = [port EXCEPT !.full = FALSE]
          /\ exit_requested' \in BOOLEAN
      BY <1>6, <2>2 DEF IRQ1, Handles
    <3> QED
      BY <1>2, <2>1, <2>2, <3>1, TakenKeepsInv
  <2>3. CASE ~port.full
    <3>1. UNCHANGED <<port, ring, decoder, exit_requested, typed, due>>
      BY <1>6, <2>3 DEF IRQ1
    <3> QED
      BY <1>2, <2>1, <3>1, QuietKeepsInv
  <2> QED
    BY <2>2, <2>3
<1>7. CASE Tick
  BY <1>2, <1>7, QuietKeepsInv DEF Tick, Wake
<1>8. ASSUME NEW m \in {"wait", "poll"}, Call(m) PROVE KeyboardInv'
  BY <1>2, <1>8, QuietKeepsInv DEF Call
<1>9. CASE PopEmpty
  BY <1>2, <1>9, QuietKeepsInv DEF PopEmpty, Return
<1>10. CASE Pop
  <2>1. /\ kbd_head \in Slots /\ kbd_tail \in Slots /\ kbd_head # kbd_tail
        /\ kbd_buf \in [Slots -> KeyCode \cup {Empty}]
        /\ Holds(kbd_buf, kbd_head, kbd_tail, due)
    BY <1>1, <1>10 DEF Pop, TypeOK, KeyboardInv, RingHoldsDue
  <2>2. Len(due) \in Nat \ {0} /\ Wrapped((kbd_tail + 1) - 1) = kbd_tail
    BY <1>2, <2>1, KeyboardAssumption DEF Holds, Distance, Wrapped, Slots
  <2>3. due # <<>> /\ kbd_buf[kbd_tail] = Head(due)
    BY <1>2, <2>1, <2>2 DEF Holds
  <2>4. k' = kbd_buf[kbd_tail] /\ k' \in KeyCode \cup {Empty}
    BY <1>10, <2>1 DEF Pop
  <2> QED
    BY <1>2, <1>10, <2>3, <2>4, QuietKeepsInv DEF Pop
<1>11. CASE Take
  <2>1. /\ kbd_head \in Slots /\ kbd_tail \in Slots /\ due # <<>>
        /\ kbd_buf \in [Slots -> KeyCode \cup {Empty}]
        /\ Holds(kbd_buf, kbd_head, kbd_tail, due)
    BY <1>1, <1>2, <1>11 DEF Take, TypeOK, KeyboardInv, RingHoldsDue
  <2>2. /\ kbd_tail' = Succ(kbd_tail) /\ kbd_buf' = [kbd_buf EXCEPT ![kbd_tail] = Empty]
        /\ kbd_head' = kbd_head /\ due' = Tail(due)
        /\ k' = Empty /\ pc' = "user" /\ mode' = "none" /\ iflag' = TRUE
        /\ exit_requested' = FALSE /\ UNCHANGED <<keyboard, port, irq, decoder, typed>>
    BY <1>11, <2>1 DEF Take, Return
  <2>3. RingHoldsDue'
    BY <1>2, <2>1, <2>2, TakeHolds DEF RingHoldsDue
  <2>4. /\ kbd_tail' \in Slots /\ kbd_buf' \in [Slots -> KeyCode \cup {Empty}]
        /\ due' \in Seq(KeyCode)
    BY <1>2, <2>1, <2>2, RingArithmetic
  <2>5. TypeOK'
    BY <1>1, <2>2, <2>4 DEF TypeOK, keyboard, decoder
  <2>6. BytesPayTyped' /\ TakesOldest'
    BY <2>2 DEF KeyboardInv, BytesPayTyped, TakesOldest, Pending, DecoderNow, keyboard,
                decoder
  <2> QED
    BY <2>3, <2>5, <2>6 DEF KeyboardInv
<1>12. CASE DrainEmpty
  BY <1>2, <1>12, QuietKeepsInv DEF DrainEmpty, Return
<1>13. CASE Drain
  <2>1. /\ port.full /\ kbd_handle_scancode(port.byte)
        /\ port' = [port EXCEPT !.full = FALSE] /\ UNCHANGED <<keyboard, irq, k>>
    BY <1>13 DEF Drain
  <2>2. /\ pc' \in {"user", "pop"} /\ mode' \in {"wait", "poll", "last", "none"}
        /\ iflag' \in BOOLEAN /\ exit_requested' \in BOOLEAN
    BY <1>2, <1>13 DEF Drain, Return
  <2> QED
    BY <1>2, <2>1, <2>2, TakenKeepsInv
<1>14. CASE Halt
  BY <1>2, <1>14, QuietKeepsInv DEF Halt
<1>15. CASE UNCHANGED vars
  BY <1>2, <1>15, QuietKeepsInv DEF vars, reader
<1> QED
  BY <1>3, <1>4, <1>5, <1>6, <1>7, <1>8, <1>9, <1>10, <1>11, <1>12, <1>13, <1>14, <1>15
     DEF Next, Reader

(***************************************************************************)
(* The theorems.                                                           *)
(***************************************************************************)
\* Whatever the keyboard, the interrupts and the reader do, every variable of
\* the keyboard driver keeps its range: the ring's indexes stay in the ring
\* and the tables of keys held down name only keys that exist.
THEOREM TypeCorrect == Spec => []TypeOK
<1>1. KeyboardInv => TypeOK
  BY DEF KeyboardInv
<1> QED
  BY <1>1, KeyboardInit, KeyboardStep, PTL DEF Spec

\* Whoever takes the bytes, IRQ1 or a polling program, the ring holds the keys
\* typed, each once, in order, with the modifiers held when it was typed, less
\* those that kbd_push dropped; the interrupt never overwrites a key that
\* kbd_pop has read and not yet removed.
THEOREM RingKeepsTyped == Spec => []RingHoldsTyped
<1>1. ASSUME KeyboardInv PROVE RingHoldsTyped
  <2>1. TypeOK /\ RingKeys = due
    BY <1>1, RingIsDue DEF KeyboardInv, RingHoldsDue
  <2>2. Quiet => typed = <<>>
    <3>1. SUFFICES ASSUME Quiet PROVE typed = <<>>
      OBVIOUS
    <3>2. Pending = <<>> /\ typed \in Seq(KeyCode)
      BY <2>1, <3>1 DEF Quiet, Pending, TypeOK
    <3>3. Leads(<<>>, typed, DecoderNow, Settled(held))
      BY <1>1, <3>2 DEF KeyboardInv, BytesPayTyped
    <3> QED
      BY <3>2, <3>3, LeadsNowhere
  <2> QED
    BY <1>1, <2>1, <2>2 DEF KeyboardInv, RingHoldsTyped, TakesOldest
<1> QED
  BY <1>1, KeyboardInit, KeyboardStep, PTL DEF Spec

\* With no byte on its way, what sys_keystate reads is exactly the keys held,
\* and no shift, control or 0xE0 prefix is left over from an earlier key.
THEOREM KeyStateIsTrue == Spec => []KeyStateTracksKeys
<1>1. ASSUME KeyboardInv PROVE KeyStateTracksKeys
  <2>1. SUFFICES ASSUME Quiet PROVE DecoderNow = Settled(held)
    BY DEF KeyStateTracksKeys, DecoderNow, Settled, Arrow
  <2>2. Pending = <<>> /\ typed \in Seq(KeyCode)
    BY <1>1, <2>1 DEF Quiet, Pending, KeyboardInv, TypeOK
  <2>3. Leads(<<>>, typed, DecoderNow, Settled(held))
    BY <1>1, <2>2 DEF KeyboardInv, BytesPayTyped
  <2> QED
    BY <2>2, <2>3, LeadsNowhere
<1> QED
  BY <1>1, KeyboardInit, KeyboardStep, PTL DEF Spec

=============================================================================
