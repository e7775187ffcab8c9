--------------------------- MODULE HttpProxyProofs ---------------------------
(* Theorems of HttpProxy: types, and that a tunnel loses nothing, for any   *)
(* number of requests, of frames and of parts of a head.                    *)
EXTENDS HttpProxy, SequenceTheorems, WellFoundedInduction, TLAPS

----------------------------------------------------------------------------
(* Wires                                                                   *)

LEMMA LeastExists ==
    ASSUME NEW S \in SUBSET Nat, S # {}
    PROVE  \E n \in S : \A m \in S : n <= m
<1> DEFINE R == OpToRel(<, Nat)
<1>1. IsWellFoundedOn(R, Nat)
    BY ONLY NatLessThanWellFounded
<1>2. \A m, n \in Nat : m < n => <<m, n>> \in R
    BY DEF OpToRel
<1> HIDE DEF R
<1>3. PICK n \in S : \A m \in S : ~(<<m, n>> \in R)
    BY <1>1, WFMin
<1>4. \A m \in S : n <= m
  <2> TAKE m \in S
  <2>1. ~(m < n)
      BY <1>2, <1>3
  <2> QED BY <2>1
<1> QED BY <1>4

\* What goes to the app and what is left to send may be one wire or two.
LEMMA Moves ==
    ASSUME NEW S, NEW v \in Seq(S), NEW w \in Seq(S), w # <<>>
    PROVE  Append(v, Head(w)) \o Tail(w) = v \o w
<1>1. /\ Head(w) \in S /\ Tail(w) \in Seq(S) /\ Len(Tail(w)) = Len(w) - 1 /\ Len(w) \in Nat \ {0}
      /\ \A i \in 1..Len(Tail(w)) : Tail(w)[i] = w[i + 1]
    BY HeadTailProperties, EmptySeq
<1>2. /\ Append(v, Head(w)) \in Seq(S) /\ Len(Append(v, Head(w))) = Len(v) + 1
      /\ \A i \in 1..Len(v) : Append(v, Head(w))[i] = v[i]
      /\ Append(v, Head(w))[Len(v) + 1] = w[1]
    BY <1>1, AppendProperties, LenProperties
<1>3. /\ Append(v, Head(w)) \o Tail(w) \in Seq(S) /\ v \o w \in Seq(S)
      /\ Len(v \o w) = Len(v) + Len(w)
      /\ Len(Append(v, Head(w)) \o Tail(w)) = Len(v) + Len(w)
    BY <1>1, <1>2, ConcatProperties, LenProperties
<1>4. ASSUME NEW i \in 1..Len(v \o w)
      PROVE  (Append(v, Head(w)) \o Tail(w))[i] = (v \o w)[i]
  <2>1. (v \o w)[i] = IF i <= Len(v) THEN v[i] ELSE w[i - Len(v)]
      BY <1>3, ConcatProperties
  <2>2. (Append(v, Head(w)) \o Tail(w))[i]
          = IF i <= Len(v) + 1 THEN Append(v, Head(w))[i] ELSE Tail(w)[i - (Len(v) + 1)]
      BY <1>1, <1>2, <1>3, ConcatProperties, LenProperties
  <2>3. Len(v) \in Nat /\ i \in 1..Len(v) + Len(w)
      BY <1>3, LenProperties
  <2>4. CASE i <= Len(v)
      BY <1>2, <2>1, <2>2, <2>3, <2>4
  <2>5. CASE i = Len(v) + 1
      BY <1>2, <2>1, <2>2, <2>3, <2>5
  <2>6. CASE i > Len(v) + 1
    <3>1. i - (Len(v) + 1) \in 1..Len(Tail(w))
        BY <1>1, <2>3, <2>6
    <3>2. Tail(w)[i - (Len(v) + 1)] = w[i - Len(v)]
        BY <1>1, <2>3, <3>1
    <3> QED BY <2>1, <2>2, <2>3, <2>6, <3>2
  <2> QED BY <2>3, <2>4, <2>5, <2>6
<1> QED BY <1>3, <1>4, SeqEqual

LEMMA AppendsLast ==
    ASSUME NEW S, NEW v \in Seq(S), NEW w \in Seq(S), NEW p \in S
    PROVE  v \o Append(w, p) = Append(v \o w, p)
<1>1. <<p>> \in Seq(S)
    OBVIOUS
<1>2. Append(w, p) = w \o <<p>> /\ Append(v \o w, p) = (v \o w) \o <<p>>
    BY AppendIsConcat, ConcatProperties
<1> QED BY <1>1, <1>2, ConcatAssociative

LEMMA TailsFirst ==
    ASSUME NEW S, NEW v \in Seq(S), NEW w \in Seq(S), v # <<>>
    PROVE  Head(v \o w) = Head(v) /\ Tail(v \o w) = Tail(v) \o w /\ v \o w # <<>>
<1>1. v = <<Head(v)>> \o Tail(v) /\ Tail(v) \in Seq(S) /\ <<Head(v)>> \in Seq(S) /\ Head(v) \in S
  <2>1. Head(v) \in S /\ Tail(v) \in Seq(S)
      BY HeadTailProperties
  <2>2. <<>> \in Seq(S) /\ Append(<<>>, Head(v)) = <<Head(v)>>
      BY EmptySeq
  <2>3. Append(<<>>, Head(v)) \o Tail(v) = <<>> \o v
      BY <2>2, Moves
  <2> QED BY <2>1, <2>2, <2>3, ConcatEmptySeq
<1>2. v \o w = <<Head(v)>> \o (Tail(v) \o w) /\ Tail(v) \o w \in Seq(S)
    BY <1>1, ConcatAssociative, ConcatProperties
<1> DEFINE t == Tail(v) \o w
<1>3. /\ <<Head(v)>> \o t \in Seq(S) /\ Len(<<Head(v)>> \o t) = 1 + Len(t)
      /\ \A i \in 1..1 + Len(t) : (<<Head(v)>> \o t)[i] = IF i <= 1 THEN Head(v) ELSE t[i - 1]
  <2>1. t \in Seq(S) /\ <<Head(v)>> \in Seq(S) /\ Len(<<Head(v)>>) = 1 /\ <<Head(v)>>[1] = Head(v)
      BY <1>1, <1>2
  <2> HIDE DEF t
  <2>2. /\ <<Head(v)>> \o t \in Seq(S) /\ Len(<<Head(v)>> \o t) = Len(<<Head(v)>>) + Len(t)
        /\ \A i \in 1..Len(<<Head(v)>>) + Len(t) :
              (<<Head(v)>> \o t)[i] = IF i <= Len(<<Head(v)>>) THEN <<Head(v)>>[i]
                                       ELSE t[i - Len(<<Head(v)>>)]
      BY <2>1, ConcatProperties
  <2>3. \A i \in 1..1 + Len(t) : i <= 1 => <<Head(v)>>[i] = Head(v)
      BY <2>1, LenProperties
  <2> QED BY <2>1, <2>2, <2>3
<1>4. t \in Seq(S) /\ Len(t) \in Nat
    BY <1>2, LenProperties
<1> HIDE DEF t
<1>5. /\ <<Head(v)>> \o t # <<>>
      /\ Head(<<Head(v)>> \o t) = Head(v)
    BY <1>3, <1>4, EmptySeq
<1>6. /\ Tail(<<Head(v)>> \o t) \in Seq(S) /\ Len(Tail(<<Head(v)>> \o t)) = Len(t)
      /\ \A i \in 1..Len(t) : Tail(<<Head(v)>> \o t)[i] = t[i]
    BY <1>3, <1>4, <1>5, HeadTailProperties
<1>7. Tail(<<Head(v)>> \o t) = t
    BY <1>4, <1>6, SeqEqual
<1> QED BY <1>2, <1>5, <1>7 DEF t

----------------------------------------------------------------------------
(* The frames on a wire                                                    *)

Pieces == [kind : Asks \cup {"body", "part", "frame", "end", "eof", "status"}, n : Nat]

LEMMA Appended ==
    ASSUME NEW w \in Seq(Pieces), NEW p \in Pieces
    PROVE  /\ Append(w, p) \in Seq(Pieces) /\ Len(Append(w, p)) = Len(w) + 1 /\ Len(w) \in Nat
           /\ \A i \in 1..Len(w) : Append(w, p)[i] = w[i]
           /\ Append(w, p)[Len(w) + 1] = p
BY AppendProperties, LenProperties

LEMMA Tailed ==
    ASSUME NEW w \in Seq(Pieces), w # <<>>
    PROVE  /\ Tail(w) \in Seq(Pieces) /\ Len(Tail(w)) = Len(w) - 1 /\ Len(w) \in Nat \ {0}
           /\ \A i \in 1..Len(Tail(w)) : Tail(w)[i] = w[i + 1]
           /\ Head(w) = w[1] /\ Head(w) \in Pieces
BY HeadTailProperties, EmptySeq

LEMMA FramesAppended ==
    ASSUME NEW w \in Seq(Pieces), NEW p \in Pieces
    PROVE  /\ Len(w) \in Nat
           /\ Frames(Append(w, p))
                = Frames(w) \cup (IF p.kind = "frame" THEN {Len(w) + 1} ELSE {})
           /\ \A i \in Frames(w) : Append(w, p)[i] = w[i] /\ i \in 1..Len(w)
           /\ Append(w, p)[Len(w) + 1] = p
BY Appended DEF Frames

LEMMA FramesTailed ==
    ASSUME NEW w \in Seq(Pieces), w # <<>>
    PROVE  /\ Frames(w) = (IF Head(w).kind = "frame" THEN {1} ELSE {})
                          \cup {i + 1 : i \in Frames(Tail(w))}
           /\ \A i \in Frames(Tail(w)) : Tail(w)[i] = w[i + 1] /\ i \in Nat /\ i > 0
           /\ w[1] = Head(w)
<1>1. /\ Tail(w) \in Seq(Pieces) /\ Len(Tail(w)) = Len(w) - 1 /\ Len(w) \in Nat \ {0}
      /\ \A i \in 1..Len(Tail(w)) : Tail(w)[i] = w[i + 1]
      /\ Head(w) = w[1]
    BY Tailed
<1>2. \A i \in Frames(w) : i \in (IF Head(w).kind = "frame" THEN {1} ELSE {})
                                 \cup {j + 1 : j \in Frames(Tail(w))}
  <2> SUFFICES ASSUME NEW i \in 1..Len(w), w[i].kind = "frame", i # 1
               PROVE  \E j \in Frames(Tail(w)) : i = j + 1
      BY <1>1 DEF Frames
  <2>1. i - 1 \in Frames(Tail(w)) /\ i = (i - 1) + 1
      BY <1>1 DEF Frames
  <2> QED BY <2>1
<1>3. \A i \in Frames(Tail(w)) : i + 1 \in Frames(w) /\ Tail(w)[i] = w[i + 1] /\ i \in Nat /\ i > 0
    BY <1>1 DEF Frames
<1>4. Head(w).kind = "frame" => 1 \in Frames(w)
    BY <1>1 DEF Frames
<1> QED BY <1>1, <1>2, <1>3, <1>4

LEMMA NoFrameAppended ==
    ASSUME NEW w \in Seq(Pieces), NEW p \in Pieces, p.kind # "frame"
    PROVE  Frames(Append(w, p)) = Frames(w)
<1>1. Frames(Append(w, p)) = Frames(w) \cup {}
    BY FramesAppended
<1> QED BY <1>1

LEMMA NoFramesTailed ==
    ASSUME NEW w \in Seq(Pieces), w # <<>>, Frames(w) = {}
    PROVE  Frames(Tail(w)) = {} /\ Head(w).kind # "frame"
<1>1. Frames(w) = (IF Head(w).kind = "frame" THEN {1} ELSE {}) \cup {i + 1 : i \in Frames(Tail(w))}
    BY FramesTailed
<1> QED BY <1>1

LEMMA CarriesNothing ==
    ASSUME NEW w, Frames(w) = {}, NEW a \in Nat
    PROVE  Carries(w, a, a)
<1>1. a + 1..a = {}
    OBVIOUS
<1> QED BY <1>1 DEF Carries

LEMMA CarriesNext ==
    ASSUME NEW w \in Seq(Pieces), NEW a \in Nat, NEW b \in Nat, a <= b, Carries(w, a, b)
    PROVE  Carries(Append(w, Frame(b + 1)), a, b + 1)
<1> DEFINE p == Frame(b + 1)
           v == Append(w, p)
<1>1. p \in Pieces /\ p.kind = "frame" /\ p.n = b + 1
    BY DEF Frame, Piece, Pieces
<1>2. /\ Len(w) \in Nat /\ Frames(v) = Frames(w) \cup {Len(w) + 1}
      /\ \A i \in Frames(w) : v[i] = w[i] /\ i \in 1..Len(w)
      /\ v[Len(w) + 1] = p
    BY <1>1, FramesAppended
<1>3. \A i \in Frames(w) : w[i].n \in a + 1..b
    BY DEF Carries
<1> HIDE DEF p, v
<1>4. {v[i].n : i \in Frames(v)} = {w[i].n : i \in Frames(w)} \cup {b + 1}
    BY <1>1, <1>2
<1>5. {v[i].n : i \in Frames(v)} = a + 1..b + 1
    BY <1>4, SMTT(30) DEF Carries
<1>6. \A i, j \in Frames(v) : i < j => v[i].n < v[j].n
  <2> SUFFICES ASSUME NEW i \in Frames(v), NEW j \in Frames(v), i < j
               PROVE  v[i].n < v[j].n
      OBVIOUS
  <2>1. i \in Frames(w) /\ v[i] = w[i]
      BY <1>2
  <2>2. CASE j \in Frames(w)
      BY <1>2, <2>1, <2>2 DEF Carries
  <2>3. CASE j = Len(w) + 1
      BY <1>1, <1>2, <1>3, <2>1, <2>3
  <2> QED BY <1>2, <2>2, <2>3
<1> QED BY <1>5, <1>6 DEF Carries, v, p

LEMMA CarriesMore ==
    ASSUME NEW w \in Seq(Pieces), NEW a, NEW b, Carries(w, a, b),
           NEW p \in Pieces, p.kind # "frame"
    PROVE  Carries(Append(w, p), a, b)
<1>1. /\ Frames(Append(w, p)) = Frames(w) \cup {}
      /\ \A i \in Frames(w) : Append(w, p)[i] = w[i]
    BY FramesAppended
<1>2. Frames(Append(w, p)) = Frames(w)
    BY <1>1
<1>3. {Append(w, p)[i].n : i \in Frames(Append(w, p))} = {w[i].n : i \in Frames(w)}
    BY <1>1, <1>2
<1> QED BY <1>1, <1>2, <1>3 DEF Carries

LEMMA CarriesRest ==
    ASSUME NEW w \in Seq(Pieces), w # <<>>, NEW a, NEW b, Carries(w, a, b),
           Head(w).kind # "frame"
    PROVE  Carries(Tail(w), a, b)
<1> DEFINE v == Tail(w)
<1>1. /\ Frames(w) = {i + 1 : i \in Frames(v)}
      /\ \A i \in Frames(v) : v[i] = w[i + 1] /\ i \in Nat
    BY FramesTailed
<1> HIDE DEF v
<1>2. {v[i].n : i \in Frames(v)} = {w[i].n : i \in Frames(w)}
    BY <1>1
<1>3. ASSUME NEW i \in Frames(v), NEW j \in Frames(v), i < j
      PROVE  v[i].n < v[j].n
  <2>1. i + 1 \in Frames(w) /\ j + 1 \in Frames(w) /\ i + 1 < j + 1
      BY <1>1, <1>3
  <2> QED BY <1>1, <2>1 DEF Carries
<1> QED BY <1>2, <1>3 DEF Carries, v

LEMMA CarriesFirst ==
    ASSUME NEW w \in Seq(Pieces), w # <<>>, NEW a \in Nat, NEW b \in Nat, Carries(w, a, b),
           Head(w).kind = "frame"
    PROVE  Head(w).n = a + 1 /\ a + 1 <= b /\ Carries(Tail(w), a + 1, b)
<1> DEFINE v == Tail(w)
<1>1. /\ Frames(w) = {1} \cup {i + 1 : i \in Frames(v)}
      /\ \A i \in Frames(v) : v[i] = w[i + 1] /\ i \in Nat /\ i > 0
      /\ w[1] = Head(w)
    BY FramesTailed
<1> HIDE DEF v
<1>2. \A i \in Frames(w) : w[i].n \in a + 1..b
    BY DEF Carries
<1>3. \A i \in Frames(v) : w[1].n < v[i].n
  <2> TAKE i \in Frames(v)
  <2>1. i + 1 \in Frames(w) /\ 1 \in Frames(w) /\ 1 < i + 1
      BY <1>1
  <2> QED BY <1>1, <2>1 DEF Carries
<1>4. w[1].n \in a + 1..b
    BY <1>1, <1>2
<1>5. w[1].n = a + 1
  <2>0. a + 1 \in a + 1..b
      BY <1>4
  <2>1. PICK i \in Frames(w) : w[i].n = a + 1
      BY <2>0 DEF Carries
  <2>2. CASE i = 1
      BY <2>1, <2>2
  <2>3. CASE \E j \in Frames(v) : i = j + 1
      BY <1>1, <1>3, <1>4, <2>1, <2>3
  <2> QED BY <1>1, <2>2, <2>3
<1>6. {v[i].n : i \in Frames(v)} = a + 2..b
  <2>1. \A i \in Frames(v) : v[i].n \in a + 2..b
    <3> TAKE i \in Frames(v)
    <3>1. i + 1 \in Frames(w) /\ v[i] = w[i + 1]
        BY <1>1
    <3>2. v[i].n \in a + 1..b /\ v[i].n > a + 1
        BY <1>2, <1>3, <1>5, <3>1
    <3> QED BY <3>2
  <2>2. \A m \in a + 2..b : \E i \in Frames(v) : v[i].n = m
    <3> TAKE m \in a + 2..b
    <3>1. m \in a + 1..b /\ m # a + 1
        OBVIOUS
    <3>2. PICK i \in Frames(w) : w[i].n = m
        BY <3>1 DEF Carries
    <3>3. PICK j \in Frames(v) : i = j + 1
        BY <1>1, <1>5, <3>1, <3>2
    <3> QED BY <1>1, <3>2, <3>3
  <2> QED BY <2>1, <2>2
<1>7. ASSUME NEW i \in Frames(v), NEW j \in Frames(v), i < j
      PROVE  v[i].n < v[j].n
  <2>1. i + 1 \in Frames(w) /\ j + 1 \in Frames(w) /\ i + 1 < j + 1
      BY <1>1, <1>7
  <2> QED BY <1>1, <2>1 DEF Carries
<1>8. (a + 1) + 1..b = a + 2..b
    OBVIOUS
<1>9. Carries(v, a + 1, b)
    BY <1>6, <1>7, <1>8 DEF Carries
<1> QED BY <1>1, <1>4, <1>5, <1>9 DEF v

\* The wire carries some of the frames, from the one after the a-th on.
Partial(wire, a, b) == \E m \in a..b : Carries(wire, a, m)

LEMMA PartialMore ==
    ASSUME NEW w \in Seq(Pieces), NEW a, NEW b, Partial(w, a, b),
           NEW p \in Pieces, p.kind # "frame"
    PROVE  Partial(Append(w, p), a, b)
BY CarriesMore DEF Partial

LEMMA PartialRest ==
    ASSUME NEW w \in Seq(Pieces), w # <<>>, NEW a, NEW b, Partial(w, a, b),
           Head(w).kind # "frame"
    PROVE  Partial(Tail(w), a, b)
BY CarriesRest DEF Partial

LEMMA PartialFirst ==
    ASSUME NEW w \in Seq(Pieces), w # <<>>, NEW a \in Nat, NEW b \in Nat, Partial(w, a, b),
           Head(w).kind = "frame"
    PROVE  Head(w).n = a + 1 /\ a + 1 <= b /\ Partial(Tail(w), a + 1, b)
<1>1. PICK m \in a..b : Carries(w, a, m)
    BY DEF Partial
<1>2. Head(w).n = a + 1 /\ a + 1 <= m /\ Carries(Tail(w), a + 1, m) /\ m \in a + 1..b
    BY <1>1, CarriesFirst
<1> QED BY <1>1, <1>2 DEF Partial

LEMMA PartialGrows ==
    ASSUME NEW w, NEW a \in Nat, NEW b \in Nat, NEW c \in Nat, b <= c, Partial(w, a, b)
    PROVE  Partial(w, a, c)
BY DEF Partial

\* What is before a place on the wire.
LEMMA CarriesStart ==
    ASSUME NEW v \in Seq(Pieces), NEW w \in Seq(Pieces), NEW a \in Nat, NEW b \in Nat,
           a <= b, Carries(v \o w, a, b)
    PROVE  Partial(v, a, b)
<1> DEFINE u == v \o w
           Open == {m \in a..b : \A i \in Frames(v) : v[i].n <= m}
<1>1. /\ Len(v) \in Nat /\ Len(w) \in Nat /\ Len(u) = Len(v) + Len(w)
      /\ \A i \in 1..Len(v) + Len(w) : u[i] = IF i <= Len(v) THEN v[i] ELSE w[i - Len(v)]
    BY ConcatProperties, LenProperties
<1>2. \A i \in Frames(v) : i \in Frames(u) /\ u[i] = v[i] /\ i \in Nat /\ i <= Len(v)
    BY <1>1 DEF Frames
<1>3. \A i \in Frames(u) : u[i].n \in a + 1..b
    BY DEF Carries
<1>4. \A i \in Frames(u) : i \notin Frames(v) => i \in Nat /\ i > Len(v)
    BY <1>1 DEF Frames
<1> HIDE DEF u
<1>5. b \in Open
    BY <1>2, <1>3
<1>6. PICK m \in Open : \A k \in Open : m <= k
  <2>1. Open \in SUBSET Nat
      OBVIOUS
  <2> HIDE DEF Open
  <2> QED BY <1>5, <2>1, LeastExists
<1>7. \A i \in Frames(v) : v[i].n \in a + 1..m
    BY <1>2, <1>3, <1>6
<1>8. m > a => \E i \in Frames(v) : v[i].n = m
  <2> SUFFICES ASSUME m > a, \A i \in Frames(v) : v[i].n # m
               PROVE  FALSE
      OBVIOUS
  <2>1. m - 1 \in Open
      BY <1>6, <1>7
  <2> QED BY <1>6, <2>1
<1>9. ASSUME NEW k \in a + 1..m
      PROVE  \E i \in Frames(v) : v[i].n = k
  <2>1. m \in Nat /\ m <= b /\ m > a
      BY <1>6, <1>9
  <2>2. PICK i \in Frames(v) : v[i].n = m
      BY <1>8, <2>1
  <2>3. k \in a + 1..b
      BY <1>9, <2>1
  <2>4. PICK j \in Frames(u) : u[j].n = k
      BY <2>3 DEF Carries, u
  <2>5. CASE j \in Frames(v)
      BY <1>2, <2>4, <2>5
  <2>6. CASE j \notin Frames(v)
    <3>1. i < j /\ i \in Frames(u)
        BY <1>1, <1>2, <1>4, <2>2, <2>6
    <3>2. u[i].n < u[j].n
        BY <3>1 DEF Carries, u
    <3> QED BY <1>2, <2>1, <2>2, <2>4, <3>2, <1>9
  <2> QED BY <2>5, <2>6
<1>10. \A i, j \in Frames(v) : i < j => v[i].n < v[j].n
  <2> TAKE i, j \in Frames(v)
  <2>1. /\ i \in Frames(u) /\ j \in Frames(u) /\ u[i] = v[i] /\ u[j] = v[j]
      BY <1>2
  <2> QED BY <2>1 DEF Carries, u
<1>11. {v[i].n : i \in Frames(v)} = a + 1..m
    BY <1>7, <1>9
<1>12. Carries(v, a, m)
    BY <1>10, <1>11 DEF Carries
<1>13. m \in a..b
    BY <1>6
<1> QED BY <1>12, <1>13 DEF Partial

\* What is after a place before which no frame is.
LEMMA CarriesCut ==
    ASSUME NEW w \in Seq(Pieces), NEW h \in 0..Len(w), NEW a, NEW b, Carries(w, a, b),
           \A i \in Frames(w) : i > h
    PROVE  Carries(SubSeq(w, h + 1, Len(w)), a, b)
<1> DEFINE v == SubSeq(w, h + 1, Len(w))
<1>1. /\ Len(w) \in Nat /\ Len(v) = Len(w) - h
      /\ \A i \in 1..Len(v) : v[i] = w[h + i]
  <2>1. Len(w) \in Nat /\ h + 1 \in Int /\ Len(w) \in Int
      BY LenProperties
  <2>2. \A i \in h + 1..Len(w) : w[i] \in Pieces
      BY <2>1, ElementOfSeq
  <2>3. /\ Len(v) = IF h + 1 <= Len(w) THEN Len(w) - (h + 1) + 1 ELSE 0
        /\ \A i \in 1..Len(w) - (h + 1) + 1 : v[i] = w[h + 1 + i - 1]
      BY <2>1, <2>2, SubSeqProperties
  <2> HIDE DEF v
  <2> QED BY <2>1, <2>3
<1> HIDE DEF v
<1>2. \A i \in Frames(v) : h + i \in Frames(w) /\ v[i] = w[h + i] /\ i \in Nat
    BY <1>1 DEF Frames
<1>3. \A i \in Frames(w) : i - h \in Frames(v) /\ v[i - h] = w[i]
    BY <1>1 DEF Frames
<1>4. {v[i].n : i \in Frames(v)} = {w[i].n : i \in Frames(w)}
    BY <1>2, <1>3
<1>5. ASSUME NEW i \in Frames(v), NEW j \in Frames(v), i < j
      PROVE  v[i].n < v[j].n
  <2>1. h + i \in Frames(w) /\ h + j \in Frames(w) /\ h + i < h + j
      BY <1>2, <1>5
  <2> QED BY <1>2, <2>1 DEF Carries
<1> QED BY <1>4, <1>5 DEF Carries, v

LEMMA UpToNext ==
    ASSUME NEW a \in Nat
    PROVE  /\ UpTo(a) \in Seq(Nat) /\ Len(UpTo(a)) = a
           /\ Append(UpTo(a), a + 1) = UpTo(a + 1)
<1>1. \A b \in Nat : UpTo(b) \in Seq(Nat) /\ Len(UpTo(b)) = b /\ \A i \in 1..b : UpTo(b)[i] = i
    BY DEF UpTo
<1>2. /\ Append(UpTo(a), a + 1) \in Seq(Nat) /\ Len(Append(UpTo(a), a + 1)) = a + 1
      /\ \A i \in 1..a : Append(UpTo(a), a + 1)[i] = i
      /\ Append(UpTo(a), a + 1)[a + 1] = a + 1
  <2>1. UpTo(a) \in Seq(Nat) /\ Len(UpTo(a)) = a /\ a + 1 \in Nat
      BY <1>1
  <2>2. /\ Append(UpTo(a), a + 1) \in Seq(Nat)
        /\ Len(Append(UpTo(a), a + 1)) = Len(UpTo(a)) + 1
        /\ \A i \in 1..Len(UpTo(a)) : Append(UpTo(a), a + 1)[i] = UpTo(a)[i]
        /\ Append(UpTo(a), a + 1)[Len(UpTo(a)) + 1] = a + 1
      BY <2>1, AppendProperties
  <2> QED BY <1>1, <2>1, <2>2
<1>3. \A i \in 1..a + 1 : Append(UpTo(a), a + 1)[i] = UpTo(a + 1)[i]
  <2> TAKE i \in 1..a + 1
  <2>1. UpTo(a + 1)[i] = i
      BY <1>1
  <2> QED BY <1>2, <2>1
<1>4. UpTo(a + 1) \in Seq(Nat) /\ Len(UpTo(a + 1)) = a + 1
    BY <1>1
<1>5. Append(UpTo(a), a + 1) = UpTo(a + 1)
    BY <1>2, <1>3, <1>4, SeqEqual
<1> QED BY <1>1, <1>5

LEMMA UpToPrefix ==
    ASSUME NEW a \in Nat, NEW b \in Nat, a <= b
    PROVE  IsPrefix(UpTo(a), UpTo(b))
<1>1. \A m \in Nat : Len(UpTo(m)) = m /\ UpTo(m) \in Seq(Nat) /\ \A i \in 1..m : UpTo(m)[i] = i
    BY DEF UpTo
<1>2. SubSeq(UpTo(a), 1, a) = SubSeq(UpTo(b), 1, a)
  <2>1. ASSUME NEW m \in {a, b}, NEW i \in 1..a
        PROVE  UpTo(m)[i] \in Nat /\ UpTo(m)[i] = i
    <3>1. m \in Nat /\ i \in 1..m /\ i \in Nat
        OBVIOUS
    <3> QED BY <1>1, <3>1
  <2>2. ASSUME NEW m \in {a, b}
        PROVE  /\ SubSeq(UpTo(m), 1, a) \in Seq(Nat) /\ Len(SubSeq(UpTo(m), 1, a)) = a
               /\ \A i \in 1..a : SubSeq(UpTo(m), 1, a)[i] = i
    <3>1. /\ SubSeq(UpTo(m), 1, a) \in Seq(Nat)
          /\ Len(SubSeq(UpTo(m), 1, a)) = IF 1 <= a THEN a - 1 + 1 ELSE 0
          /\ \A i \in 1..a - 1 + 1 : SubSeq(UpTo(m), 1, a)[i] = UpTo(m)[1 + i - 1]
        BY <2>1, SubSeqProperties
    <3>2. a - 1 + 1 = a /\ \A i \in 1..a : 1 + i - 1 = i
        OBVIOUS
    <3> QED BY <2>1, <3>1, <3>2
  <2> QED BY <2>2, SeqEqual
<1> QED BY <1>1, <1>2 DEF IsPrefix

----------------------------------------------------------------------------
(* The invariant                                                           *)

Of(wire, kinds) == {i \in 1..Len(wire) : wire[i].kind \in kinds}
Has(wire, p) == \E i \in 1..Len(wire) : wire[i] = p
Only(wire, kinds) == \A i \in 1..Len(wire) : wire[i].kind \in kinds
AtMostOne(S) == \A i, j \in S : i = j

FramePiece == [kind : {"frame"}, n : 1..MaxFrames]
UpPiece == [kind : Asks \cup {"body", "eof"}, n : {0}] \cup FramePiece
DownPiece == [kind : {"end", "eof"}, n : {0}] \cup FramePiece
             \cup [kind : {"status"}, n : 100..999]
OutPiece == [kind : (Asks \cap {"plain", "upgrade"}) \cup {"eof"}, n : {0}] \cup FramePiece
BackPiece == [kind : {"part", "end", "eof"}, n : {0}] \cup FramePiece
             \cup [kind : {"status"}, n : Codes \cup {200}]

Tunneling == {"handover", "passing", "copying"}
Upgrading == {"connecting", "asking", "reading"}
Handling == Upgrading \cup {"collecting", "requesting", "relaying"}

ClientState == [at : {"open", "finished", "left"}, asks : 0..MaxAsks,
                waits : {"none", "body", "answer"}, tunnel : BOOLEAN,
                sent : 0..MaxFrames, got : Seq(1..MaxFrames)]
ServiceState == [at : Handling \cup Tunneling \cup {"idle", "closed"},
                 waited : 0..ProxyTimeout + 1, rest : Seq(BackPiece), done : SUBSET Ways]
AppState == [conn : {"none", "open", "closed"},
             ask : (Asks \cap {"plain", "upgrade"}) \cup {"none"},
             parts : 0..MaxParts, code : Codes \cup {0, 200, 999}, sent : 0..MaxFrames,
             got : Seq(1..MaxFrames), told : BOOLEAN, mute : BOOLEAN]

Typed ==
    /\ client \in ClientState /\ service \in ServiceState /\ app \in AppState
    /\ up \in Seq(UpPiece) /\ down \in Seq(DownPiece)
    /\ out \in Seq(OutPiece) /\ back \in Seq(BackPiece)

\* What was read and not written is the leftover of a tunnel; only a tunnel is
\* done in a direction.
Service ==
    /\ service.done # {} => service.at \in {"copying", "closed"}
    /\ service.at \notin {"reading", "handover", "passing"} => service.rest = <<>>

\* A plain request, and what the app says to it.
Plain ==
    service.at \in {"requesting", "relaying"} =>
       /\ "plain" \in Asks /\ app.ask # "upgrade" /\ Only(out, {"plain"})
       /\ \A i \in 1..Len(back) : back[i].kind = "status" => back[i].n = 200

\* An app that is asked for an upgrade ends what it says once.
Upgraded ==
    service.at \in Upgrading \cup Tunneling =>
       /\ "upgrade" \in Asks /\ app.ask # "plain" /\ Only(out, {"upgrade", "frame", "eof"})
       /\ service.at = "connecting" => app.conn = "none"
       /\ app.conn # "closed" => Of(back, {"eof"}) = {}
       /\ \A i \in Of(back, {"eof"}) : i = Len(back)

\* Before the tunnel: parts, the status, all the frames of the app.
HeadComes ==
    service.at \in Upgrading =>
       /\ Only(service.rest, {"part"}) /\ Only(back, {"part", "status", "frame", "eof"})
       /\ app.got = <<>> /\ Frames(out) = {}
       /\ Carries(back, 0, app.sent)
       /\ app.code # 0 => Of(back, {"status"}) # {}
       /\ \A i \in Of(back, {"status"}) :
             /\ app.code # 0
             /\ \A j \in 1..Len(back) : j > i => back[j].kind \in {"frame", "eof"}
       /\ \A i \in Frames(back) : \E j \in Of(back, {"status"}) : j < i

\* In it only frames are left.
HeadCame ==
    service.at \in Tunneling =>
       app.code # 0 /\ Only(service.rest, {"frame"}) /\ Only(back, {"frame", "eof"})

Ending ==
    /\ ~client.tunnel => client.sent = 0 /\ Frames(up) = {}
    /\ ~Left => /\ client.at = "open" => Of(up, {"eof"}) = {}
                /\ \A i \in Of(up, {"eof"}) : i = Len(up)

\* The device has heard or will hear that the stream is a tunnel.
Switched == client.tunnel \/ Has(down, Status(101))

\* Between requests, and before the service has seen the next ...
Waiting ==
    ~Left /\ service.at = "idle" =>
       /\ \A i \in Of(down, {"end"}) : i = Len(down)
       /\ client.waits = "none" => down = <<>> /\ Of(up, Asks) = {}
       /\ AtMostOne(Of(up, Asks))
       /\ Of(up, Asks) # {} => down = <<>> /\ client.got = <<>>

\* ... and while it handles one.
Handled ==
    ~Left /\ service.at \in Handling =>
       /\ client.waits # "none" /\ Of(up, Asks) = {}
       /\ service.at # "relaying" => down = <<>> /\ client.got = <<>>
       /\ Only(down, {"status", "frame"})

\* A body belongs to a request to rename.
Renaming == \/ service.at = "collecting"
            \/ service.at = "idle" /\ \E i \in 1..Len(up) : up[i].kind = "rename"
Bodies ==
    ~Left /\ service.at # "closed" =>
       /\ Of(up, {"body"}) # {} \/ client.waits = "body" => Renaming
       /\ client.waits = "body" => Of(up, {"body"}) = {}
       /\ AtMostOne(Of(up, {"body"}))

\* Each end of a tunnel has the first frames of the other, and the next are on
\* their way.
Flows ==
    Switched =>
       /\ service.at \in Tunneling \cup {"closed"}
       /\ client.tunnel \/ client.waits # "none"
       /\ Of(down, {"end"}) = {}
       /\ client.got = UpTo(Len(client.got)) /\ Len(client.got) <= app.sent
       /\ app.got = UpTo(Len(app.got)) /\ Len(app.got) <= client.sent
       /\ Partial(down, Len(client.got), app.sent)
       /\ Partial(out, Len(app.got), client.sent)

\* Nothing is lost as long as the tunnel is there ...
Whole ==
    ~Left /\ service.at \in Tunneling =>
       /\ Switched
       /\ Only(up, {"frame", "eof"})
       /\ Carries((down \o service.rest) \o back, Len(client.got), app.sent)
       /\ Carries(out \o up, Len(app.got), client.sent)
       /\ "down" \in service.done => back = <<>> /\ app.conn = "closed"
       /\ "up" \in service.done => up = <<>> /\ client.at = "finished"

\* ... or has ended in both directions.
Ended ==
    ~Left /\ service.at = "closed" /\ service.done = Ways /\ Switched =>
       /\ Carries(down, Len(client.got), app.sent) /\ app.conn = "closed"
       /\ Carries(out, Len(app.got), client.sent) /\ client.at = "finished"

AppInv == Service /\ Plain /\ Upgraded /\ HeadComes /\ HeadCame
DeviceInv == Ending /\ Waiting /\ Handled /\ Bodies
TunnelInv == Flows /\ Whole /\ Ended

----------------------------------------------------------------------------
(* Types                                                                   *)

LEMMA Kinds ==
    /\ \A a \in Asks : Request(a) \in UpPiece
    /\ Body \in UpPiece /\ Eof \in UpPiece
    /\ \A n \in 1..MaxFrames : Frame(n) \in FramePiece
    /\ \A code \in 100..999 : Status(code) \in DownPiece
    /\ End \in DownPiece /\ Eof \in DownPiece
    /\ \A a \in Asks \cap {"plain", "upgrade"} : Request(a) \in OutPiece
    /\ Eof \in OutPiece
    /\ Part \in BackPiece /\ End \in BackPiece /\ Eof \in BackPiece
    /\ \A code \in Codes \cup {200} : Status(code) \in BackPiece
    /\ FramePiece \subseteq UpPiece /\ FramePiece \subseteq DownPiece
    /\ FramePiece \subseteq OutPiece /\ FramePiece \subseteq BackPiece
BY DEF Request, Body, Eof, Frame, Status, End, Part, Piece,
       UpPiece, DownPiece, OutPiece, BackPiece, FramePiece

\* What a device may be passed of what an app says.
LEMMA RelayedTyped ==
    ASSUME NEW p \in BackPiece, p.kind \in {"frame", "end", "eof"}
    PROVE  p \in DownPiece
<1>1. CASE p \in FramePiece
    BY <1>1 DEF DownPiece
<1>2. CASE p \in [kind : {"part", "end", "eof"}, n : {0}]
  <2>1. p = [kind |-> p.kind, n |-> 0]
      BY <1>2
  <2>2. p.kind \in {"end", "eof"}
      BY <1>2
  <2>3. p \in [kind : {"end", "eof"}, n : {0}]
      BY <2>1, <2>2
  <2> QED BY <2>3 DEF DownPiece
<1>3. p.kind # "status"
    OBVIOUS
<1> QED BY <1>1, <1>2, <1>3 DEF BackPiece

LEMMA Wires ==
    /\ UpPiece \subseteq Pieces /\ DownPiece \subseteq Pieces
    /\ OutPiece \subseteq Pieces /\ BackPiece \subseteq Pieces
    /\ \A w \in Seq(UpPiece) : w \in Seq(Pieces)
    /\ \A w \in Seq(DownPiece) : w \in Seq(Pieces)
    /\ \A w \in Seq(OutPiece) : w \in Seq(Pieces)
    /\ \A w \in Seq(BackPiece) : w \in Seq(Pieces)
<1>1. 1..MaxFrames \subseteq Nat /\ 100..999 \subseteq Nat /\ Codes \cup {200} \subseteq Nat
    BY NumberAssumption, CodesAssumption
<1>2. /\ UpPiece \subseteq Pieces /\ DownPiece \subseteq Pieces
      /\ OutPiece \subseteq Pieces /\ BackPiece \subseteq Pieces
    BY <1>1 DEF Pieces, UpPiece, DownPiece, OutPiece, BackPiece, FramePiece
<1> QED BY <1>2, SeqMonotonic

\* The wires with one piece more.
LEMMA Grown ==
    /\ \A w \in Seq(UpPiece), p \in UpPiece : Append(w, p) \in Seq(UpPiece)
    /\ \A w \in Seq(DownPiece), p \in DownPiece : Append(w, p) \in Seq(DownPiece)
    /\ \A w \in Seq(OutPiece), p \in OutPiece : Append(w, p) \in Seq(OutPiece)
    /\ \A w \in Seq(BackPiece), p \in BackPiece : Append(w, p) \in Seq(BackPiece)
<1>1. \A S : \A w \in Seq(S), p \in S : Append(w, p) \in Seq(S)
    BY AppendProperties
<1> QED BY <1>1

\* An app with one field changed.
LEMMA AppChanges ==
    ASSUME NEW a \in AppState
    PROVE  /\ \A x \in {"open", "closed"} : [a EXCEPT !.conn = x] \in AppState
           /\ \A x \in (Asks \cap {"plain", "upgrade"}) \cup {"none"} :
                 [a EXCEPT !.ask = x] \in AppState
           /\ \A x \in 0..MaxParts : [a EXCEPT !.parts = x] \in AppState
           /\ \A x \in Codes \cup {0, 200, 999} : [a EXCEPT !.code = x] \in AppState
           /\ \A x \in 0..MaxFrames : [a EXCEPT !.sent = x] \in AppState
           /\ \A x \in Seq(1..MaxFrames) : [a EXCEPT !.got = x] \in AppState
           /\ \A x \in BOOLEAN : [a EXCEPT !.told = x] \in AppState
BY DEF AppState

LEMMA DeviceTyped ==
    ASSUME Typed, Device
    PROVE  Typed'
<1> USE DEF stream, upstream, ClientState
<1>0. /\ client \in ClientState
      /\ up \in Seq(UpPiece) /\ down \in Seq(DownPiece)
    BY DEF Typed
<1>1. UNCHANGED <<service, app, out, back>>
    BY DEF Device, Ask, SendBody, SendFrame, Finish, Leave, Hear
<1>2. client' \in ClientState
  <2>1. ASSUME NEW a \in Asks, Ask(a)
        PROVE  client' \in ClientState
    <3>1. client.asks + 1 \in 0..MaxAsks
        BY <1>0, <2>1, NumberAssumption DEF Ask
    <3>2. <<>> \in Seq(1..MaxFrames)
        BY EmptySeq
    <3> QED BY <1>0, <2>1, <3>1, <3>2 DEF Ask
  <2>2. CASE SendBody \/ Finish \/ Leave
      BY <1>0, <2>2 DEF SendBody, Finish, Leave
  <2>3. CASE SendFrame
    <3>1. client.sent + 1 \in 0..MaxFrames
        BY <1>0, <2>3, NumberAssumption DEF SendFrame
    <3> QED BY <1>0, <2>3, <3>1 DEF SendFrame
  <2>4. CASE Hear
    <3>1. down # <<>> /\ Head(down) \in DownPiece
        BY <1>0, <2>4, HeadTailProperties DEF Hear
    <3>2. Head(down).kind = "frame" => Head(down).n \in 1..MaxFrames
        BY <3>1 DEF DownPiece, FramePiece
    <3>3. Head(down).kind = "frame" => Append(client.got, Head(down).n) \in Seq(1..MaxFrames)
        BY <1>0, <3>2, AppendProperties
    <3> QED BY <1>0, <2>4, <3>3 DEF Hear
  <2> QED BY <2>1, <2>2, <2>3, <2>4 DEF Device
<1>3. up' \in Seq(UpPiece)
  <2>0. up \in Seq(UpPiece)
      BY DEF Typed
  <2>1. ASSUME NEW a \in Asks, Ask(a)
        PROVE  up' \in Seq(UpPiece)
    <3>1. Request(a) \in UpPiece
        BY Kinds
    <3> QED BY <2>0, <2>1, <3>1, Grown DEF Ask
  <2>2. CASE SendBody
    <3>1. Body \in UpPiece
        BY Kinds
    <3> QED BY <2>0, <2>2, <3>1, Grown DEF SendBody
  <2>3. CASE SendFrame
    <3>1. client.sent + 1 \in 1..MaxFrames
        BY <1>0, <2>3, NumberAssumption DEF SendFrame
    <3>2. Frame(client.sent + 1) \in UpPiece
        BY <3>1, Kinds
    <3> QED BY <2>0, <2>3, <3>2, Grown DEF SendFrame
  <2>4. CASE Finish
    <3>1. Eof \in UpPiece
        BY Kinds
    <3> QED BY <2>0, <2>4, <3>1, Grown DEF Finish
  <2>5. CASE Leave \/ Hear
      BY <2>0, <2>5, EmptySeq DEF Leave, Hear
  <2> QED BY <2>1, <2>2, <2>3, <2>4, <2>5 DEF Device
<1>4. down' \in Seq(DownPiece)
  <2>0. down \in Seq(DownPiece) /\ <<>> \in Seq(DownPiece)
      BY EmptySeq DEF Typed
  <2>1. down # <<>> => Tail(down) \in Seq(DownPiece)
      BY <2>0, HeadTailProperties
  <2> QED BY <2>0, <2>1 DEF Device, Ask, SendBody, SendFrame, Finish, Leave, Hear
<1> QED BY <1>1, <1>2, <1>3, <1>4 DEF Typed

LEMMA AppTyped ==
    ASSUME Typed, App
    PROVE  Typed'
<1> USE DEF stream, upstream
<1>0. app \in AppState
    BY DEF Typed
<1>1. out \in Seq(OutPiece) /\ back \in Seq(BackPiece)
    BY DEF Typed
<1>2. UNCHANGED <<client, service, up, down>>
    BY DEF App, AppReads, AppBegins, AppAnswers, AppSends, AppEnds, AppCloses
<1>3. app' \in AppState /\ out' \in Seq(OutPiece) /\ back' \in Seq(BackPiece)
  <2>1. CASE AppReads
    <3>1. Head(out) \in OutPiece /\ Tail(out) \in Seq(OutPiece)
        BY <1>1, <2>1, HeadTailProperties DEF AppReads
    <3>2. /\ Head(out).kind = "frame" => Head(out).n \in 1..MaxFrames
          /\ Head(out).kind \notin {"frame", "eof"} => Head(out).kind \in Asks \cap {"plain", "upgrade"}
        BY <3>1 DEF OutPiece, FramePiece
    <3>3. /\ app.got \in Seq(1..MaxFrames)
          /\ app.ask \in (Asks \cap {"plain", "upgrade"}) \cup {"none"}
          /\ Head(out).kind = "frame" => Append(app.got, Head(out).n) \in Seq(1..MaxFrames)
        BY <1>0, <3>2, AppendProperties DEF AppState
    <3>4. out' = Tail(out) /\ back' = back
        BY <2>1 DEF AppReads
    <3> DEFINE told == app.told \/ Head(out) = Eof
               got == IF Head(out).kind = "frame" THEN Append(app.got, Head(out).n) ELSE app.got
               ask == IF Head(out).kind \in {"frame", "eof"} THEN app.ask ELSE Head(out).kind
    <3>5. app' = [app EXCEPT !.told = told, !.got = got, !.ask = ask]
        BY <2>1 DEF AppReads
    <3>6. /\ told \in BOOLEAN /\ got \in Seq(1..MaxFrames)
          /\ ask \in (Asks \cap {"plain", "upgrade"}) \cup {"none"}
        BY <3>2, <3>3
    <3> HIDE DEF told, got, ask
    <3>7. app' = [[[app EXCEPT !.told = told] EXCEPT !.got = got] EXCEPT !.ask = ask]
        BY <1>0, <3>5
    <3>8. app' \in AppState
      <4>1. [app EXCEPT !.told = told] \in AppState
          BY <1>0, <3>6, AppChanges, ZenonT(30)
      <4>2. [[app EXCEPT !.told = told] EXCEPT !.got = got] \in AppState
          BY <3>6, <4>1, AppChanges
      <4> QED BY <3>6, <3>7, <4>2, AppChanges
    <3> QED BY <1>1, <3>1, <3>4, <3>8
  <2>2. CASE AppBegins
    <3>1. Append(back, Part) \in Seq(BackPiece)
        BY <1>1, Kinds, Grown
    <3>2. app.parts + 1 \in 0..MaxParts
        BY <1>0, <2>2, NumberAssumption DEF AppBegins, AppState
    <3>3. app' \in AppState
        BY <1>0, <2>2, <3>2, AppChanges DEF AppBegins
    <3> QED BY <1>1, <2>2, <3>1, <3>3 DEF AppBegins
  <2>3. CASE AppAnswers
    <3>1. PICK code \in IF app.ask = "upgrade" THEN Codes ELSE {200} :
             /\ app' = [app EXCEPT !.code = IF code = 0 THEN 999 ELSE code]
             /\ back' = Append(back, Status(code))
        BY <2>3 DEF AppAnswers
    <3>2. code \in Codes \cup {200}
        OBVIOUS
    <3>3. Status(code) \in BackPiece
        BY <3>2, Kinds
    <3>4. Append(back, Status(code)) \in Seq(BackPiece)
        BY <1>1, <3>3, Grown
    <3> DEFINE x == IF code = 0 THEN 999 ELSE code
    <3>5. app' = [app EXCEPT !.code = x]
        BY <3>1
    <3>6. x \in Codes \cup {0, 200, 999}
        BY <3>2
    <3> HIDE DEF x
    <3>7. [app EXCEPT !.code = x] \in AppState
        BY <1>0, <3>6 DEF AppState
    <3>8. app' \in AppState
        BY <3>5, <3>7
    <3> QED BY <1>1, <2>3, <3>1, <3>4, <3>8 DEF AppAnswers
  <2>4. CASE AppSends
    <3>1. app.sent + 1 \in 1..MaxFrames
        BY <1>0, <2>4, NumberAssumption DEF AppSends, AppState
    <3>2. Frame(app.sent + 1) \in BackPiece
        BY <3>1, Kinds
    <3>3. Append(back, Frame(app.sent + 1)) \in Seq(BackPiece)
        BY <1>1, <3>2, Grown
    <3>4. app.sent + 1 \in 0..MaxFrames
        BY <3>1
    <3>5. app' \in AppState
      <4>1. app' = [app EXCEPT !.sent = app.sent + 1]
          BY <2>4 DEF AppSends
      <4>2. [app EXCEPT !.sent = app.sent + 1] \in AppState
          BY <1>0, <3>4 DEF AppState
      <4> QED BY <4>1, <4>2
    <3>6. out' = out /\ back' = Append(back, Frame(app.sent + 1))
        BY <2>4 DEF AppSends
    <3> QED BY <1>1, <3>3, <3>5, <3>6
  <2>5. CASE AppEnds \/ AppCloses
    <3>1. Append(back, End) \in Seq(BackPiece) /\ Append(back, Eof) \in Seq(BackPiece)
        BY <1>1, Kinds, Grown
    <3>2. app' \in AppState
        BY <1>0, <2>5, AppChanges, ZenonT(30) DEF AppEnds, AppCloses
    <3> QED BY <1>1, <2>5, <3>1, <3>2 DEF AppEnds, AppCloses
  <2> QED BY <2>1, <2>2, <2>3, <2>4, <2>5 DEF App
<1> QED BY <1>2, <1>3 DEF Typed

LEMMA Pairs ==
    ASSUME NEW S, NEW w \in Seq(S), NEW p \in S, NEW q \in S
    PROVE  w \o <<p, q>> = Append(Append(w, p), q)
<1>1. <<p>> \in Seq(S) /\ <<q>> \in Seq(S) /\ <<p>> \o <<q>> = <<p, q>>
  <2>1. <<p>> \in Seq(S) /\ <<q>> \in Seq(S) /\ <<p, q>> \in Seq(S)
      OBVIOUS
  <2>2. Len(<<p>>) = 1 /\ Len(<<p, q>>) = 2 /\ <<p>>[1] = p /\ <<p, q>>[1] = p /\ <<p, q>>[2] = q
      OBVIOUS
  <2>3. /\ Append(<<p>>, q) \in Seq(S) /\ Len(Append(<<p>>, q)) = Len(<<p>>) + 1
        /\ \A i \in 1..Len(<<p>>) : Append(<<p>>, q)[i] = <<p>>[i]
        /\ Append(<<p>>, q)[Len(<<p>>) + 1] = q
      BY <2>1, AppendProperties
  <2>4. Append(<<p>>, q)[1] = p /\ Append(<<p>>, q)[2] = q /\ Len(Append(<<p>>, q)) = 2
      BY <2>2, <2>3
  <2>5. \A i \in 1..2 : Append(<<p>>, q)[i] = <<p, q>>[i]
      BY <2>2, <2>4
  <2>6. Append(<<p>>, q) = <<p, q>>
      BY <2>1, <2>2, <2>3, <2>4, <2>5, SeqEqual
  <2>7. Append(<<p>>, q) = <<p>> \o <<q>>
      BY <2>1, AppendIsConcat
  <2> QED BY <2>1, <2>6, <2>7
<1>2. Append(w, p) = w \o <<p>> /\ Append(w, p) \in Seq(S)
    BY AppendIsConcat, AppendProperties
<1>3. Append(Append(w, p), q) = (w \o <<p>>) \o <<q>>
    BY <1>2, AppendIsConcat
<1>4. (w \o <<p>>) \o <<q>> = w \o (<<p>> \o <<q>>)
    BY <1>1, ConcatAssociative
<1> QED BY <1>1, <1>3, <1>4

\* A service that goes elsewhere.
LEMMA ServiceChanges ==
    ASSUME NEW s \in ServiceState
    PROVE  /\ \A x \in Handling \cup Tunneling \cup {"idle", "closed"} :
                 [s EXCEPT !.at = x] \in ServiceState
           /\ \A x \in 0..ProxyTimeout + 1 : [s EXCEPT !.waited = x] \in ServiceState
           /\ \A x \in Seq(BackPiece) : [s EXCEPT !.rest = x] \in ServiceState
           /\ \A x \in SUBSET Ways : [s EXCEPT !.done = x] \in ServiceState
           /\ s.done \in SUBSET Ways /\ s.rest \in Seq(BackPiece) /\ s.waited \in 0..ProxyTimeout + 1
<1>1. \A x \in Handling \cup Tunneling \cup {"idle", "closed"} :
         [s EXCEPT !.at = x] \in ServiceState
    BY DEF ServiceState
<1>2. \A x \in 0..ProxyTimeout + 1 : [s EXCEPT !.waited = x] \in ServiceState
    BY DEF ServiceState
<1>3. \A x \in Seq(BackPiece) : [s EXCEPT !.rest = x] \in ServiceState
    BY DEF ServiceState
<1>4. \A x \in SUBSET Ways : [s EXCEPT !.done = x] \in ServiceState
    BY DEF ServiceState
<1>5. s.done \in SUBSET Ways /\ s.rest \in Seq(BackPiece) /\ s.waited \in 0..ProxyTimeout + 1
    BY DEF ServiceState
<1> QED BY <1>1, <1>2, <1>3, <1>4, <1>5

\* A response leaves the stream between requests or closed, and it ends what
\* the device hears.
LEMMA Answered ==
    ASSUME Typed, NEW code \in 100..999, Answers(code)
    PROVE  /\ service' \in ServiceState /\ down' \in Seq(DownPiece)
           /\ service'.at = IF Left THEN "closed" ELSE "idle"
           /\ service'.rest = <<>> /\ service'.done = service.done
           /\ down' = IF Left THEN down ELSE Append(Append(down, Status(code)), End)
<1>1. service \in ServiceState /\ down \in Seq(DownPiece) /\ <<>> \in Seq(BackPiece)
    BY EmptySeq DEF Typed
<1>2. Status(code) \in DownPiece /\ End \in DownPiece
    BY Kinds
<1>3. down \o <<Status(code), End>> = Append(Append(down, Status(code)), End)
    BY <1>1, <1>2, Pairs
<1>4. Append(Append(down, Status(code)), End) \in Seq(DownPiece)
    BY <1>1, <1>2, Grown
<1> DEFINE x == IF Left THEN "closed" ELSE "idle"
<1>5. service' = [[service EXCEPT !.at = x] EXCEPT !.rest = <<>>]
    BY DEF Answers
<1>6. x \in {"idle", "closed"}
    OBVIOUS
<1>7. x = IF Left THEN "closed" ELSE "idle"
    OBVIOUS
<1> HIDE DEF x
<1>8. service' \in ServiceState /\ service'.at = x /\ service'.rest = <<>> /\ service'.done = service.done
    BY <1>1, <1>5, <1>6 DEF ServiceState
<1> QED BY <1>1, <1>3, <1>4, <1>7, <1>8 DEF Answers

LEMMA Closed ==
    ASSUME Typed, Closes
    PROVE  /\ service' \in ServiceState /\ down' \in Seq(DownPiece)
           /\ service'.at = "closed" /\ service'.rest = <<>> /\ service'.done = service.done
           /\ down' = IF Left THEN down ELSE Append(down, Eof)
<1>1. service \in ServiceState /\ down \in Seq(DownPiece) /\ <<>> \in Seq(BackPiece)
    BY EmptySeq DEF Typed
<1>2. Append(down, Eof) \in Seq(DownPiece)
    BY <1>1, Kinds, Grown
<1>3. service' \in ServiceState /\ service'.at = "closed" /\ service'.rest = <<>>
      /\ service'.done = service.done
    BY <1>1 DEF Closes, ServiceState
<1> QED BY <1>1, <1>2, <1>3 DEF Closes

LEMMA Dropped ==
    ASSUME Typed, Drops
    PROVE  /\ out' \in Seq(OutPiece) /\ back' \in Seq(BackPiece) /\ app' = app
           /\ out' = Append(out, Eof) \/ out' = out
<1>1. out \in Seq(OutPiece) /\ <<>> \in Seq(BackPiece)
    BY EmptySeq DEF Typed
<1>2. Append(out, Eof) \in Seq(OutPiece)
    BY <1>1, Kinds, Grown
<1> QED BY <1>1, <1>2 DEF Drops

LEMMA ServeTyped ==
    ASSUME Typed, Serve
    PROVE  Typed'
<1> USE DEF stream, upstream
<1>0. /\ service \in ServiceState /\ app \in AppState /\ client \in ClientState
      /\ up \in Seq(UpPiece) /\ down \in Seq(DownPiece)
      /\ out \in Seq(OutPiece) /\ back \in Seq(BackPiece)
      /\ <<>> \in Seq(OutPiece) /\ <<>> \in Seq(BackPiece)
    BY EmptySeq DEF Typed
<1>1. up # <<>> => Tail(up) \in Seq(UpPiece)
    BY <1>0, HeadTailProperties
<1>2. CASE AnswerHub \/ AnswerUnknownApp \/ Rename
  <2>1. PICK code \in 100..999 : Answers(code)
      BY <1>2 DEF AnswerHub, AnswerUnknownApp, Rename, HubCodes
  <2>2. service' \in ServiceState /\ down' \in Seq(DownPiece)
      BY <2>1, Answered
  <2>3. UNCHANGED <<client, app, out, back>> /\ up' = Tail(up) /\ up # <<>>
      BY <1>2 DEF AnswerHub, AnswerUnknownApp, Rename, Takes, Comes
  <2> QED BY <1>0, <1>1, <2>2, <2>3 DEF Typed
<1>3. CASE BeginRename
  <2>1. service' \in ServiceState
      BY <1>0, <1>3, ServiceChanges DEF BeginRename, Goes, Handling
  <2> QED BY <1>0, <1>1, <1>3, <2>1 DEF BeginRename, Takes, Comes, Typed
<1>4. CASE RefuseRename
  <2>1. service' \in ServiceState
      BY <1>0, <1>4, ServiceChanges DEF RefuseRename
  <2>2. Status(400) \in DownPiece /\ End \in DownPiece /\ Eof \in DownPiece
      BY Kinds
  <2>3. <<Status(400), End, Eof>> \in Seq(DownPiece)
      BY <2>2
  <2>4. down \o <<Status(400), End, Eof>> \in Seq(DownPiece)
      BY <1>0, <2>3, ConcatProperties
  <2> QED BY <1>0, <1>1, <1>4, <2>1, <2>4 DEF RefuseRename, Comes, Typed
<1>5. CASE BeginPlain \/ BeginUpgrade
  <2>1. app' = [NoApp EXCEPT !.mute = app.mute] /\ app.mute \in BOOLEAN
      BY <1>0, <1>5 DEF BeginPlain, BeginUpgrade, AppState
  <2>2. <<>> \in Seq(1..MaxFrames) /\ 0 \in 0..MaxFrames /\ 0 \in 0..MaxParts
      BY EmptySeq, NumberAssumption
  <2>3. app' \in AppState
    <3>1. app' = [conn |-> "none", ask |-> "none", parts |-> 0, code |-> 0, sent |-> 0,
                  got |-> <<>>, told |-> FALSE, mute |-> app.mute]
        BY <2>1 DEF NoApp
    <3>2. app.mute \in BOOLEAN /\ FALSE \in BOOLEAN /\ "none" \in {"none", "open", "closed"}
          /\ "none" \in (Asks \cap {"plain", "upgrade"}) \cup {"none"}
          /\ 0 \in Codes \cup {0, 200, 999}
        BY <2>1
    <3> QED BY <2>2, <3>1, <3>2, ZenonT(30) DEF AppState
  <2>4. PICK x \in {"requesting", "connecting"} :
           service' = [[service EXCEPT !.at = x] EXCEPT !.waited = 0]
      BY <1>5 DEF BeginPlain, BeginUpgrade
  <2>5. 0 \in 0..ProxyTimeout + 1 /\ x \in Handling
      BY NumberAssumption DEF Handling, Upgrading
  <2>6. service' \in ServiceState
      BY <1>0, <2>4, <2>5 DEF ServiceState
  <2> QED BY <1>0, <1>1, <1>5, <2>3, <2>6 DEF BeginPlain, BeginUpgrade, Takes, Comes, Typed
<1>6. CASE EndRequests
    BY <1>0, <1>1, <1>6, Closed DEF EndRequests, Comes, Typed
<1>7. CASE LoseClient
    BY <1>0, <1>7, Closed, Dropped DEF LoseClient, Typed
<1> QED BY <1>2, <1>3, <1>4, <1>5, <1>6, <1>7 DEF Serve

LEMMA ProxyTyped ==
    ASSUME Typed, Plain, Proxy
    PROVE  Typed'
<1> USE DEF stream, upstream
<1>0. /\ service \in ServiceState /\ app \in AppState /\ client \in ClientState
      /\ up \in Seq(UpPiece) /\ down \in Seq(DownPiece)
      /\ out \in Seq(OutPiece) /\ back \in Seq(BackPiece)
    BY DEF Typed
<1>1. back # <<>> => /\ Tail(back) \in Seq(BackPiece) /\ Head(back) \in BackPiece
                     /\ Head(back) = back[1] /\ 1 \in 1..Len(back)
    BY <1>0, HeadTailProperties, EmptySeq
<1>2. CASE ReachApp
  <2>1. "plain" \in Asks
      BY <1>2 DEF ReachApp, Plain
  <2>2. Request("plain") \in OutPiece
      BY <2>1, Kinds
  <2>3. <<Request("plain")>> \in Seq(OutPiece)
      BY <2>2
  <2>4. app' \in AppState
      BY <1>0, <1>2, AppChanges DEF ReachApp
  <2> QED BY <1>0, <1>2, <2>3, <2>4 DEF ReachApp, Typed
<1>3. CASE CannotReach \/ TimeOut
  <2>1. \E code \in 100..999 : Answers(code)
      BY <1>3 DEF CannotReach, TimeOut
  <2>2. service' \in ServiceState /\ down' \in Seq(DownPiece)
      BY <2>1, Answered, ZenonT(30)
  <2>3. Drops /\ UNCHANGED <<client, up>>
      BY <1>3 DEF CannotReach, TimeOut
  <2> QED BY <1>0, <2>2, <2>3, Dropped DEF Typed
<1>4. CASE RelayHead
  <2>1. CASE Left
      BY <1>0, <1>4, <2>1, Closed, Dropped DEF RelayHead, Typed
  <2>2. CASE ~Left
    <3>1. back # <<>> /\ Head(back).kind = "status" /\ service.at = "requesting"
        BY <1>4 DEF RelayHead, Comes
    <3>2. Head(back) \in BackPiece /\ Head(back).n = 200
        BY <1>1, <3>1 DEF Plain
    <3>3. Head(back) \in [kind : {"status"}, n : 100..999]
        BY <3>1, <3>2 DEF BackPiece, FramePiece
    <3>4. Head(back) \in DownPiece
        BY <3>3 DEF DownPiece
    <3>5. Append(down, Head(back)) \in Seq(DownPiece)
        BY <1>0, <3>4, Grown
    <3>6. service' \in ServiceState
        BY <1>0, <1>4, <2>2, ServiceChanges DEF RelayHead, Goes, Handling
    <3> QED BY <1>0, <1>1, <1>4, <2>2, <3>1, <3>5, <3>6 DEF RelayHead, Typed
  <2> QED BY <2>1, <2>2
<1>5. CASE RelayBody
  <2>1. back # <<>> /\ Head(back).kind \in {"frame", "end"}
      BY <1>5 DEF RelayBody, Comes
  <2>2. Head(back) \in DownPiece
      BY <1>1, <2>1, RelayedTyped
  <2>3. Append(down, Head(back)) \in Seq(DownPiece)
      BY <1>0, <2>2, Grown
  <2>4. PICK x \in {"idle", "relaying"} : service' = [service EXCEPT !.at = x]
      BY <1>5 DEF RelayBody, Goes
  <2>5. service' \in ServiceState
      BY <1>0, <2>4, ServiceChanges DEF Handling
  <2> QED BY <1>0, <1>1, <1>5, <2>1, <2>3, <2>5 DEF RelayBody, Typed
<1>6. CASE BreakBody
    BY <1>0, <1>6, Closed, Dropped DEF BreakBody, Typed
<1> QED BY <1>2, <1>3, <1>4, <1>5, <1>6 DEF Proxy

LEMMA Cuts ==
    ASSUME NEW S, NEW w \in Seq(S), NEW k \in 0..Len(w)
    PROVE  /\ SubSeq(w, 1, k) \in Seq(S) /\ Len(SubSeq(w, 1, k)) = k
           /\ \A i \in 1..k : SubSeq(w, 1, k)[i] = w[i]
           /\ SubSeq(w, k + 1, Len(w)) \in Seq(S) /\ Len(SubSeq(w, k + 1, Len(w))) = Len(w) - k
           /\ \A i \in 1..Len(w) - k : SubSeq(w, k + 1, Len(w))[i] = w[k + i]
<1>1. Len(w) \in Nat /\ k \in Nat /\ k <= Len(w) /\ \A i \in 1..Len(w) : w[i] \in S
    BY LenProperties, ElementOfSeq
<1>2. \A i \in 1..k : w[i] \in S
    BY <1>1
<1>3. \A i \in k + 1..Len(w) : w[i] \in S
    BY <1>1
<1>4. /\ SubSeq(w, 1, k) \in Seq(S) /\ Len(SubSeq(w, 1, k)) = IF 1 <= k THEN k - 1 + 1 ELSE 0
      /\ \A i \in 1..k - 1 + 1 : SubSeq(w, 1, k)[i] = w[1 + i - 1]
    BY <1>1, <1>2, SubSeqProperties
<1>5. /\ SubSeq(w, k + 1, Len(w)) \in Seq(S)
      /\ Len(SubSeq(w, k + 1, Len(w)))
           = IF k + 1 <= Len(w) THEN Len(w) - (k + 1) + 1 ELSE 0
      /\ \A i \in 1..Len(w) - (k + 1) + 1 : SubSeq(w, k + 1, Len(w))[i] = w[k + 1 + i - 1]
    BY <1>1, <1>3, SubSeqProperties
<1>6. k - 1 + 1 = k /\ \A i \in 1..k : 1 + i - 1 = i
    BY <1>1
<1>7. Len(w) - (k + 1) + 1 = Len(w) - k /\ \A i \in 1..Len(w) - k : k + 1 + i - 1 = k + i
    BY <1>1
<1>8. /\ SubSeq(w, 1, k) \in Seq(S) /\ Len(SubSeq(w, 1, k)) = k
      /\ \A i \in 1..k : SubSeq(w, 1, k)[i] = w[i]
    BY <1>1, <1>4, <1>6
<1>9. /\ SubSeq(w, k + 1, Len(w)) \in Seq(S) /\ Len(SubSeq(w, k + 1, Len(w))) = Len(w) - k
      /\ \A i \in 1..Len(w) - k : SubSeq(w, k + 1, Len(w))[i] = w[k + i]
    BY <1>1, <1>5, <1>7
<1> QED BY <1>8, <1>9

\* A read takes the first k pieces.
LEMMA ReadTakes ==
    ASSUME Typed, NEW buf, Reads(buf)
    PROVE  \E k \in 1..Len(back) :
              /\ \A i \in 1..k : back[i] # Eof
              /\ buf \in Seq(BackPiece) /\ Len(buf) = Len(service.rest) + k
              /\ \A i \in 1..Len(buf) : buf[i] = IF i <= Len(service.rest) THEN service.rest[i]
                                                 ELSE back[i - Len(service.rest)]
              /\ back' = SubSeq(back, k + 1, Len(back))
              /\ back' \in Seq(BackPiece) /\ Len(back') = Len(back) - k
              /\ \A i \in 1..Len(back') : back'[i] = back[k + i]
<1>1. /\ service.rest \in Seq(BackPiece) /\ back \in Seq(BackPiece)
      /\ Len(back) \in Nat /\ Len(service.rest) \in Nat
    BY LenProperties DEF Typed, ServiceState
<1>2. PICK k \in 1..Len(back) :
         /\ \A i \in 1..k : back[i] # Eof
         /\ buf = service.rest \o SubSeq(back, 1, k)
         /\ back' = SubSeq(back, k + 1, Len(back))
    BY DEF Reads
<1> DEFINE s == SubSeq(back, 1, k)
<1>3. k \in 0..Len(back)
    BY <1>1
<1>4. /\ s \in Seq(BackPiece) /\ Len(s) = k /\ \A i \in 1..k : s[i] = back[i]
      /\ back' \in Seq(BackPiece) /\ Len(back') = Len(back) - k
      /\ \A i \in 1..Len(back) - k : back'[i] = back[k + i]
    BY <1>1, <1>2, <1>3, Cuts
<1>5. buf = service.rest \o s
    BY <1>2
<1> HIDE DEF s
<1>6. /\ buf \in Seq(BackPiece) /\ Len(buf) = Len(service.rest) + k
      /\ \A i \in 1..Len(service.rest) + Len(s) :
            buf[i] = IF i <= Len(service.rest) THEN service.rest[i] ELSE s[i - Len(service.rest)]
  <2>1. \A u, v \in Seq(BackPiece) :
           /\ u \o v \in Seq(BackPiece) /\ Len(u \o v) = Len(u) + Len(v)
           /\ \A i \in 1..Len(u) + Len(v) : (u \o v)[i] = IF i <= Len(u) THEN u[i] ELSE v[i - Len(u)]
      BY ConcatProperties
  <2>2. service.rest \in Seq(BackPiece) /\ s \in Seq(BackPiece) /\ Len(s) = k
      BY <1>1, <1>4
  <2> QED BY ONLY <1>5, <2>1, <2>2
<1>7. ASSUME NEW i \in 1..Len(buf)
      PROVE  buf[i] = IF i <= Len(service.rest) THEN service.rest[i]
                      ELSE back[i - Len(service.rest)]
  <2>1. i \in 1..Len(service.rest) + Len(s)
      BY <1>4, <1>6
  <2>2. i > Len(service.rest) => i - Len(service.rest) \in 1..k
      BY <1>1, <1>3, <1>4, <2>1
  <2> QED BY <1>1, <1>4, <1>6, <2>1, <2>2
<1> QED BY <1>2, <1>4, <1>6, <1>7

\* Where the status of the app's head is, of those that were read the first.
LEMMA HeadEnds ==
    ASSUME NEW S, NEW buf \in Seq(S)
    PROVE  IF Of(buf, {"status"}) = {} THEN HeadEnd(buf) = 0
           ELSE HeadEnd(buf) \in Of(buf, {"status"}) /\ HeadEnd(buf) \in 1..Len(buf)
<1> DEFINE I == {i \in 1..Len(buf) : buf[i].kind = "status"}
<1>1. HeadEnd(buf) = IF I # {} THEN CHOOSE x \in I : \A y \in I : x <= y ELSE 0
    BY DEF HeadEnd, SelectInSeq, Min
<1>2. I = Of(buf, {"status"}) /\ I \in SUBSET Nat /\ I \subseteq 1..Len(buf)
    BY LenProperties DEF Of
<1> HIDE DEF I
<1>3. CASE I = {}
    BY <1>1, <1>2, <1>3
<1>4. CASE I # {}
  <2>1. \E x \in I : \A y \in I : x <= y
      BY <1>2, <1>4, LeastExists
  <2>2. HeadEnd(buf) \in I
      BY <1>1, <1>4, <2>1
  <2> QED BY <1>2, <1>4, <2>2
<1> QED BY <1>3, <1>4

LEMMA UpgradeTyped ==
    ASSUME Typed, Upgraded, Upgrade
    PROVE  Typed'
<1> USE DEF stream, upstream
<1>0. /\ service \in ServiceState /\ app \in AppState /\ client \in ClientState
      /\ up \in Seq(UpPiece) /\ down \in Seq(DownPiece)
      /\ out \in Seq(OutPiece) /\ back \in Seq(BackPiece)
    BY DEF Typed
<1>1. CASE ConnectUpgrade
  <2>1. CASE Closes /\ Drops
      BY <1>0, <1>1, <2>1, Closed, Dropped DEF ConnectUpgrade, Typed
  <2>2. CASE Goes("asking") /\ app' = [app EXCEPT !.conn = "open"] /\ UNCHANGED <<down, upstream>>
    <3>1. service' \in ServiceState /\ app' \in AppState
        BY <1>0, <2>2, ServiceChanges, AppChanges, ZenonT(30) DEF Goes, Handling, Upgrading
    <3> QED BY <1>0, <1>1, <2>2, <3>1 DEF ConnectUpgrade, Typed
  <2> QED BY <1>1, <2>1, <2>2 DEF ConnectUpgrade
<1>2. CASE AskUpgrade
  <2>1. CASE Closes /\ Drops
      BY <1>0, <1>2, <2>1, Closed, Dropped DEF AskUpgrade, Typed
  <2>2. CASE Goes("reading") /\ out' = Append(out, Request("upgrade")) /\ UNCHANGED <<app, down, back>>
    <3>1. "upgrade" \in Asks
        BY <1>2 DEF AskUpgrade, Upgraded, Upgrading
    <3>2. Request("upgrade") \in OutPiece
        BY <3>1, Kinds
    <3>3. out' \in Seq(OutPiece)
        BY <1>0, <2>2, <3>2, Grown
    <3>4. service' \in ServiceState
        BY <1>0, <2>2, ServiceChanges DEF Goes, Handling, Upgrading
    <3> QED BY <1>0, <1>2, <2>2, <3>3, <3>4 DEF AskUpgrade, Typed
  <2> QED BY <1>2, <2>1, <2>2 DEF AskUpgrade
<1>3. CASE ReadMore
  <2>1. PICK buf \in Bufs : Reads(buf) /\ service' = [service EXCEPT !.rest = buf]
      BY <1>3 DEF ReadMore
  <2>2. buf \in Seq(BackPiece) /\ back' \in Seq(BackPiece)
      BY <2>1, ReadTakes
  <2>3. service' \in ServiceState
      BY <1>0, <2>1, <2>2, ServiceChanges
  <2> QED BY <1>0, <1>3, <2>2, <2>3 DEF ReadMore, Typed
<1>4. CASE RefuseOversized \/ RefuseClosed \/ RefuseUpgrade \/ SwitchTooLate
  <2>1. (\E code \in 100..999 : Answers(code)) \/ Closes
    <3>1. \A n : StatusOf(n) \in 100..999
        BY DEF StatusOf
    <3>2. CASE RefuseOversized
        BY <3>2 DEF RefuseOversized
    <3>3. CASE RefuseClosed
        BY <3>3 DEF RefuseClosed
    <3>4. CASE RefuseUpgrade
        BY <3>1, <3>4, ZenonT(30) DEF RefuseUpgrade
    <3>5. CASE SwitchTooLate
        BY <3>5 DEF SwitchTooLate
    <3> QED BY <1>4, <3>2, <3>3, <3>4, <3>5
  <2>2. service' \in ServiceState /\ down' \in Seq(DownPiece)
      BY <2>1, Answered, Closed, ZenonT(30)
  <2>3. Drops /\ UNCHANGED <<client, up>>
      BY <1>4 DEF RefuseOversized, RefuseClosed, RefuseUpgrade, SwitchTooLate
  <2> QED BY <1>0, <2>2, <2>3, Dropped DEF Typed
<1>5. CASE SwitchProtocols
  <2>1. PICK buf \in Bufs :
           /\ Reads(buf) /\ HeadEnd(buf) # 0 /\ StatusOf(buf[HeadEnd(buf)].n) = 101
           /\ service' = [service EXCEPT !.at = "handover",
                                         !.rest = SubSeq(buf, HeadEnd(buf) + 1, Len(buf))]
      BY <1>5 DEF SwitchProtocols
  <2>2. buf \in Seq(BackPiece) /\ back' \in Seq(BackPiece)
      BY <2>1, ReadTakes
  <2>3. HeadEnd(buf) \in Nat
      BY <2>1, <2>2, HeadEnds
  <2>4. SubSeq(buf, HeadEnd(buf) + 1, Len(buf)) \in Seq(BackPiece)
    <3>1. Len(buf) \in Nat /\ \A i \in 1..Len(buf) : buf[i] \in BackPiece
        BY <2>2, LenProperties, ElementOfSeq
    <3>2. \A i \in HeadEnd(buf) + 1..Len(buf) : buf[i] \in BackPiece
        BY <2>3, <3>1
    <3>3. HeadEnd(buf) + 1 \in Int /\ Len(buf) \in Int
        BY <2>3, <3>1
    <3> QED BY <3>2, <3>3, SubSeqProperties
  <2> DEFINE x == SubSeq(buf, HeadEnd(buf) + 1, Len(buf))
  <2>5. service' = [service EXCEPT !.at = "handover", !.rest = x] /\ x \in Seq(BackPiece)
      BY <2>1, <2>4
  <2> HIDE DEF x
  <2>6. service' \in ServiceState
      BY <1>0, <2>5 DEF ServiceState, Tunneling
  <2>7. Status(101) \in DownPiece
      BY Kinds
  <2>8. Append(down, Status(101)) \in Seq(DownPiece)
      BY <1>0, <2>7, Grown
  <2> QED BY <1>0, <1>5, <2>2, <2>6, <2>8 DEF SwitchProtocols, Typed
<1> QED BY <1>1, <1>2, <1>3, <1>4, <1>5 DEF Upgrade

LEMMA TunnelTyped ==
    ASSUME Typed, Service, Upgraded, HeadCame, Tunnel,
           ~Left /\ service.at \in Tunneling => Only(up, {"frame", "eof"})
    PROVE  Typed'
<1> USE DEF stream, upstream
<1>0. /\ service \in ServiceState /\ app \in AppState /\ client \in ClientState
      /\ up \in Seq(UpPiece) /\ down \in Seq(DownPiece)
      /\ out \in Seq(OutPiece) /\ back \in Seq(BackPiece)
      /\ <<>> \in Seq(BackPiece)
    BY EmptySeq DEF Typed
<1>1. CASE Handover \/ EndTunnel
  <2>1. service' \in ServiceState
      BY <1>0, <1>1, ServiceChanges DEF Handover, EndTunnel, Goes, Tunneling
  <2> QED BY <1>0, <1>1, <2>1 DEF Handover, EndTunnel, Typed
<1>2. CASE PassLeftover
  <2>1. service.rest \in Seq(BackPiece) /\ Only(service.rest, {"frame"})
      BY <1>0, <1>2 DEF PassLeftover, HeadCame, Tunneling, ServiceState
  <2>2. ASSUME NEW i \in 1..Len(service.rest)
        PROVE  service.rest[i] \in DownPiece
    <3>1. service.rest[i] \in BackPiece /\ service.rest[i].kind = "frame"
        BY <2>1, ElementOfSeq DEF Only
    <3> QED BY <3>1, ZenonT(30) DEF BackPiece, DownPiece, FramePiece
  <2>3. service.rest \in Seq(DownPiece)
      BY <2>1, <2>2
  <2>4. down \o service.rest \in Seq(DownPiece)
      BY <1>0, <2>3, ConcatProperties
  <2>5. service' \in ServiceState
      BY <1>0, <1>2 DEF PassLeftover, ServiceState, Tunneling
  <2> QED BY <1>0, <1>2, <2>4, <2>5 DEF PassLeftover, Typed
<1>3. CASE CopyDown
  <2>1. CASE Closes /\ Drops
      BY <1>0, <1>3, <2>1, Closed, Dropped DEF CopyDown, Typed
  <2>2. CASE /\ Copied("down", Head(back)) /\ down' = Append(down, Head(back))
             /\ back' = Tail(back) /\ UNCHANGED <<app, out>>
    <3>1. /\ back # <<>> /\ Head(back) \in BackPiece /\ Tail(back) \in Seq(BackPiece)
          /\ Head(back) = back[1] /\ 1 \in 1..Len(back)
        BY <1>0, <1>3, HeadTailProperties, EmptySeq DEF CopyDown
    <3>2. Head(back).kind \in {"frame", "eof"}
        BY <1>3, <3>1 DEF CopyDown, HeadCame, Tunneling, Only
    <3>3. Head(back) \in DownPiece
        BY <3>1, <3>2, RelayedTyped
    <3>4. down' \in Seq(DownPiece)
        BY <1>0, <2>2, <3>3, Grown
    <3>5. service' \in ServiceState
        BY <1>0, <2>2 DEF Copied, ServiceState, Ways
    <3> QED BY <1>0, <1>3, <2>2, <3>1, <3>4, <3>5 DEF CopyDown, Typed
  <2> QED BY <1>3, <2>1, <2>2 DEF CopyDown
<1>4. CASE CopyUp
  <2>0. /\ up # <<>> /\ Head(up) \in UpPiece /\ Tail(up) \in Seq(UpPiece)
        /\ Head(up) = up[1] /\ 1 \in 1..Len(up)
      BY <1>0, <1>4, HeadTailProperties, EmptySeq DEF CopyUp
  <2>1. CASE Closes /\ Drops
      BY <1>0, <1>4, <2>0, <2>1, Closed, Dropped DEF CopyUp, Typed
  <2>2. CASE /\ Copied("up", Head(up)) /\ out' = Append(out, Head(up)) /\ UNCHANGED <<app, down, back>>
    <3>1. Head(up).kind \in {"frame", "eof"}
        BY <1>4, <2>0 DEF CopyUp, Tunneling, Only
    <3>2. Head(up) \in OutPiece
        BY <2>0, <3>1, AsksAssumption DEF UpPiece, OutPiece, FramePiece
    <3>3. out' \in Seq(OutPiece)
        BY <1>0, <2>2, <3>2, Grown
    <3>4. service' \in ServiceState
        BY <1>0, <2>2 DEF Copied, ServiceState, Ways
    <3> QED BY <1>0, <1>4, <2>0, <2>2, <3>3, <3>4 DEF CopyUp, Typed
  <2> QED BY <1>4, <2>1, <2>2 DEF CopyUp
<1> QED BY <1>1, <1>2, <1>3, <1>4 DEF Tunnel

LEMMA StepTyped ==
    ASSUME Typed, AppInv, TunnelInv, [Next]_vars
    PROVE  Typed'
<1> USE DEF stream, upstream, vars
<1>1. CASE Device \/ App \/ Serve
    BY <1>1, DeviceTyped, AppTyped, ServeTyped
<1>2. CASE Proxy \/ Upgrade
    BY <1>2, ProxyTyped, UpgradeTyped DEF AppInv
<1>3. CASE Tunnel
    BY <1>3, TunnelTyped DEF AppInv, TunnelInv, Whole
<1>4. CASE Tick
  <2>1. service.waited + 1 \in 0..ProxyTimeout + 1
      BY <1>4, NumberAssumption DEF Tick, Typed, ServiceState
  <2>2. service' \in ServiceState
      BY <1>4, <2>1, ServiceChanges DEF Tick, Typed
  <2> QED BY <1>4, <2>2 DEF Tick, Typed
<1>5. CASE UNCHANGED vars
    BY <1>5 DEF Typed
<1> QED BY <1>1, <1>2, <1>3, <1>4, <1>5 DEF Next

----------------------------------------------------------------------------
(* The service and the app                                                 *)

LEMMA OfAppended ==
    ASSUME NEW w \in Seq(Pieces), NEW p \in Pieces, NEW kinds
    PROVE  /\ Len(w) \in Nat /\ Len(Append(w, p)) = Len(w) + 1
           /\ Of(Append(w, p), kinds)
                = Of(w, kinds) \cup (IF p.kind \in kinds THEN {Len(w) + 1} ELSE {})
           /\ Of(w, kinds) \subseteq 1..Len(w)
           /\ Only(w, kinds) /\ p.kind \in kinds => Only(Append(w, p), kinds)
BY Appended DEF Of, Only

LEMMA NoneAppended ==
    ASSUME NEW w \in Seq(Pieces), NEW p \in Pieces, NEW kinds, p.kind \notin kinds
    PROVE  Of(Append(w, p), kinds) = Of(w, kinds) /\ Of(w, kinds) \subseteq 1..Len(w)
<1>1. Of(Append(w, p), kinds) = Of(w, kinds) \cup {} /\ Of(w, kinds) \subseteq 1..Len(w)
    BY OfAppended
<1> QED BY <1>1

LEMMA OfTailed ==
    ASSUME NEW w \in Seq(Pieces), w # <<>>, NEW kinds
    PROVE  /\ Len(w) \in Nat \ {0} /\ Len(Tail(w)) = Len(w) - 1
           /\ \A i \in Of(Tail(w), kinds) : i \in Nat /\ i > 0 /\ i + 1 \in Of(w, kinds)
           /\ 1 \in Of(w, kinds) <=> Head(w).kind \in kinds
           /\ Only(w, kinds) => Only(Tail(w), kinds) /\ Head(w).kind \in kinds
<1>1. /\ Tail(w) \in Seq(Pieces) /\ Len(Tail(w)) = Len(w) - 1 /\ Len(w) \in Nat \ {0}
      /\ \A i \in 1..Len(Tail(w)) : Tail(w)[i] = w[i + 1]
      /\ Head(w) = w[1]
    BY Tailed
<1>2. \A i \in 1..Len(Tail(w)) : i + 1 \in 1..Len(w) /\ i \in Nat /\ i > 0
    BY <1>1
<1> QED BY <1>1, <1>2 DEF Of, Only

\* The wires of a typed state.
LEMMA TypedWires ==
    ASSUME Typed
    PROVE  /\ up \in Seq(Pieces) /\ down \in Seq(Pieces) /\ out \in Seq(Pieces) /\ back \in Seq(Pieces)
           /\ service.rest \in Seq(Pieces) /\ service.rest \in Seq(BackPiece)
BY Wires DEF Typed, ServiceState

LEMMA PieceKinds ==
    /\ \A a \in Asks : Request(a) \in Pieces /\ Request(a).kind = a
    /\ Body \in Pieces /\ Body.kind = "body" /\ Part \in Pieces /\ Part.kind = "part"
    /\ End \in Pieces /\ End.kind = "end" /\ Eof \in Pieces /\ Eof.kind = "eof"
    /\ \A n \in Nat : /\ Frame(n) \in Pieces /\ Frame(n).kind = "frame" /\ Frame(n).n = n
                      /\ Status(n) \in Pieces /\ Status(n).kind = "status" /\ Status(n).n = n
BY DEF Request, Body, Part, End, Eof, Frame, Status, Piece, Pieces

LEMMA StepService ==
    ASSUME Typed, Service, [Next]_vars
    PROVE  Service'
<1> USE DEF stream, upstream, vars
<1>0. service \in ServiceState
    BY DEF Typed
<1>1. CASE Device \/ App \/ UNCHANGED vars
  <2>1. service' = service
      BY <1>1 DEF Device, Ask, SendBody, SendFrame, Finish, Leave, Hear,
                  App, AppReads, AppBegins, AppAnswers, AppSends, AppEnds, AppCloses
  <2> QED BY <2>1 DEF Service
<1>2. CASE /\ service'.at \in {"idle", "closed"} /\ service'.rest = <<>>
           /\ service'.done = service.done
           /\ service.at \in {"copying", "closed"} => service'.at = "closed"
    BY <1>2 DEF Service
<1>3. CASE \E code \in 100..999 : Answers(code) /\ service.at \notin {"copying", "closed"}
  <2>1. PICK code \in 100..999 : Answers(code)
      BY <1>3
  <2>2. /\ service'.at \in {"idle", "closed"} /\ service'.rest = <<>>
        /\ service'.done = service.done
      BY <2>1, Answered, ZenonT(30)
  <2> QED BY <1>2, <1>3, <2>2
<1>4. CASE Closes
    BY <1>2, <1>4, Closed
<1>5. CASE Serve
  <2>1. CASE AnswerHub \/ AnswerUnknownApp \/ Rename
    <3>1. \E code \in 100..999 : Answers(code)
        BY <2>1 DEF AnswerHub, AnswerUnknownApp, Rename, HubCodes
    <3>2. service.at \in {"idle", "collecting"}
        BY <2>1 DEF AnswerHub, AnswerUnknownApp, Rename, Takes
    <3> QED BY <1>3, <3>1, <3>2
  <2>2. CASE BeginRename \/ RefuseRename
    <3>1. PICK x \in {"collecting", "closed"} : service' = [service EXCEPT !.at = x]
        BY <2>2 DEF BeginRename, RefuseRename, Goes
    <3>2. service.at \in {"idle", "collecting"}
        BY <2>2 DEF BeginRename, RefuseRename, Takes
    <3> QED BY <1>0, <3>1, <3>2 DEF Service, ServiceState
  <2>3. CASE BeginPlain \/ BeginUpgrade
      BY <1>0, <2>3 DEF BeginPlain, BeginUpgrade, Takes, Service, ServiceState
  <2>4. CASE EndRequests \/ LoseClient
      BY <1>4, <2>4 DEF EndRequests, LoseClient
  <2> QED BY <1>5, <2>1, <2>2, <2>3, <2>4 DEF Serve
<1>6. CASE Proxy
  <2>1. CASE ReachApp
      BY <2>1 DEF ReachApp, Service
  <2>2. CASE CannotReach \/ TimeOut
      BY <1>3, <2>2 DEF CannotReach, TimeOut
  <2>3. CASE RelayHead
      BY <1>0, <1>4, <2>3 DEF RelayHead, Goes, Service, ServiceState
  <2>4. CASE RelayBody
    <3>1. PICK x \in {"idle", "relaying"} : service' = [service EXCEPT !.at = x]
        BY <2>4 DEF RelayBody, Goes
    <3> QED BY <1>0, <2>4, <3>1 DEF RelayBody, Service, ServiceState
  <2>5. CASE BreakBody
      BY <1>4, <2>5 DEF BreakBody
  <2> QED BY <1>6, <2>1, <2>2, <2>3, <2>4, <2>5 DEF Proxy
<1>7. CASE Upgrade
  <2>1. CASE ConnectUpgrade
      BY <1>0, <1>4, <2>1 DEF ConnectUpgrade, Goes, Service, ServiceState
  <2>2. CASE AskUpgrade
      BY <1>0, <1>4, <2>2 DEF AskUpgrade, Goes, Service, ServiceState
  <2>3. CASE ReadMore
      BY <1>0, <2>3 DEF ReadMore, Reads, Service, ServiceState
  <2>4. CASE RefuseOversized
      BY <1>3, <2>4 DEF RefuseOversized
  <2>5. CASE RefuseClosed
      BY <1>3, <1>4, <2>5 DEF RefuseClosed
  <2>6. CASE RefuseUpgrade
    <3>1. \A n : StatusOf(n) \in 100..999
        BY DEF StatusOf
    <3> QED BY <1>3, <2>6, <3>1 DEF RefuseUpgrade
  <2>7. CASE SwitchProtocols
    <3>1. service.at = "reading" /\ service'.at = "handover" /\ service'.done = service.done
        BY <1>0, <2>7 DEF SwitchProtocols, Reads, ServiceState
    <3> QED BY <3>1 DEF Service
  <2>8. CASE SwitchTooLate
      BY <1>4, <2>8 DEF SwitchTooLate
  <2> QED BY <1>7, <2>1, <2>2, <2>3, <2>4, <2>5, <2>6, <2>7, <2>8 DEF Upgrade
<1>8. CASE Tunnel
  <2>1. CASE Handover \/ PassLeftover \/ EndTunnel
      BY <1>0, <2>1 DEF Handover, PassLeftover, EndTunnel, Goes, Service, ServiceState
  <2>2. CASE CopyDown
      BY <1>0, <1>4, <2>2 DEF CopyDown, Copied, Service, ServiceState
  <2>3. CASE CopyUp
      BY <1>0, <1>4, <2>3 DEF CopyUp, Copied, Service, ServiceState
  <2> QED BY <1>8, <2>1, <2>2, <2>3 DEF Tunnel
<1>9. CASE Tick
    BY <1>0, <1>9 DEF Tick, Service, ServiceState
<1> QED BY <1>1, <1>5, <1>6, <1>7, <1>8, <1>9 DEF Next

\* A step of the service goes on with a request, or has ended it.
GoesOn ==
    \/ BeginPlain \/ BeginUpgrade \/ ReachApp
    \/ RelayHead /\ ~Left
    \/ RelayBody
    \/ ConnectUpgrade /\ Goes("asking") /\ app' = [app EXCEPT !.conn = "open"]
                      /\ UNCHANGED <<down, upstream>>
    \/ AskUpgrade /\ Goes("reading") /\ out' = Append(out, Request("upgrade"))
                  /\ UNCHANGED <<app, down, back>>
    \/ ReadMore \/ SwitchProtocols \/ Handover \/ PassLeftover
    \/ CopyDown /\ Copied("down", Head(back)) /\ down' = Append(down, Head(back))
                /\ back' = Tail(back) /\ UNCHANGED <<app, out>>
    \/ CopyUp /\ Copied("up", Head(up)) /\ out' = Append(out, Head(up))
              /\ UNCHANGED <<app, down, back>>

Settled == service.at \in {"idle", "closed", "collecting"}

LEMMA Steps ==
    ASSUME Typed, [Next]_vars
    PROVE  \/ Device \/ App \/ Tick \/ UNCHANGED vars
           \/ GoesOn
           \/ Settled'
<1> USE DEF stream, upstream, vars
<1>0. service \in ServiceState
    BY DEF Typed
<1>1. ASSUME NEW code \in 100..999, Answers(code)
      PROVE  Settled'
    BY <1>1, Answered DEF Settled
<1>2. Closes => Settled'
    BY Closed DEF Settled
<1>3. CASE Serve
  <2>1. CASE AnswerHub \/ AnswerUnknownApp \/ Rename
    <3>1. \E code \in 100..999 : Answers(code)
        BY <2>1 DEF AnswerHub, AnswerUnknownApp, Rename, HubCodes
    <3> QED BY <1>1, <3>1
  <2>2. CASE BeginRename \/ RefuseRename
    <3>1. PICK x \in {"collecting", "closed"} : service' = [service EXCEPT !.at = x]
        BY <2>2 DEF BeginRename, RefuseRename, Goes
    <3> QED BY <1>0, <3>1 DEF Settled, ServiceState
  <2>3. CASE EndRequests \/ LoseClient
      BY <1>2, <2>3 DEF EndRequests, LoseClient
  <2> QED BY <1>3, <2>1, <2>2, <2>3 DEF Serve, GoesOn
<1>4. CASE Proxy
  <2>1. CASE CannotReach \/ TimeOut
    <3>1. \E code \in 100..999 : Answers(code)
        BY <2>1 DEF CannotReach, TimeOut
    <3> QED BY <1>1, <3>1
  <2>2. CASE RelayHead /\ Left
      BY <1>2, <2>2 DEF RelayHead
  <2>3. CASE BreakBody
      BY <1>2, <2>3 DEF BreakBody
  <2> QED BY <1>4, <2>1, <2>2, <2>3 DEF Proxy, GoesOn
<1>5. CASE Upgrade
  <2>1. CASE ConnectUpgrade
      BY <1>2, <2>1 DEF ConnectUpgrade, GoesOn
  <2>2. CASE AskUpgrade
      BY <1>2, <2>2 DEF AskUpgrade, GoesOn
  <2>3. CASE RefuseOversized
      BY <1>1, <2>3 DEF RefuseOversized
  <2>4. CASE RefuseClosed
      BY <1>1, <1>2, <2>4 DEF RefuseClosed
  <2>5. CASE RefuseUpgrade
    <3>1. \A n : StatusOf(n) \in 100..999
        BY DEF StatusOf
    <3> QED BY <1>1, <2>5, <3>1, ZenonT(30) DEF RefuseUpgrade
  <2>6. CASE SwitchTooLate
      BY <1>2, <2>6 DEF SwitchTooLate
  <2> QED BY <1>5, <2>1, <2>2, <2>3, <2>4, <2>5, <2>6 DEF Upgrade, GoesOn
<1>6. CASE Tunnel
  <2>1. CASE CopyDown
      BY <1>2, <2>1 DEF CopyDown, GoesOn
  <2>2. CASE CopyUp
      BY <1>2, <2>2 DEF CopyUp, GoesOn
  <2>3. CASE EndTunnel
      BY <1>0, <2>3 DEF EndTunnel, Goes, Settled, ServiceState
  <2> QED BY <1>6, <2>1, <2>2, <2>3 DEF Tunnel, GoesOn
<1> QED BY <1>3, <1>4, <1>5, <1>6 DEF Next

LEMMA StepPlain ==
    ASSUME Typed, Plain, [Next]_vars
    PROVE  Plain'
<1> USE DEF stream, upstream, vars
<1>0. /\ service \in ServiceState /\ app \in AppState
      /\ out \in Seq(Pieces) /\ back \in Seq(Pieces)
    BY TypedWires DEF Typed
<1> SUFFICES ASSUME service'.at \in {"requesting", "relaying"}
             PROVE  Plain'
    BY DEF Plain
<1>1. CASE Device \/ Tick \/ UNCHANGED vars
  <2>1. UNCHANGED <<app, out, back>> /\ service'.at = service.at
      BY <1>0, <1>1 DEF Device, Ask, SendBody, SendFrame, Finish, Leave, Hear, Tick, ServiceState
  <2> QED BY <2>1 DEF Plain
<1>2. CASE App
  <2>1. service' = service
      BY <1>2 DEF App, AppReads, AppBegins, AppAnswers, AppSends, AppEnds, AppCloses
  <2>2. /\ "plain" \in Asks /\ app.ask # "upgrade" /\ Only(out, {"plain"})
        /\ \A i \in 1..Len(back) : back[i].kind = "status" => back[i].n = 200
      BY <2>1 DEF Plain
  <2>3. CASE AppReads
    <3>1. Only(Tail(out), {"plain"}) /\ Head(out).kind = "plain"
        BY <1>0, <2>2, <2>3, OfTailed DEF AppReads
    <3>2. app'.ask = "plain" /\ out' = Tail(out) /\ back' = back
        BY <1>0, <2>3, <3>1 DEF AppReads, AppState
    <3> QED BY <2>1, <2>2, <3>1, <3>2 DEF Plain
  <2>4. CASE AppBegins
      BY <2>2, <2>4 DEF AppBegins
  <2>5. CASE AppAnswers \/ AppSends \/ AppEnds \/ AppCloses
    <3>1. app'.ask = app.ask /\ out' = out
        BY <1>0, <2>5 DEF AppAnswers, AppSends, AppEnds, AppCloses, AppState
    <3>2. PICK p \in Pieces : back' = Append(back, p) /\ (p.kind = "status" => p.n = 200)
      <4>1. CASE AppAnswers
          BY <2>2, <4>1, PieceKinds DEF AppAnswers
      <4>2. CASE AppSends
          BY <1>0, <4>2, PieceKinds DEF AppSends, AppState
      <4>3. CASE AppEnds \/ AppCloses
          BY <4>3, PieceKinds DEF AppEnds, AppCloses
      <4> QED BY <2>5, <4>1, <4>2, <4>3
    <3>3. \A i \in 1..Len(back') : back'[i].kind = "status" => back'[i].n = 200
        BY <1>0, <2>2, <3>2, Appended
    <3> QED BY <2>1, <2>2, <3>1, <3>3 DEF Plain
  <2> QED BY <1>2, <2>3, <2>4, <2>5 DEF App
<1>3. CASE GoesOn
  <2>1. CASE BeginPlain
    <3>1. up \in Seq(UpPiece) /\ up # <<>> /\ Head(up).kind = "plain"
        BY <2>1 DEF BeginPlain, Takes, Comes, Typed
    <3>2. Head(up) \in UpPiece
        BY <3>1, HeadTailProperties
    <3>3. "plain" \in Asks
        BY <3>1, <3>2 DEF UpPiece, FramePiece
    <3>4. app'.ask = "none" /\ out' = <<>> /\ back' = <<>>
        BY <2>1 DEF BeginPlain, NoApp
    <3> QED BY <3>3, <3>4 DEF Plain, Only
  <2>2. CASE ReachApp
    <3>1. app'.ask = app.ask /\ out' = <<Request("plain")>> /\ back' = back /\ service' = service
        BY <1>0, <2>2 DEF ReachApp, AppState
    <3>2. \A i \in 1..Len(out') : out'[i].kind = "plain"
        BY <3>1 DEF Request, Piece
    <3> QED BY <3>1, <3>2 DEF Plain, Only
  <2>3. CASE (RelayHead /\ ~Left) \/ RelayBody
    <3>1. /\ service.at \in {"requesting", "relaying"} /\ back # <<>> /\ back' = Tail(back)
          /\ UNCHANGED <<app, out>>
        BY <2>3 DEF RelayHead, RelayBody, Comes
    <3>2. \A i \in 1..Len(Tail(back)) : Tail(back)[i] = back[i + 1] /\ i + 1 \in 1..Len(back)
        BY <1>0, <3>1, Tailed
    <3> QED BY <3>1, <3>2 DEF Plain
  <2>4. CASE BeginUpgrade
      BY <1>0, <2>4 DEF BeginUpgrade, ServiceState
  <2>5. CASE Goes("asking") \/ Goes("reading")
      BY <1>0, <2>5 DEF Goes, ServiceState
  <2>6. CASE ReadMore
      BY <1>0, <2>6 DEF ReadMore, Reads, ServiceState
  <2>7. CASE SwitchProtocols
    <3>1. service'.at = "handover"
        BY <1>0, <2>7 DEF SwitchProtocols, ServiceState
    <3> QED BY <3>1
  <2>8. CASE Handover \/ PassLeftover
      BY <1>0, <2>8 DEF Handover, PassLeftover, Goes, ServiceState
  <2>9. CASE CopyDown /\ Copied("down", Head(back))
      BY <1>0, <2>9 DEF CopyDown, Copied, ServiceState
  <2>10. CASE CopyUp /\ Copied("up", Head(up))
      BY <1>0, <2>10 DEF CopyUp, Copied, ServiceState
  <2> QED BY <1>3, <2>1, <2>2, <2>3, <2>4, <2>5, <2>6, <2>7, <2>8, <2>9, <2>10 DEF GoesOn
<1> QED BY <1>1, <1>2, <1>3, Steps DEF Settled

LEMMA StepUpgraded ==
    ASSUME Typed, Upgraded, [Next]_vars,
           ~Left /\ service.at \in Tunneling => Only(up, {"frame", "eof"})
    PROVE  Upgraded'
<1> USE DEF stream, upstream, vars
<1>0. /\ service \in ServiceState /\ app \in AppState
      /\ up \in Seq(Pieces) /\ out \in Seq(Pieces) /\ back \in Seq(Pieces)
    BY TypedWires DEF Typed
<1> SUFFICES ASSUME service'.at \in Upgrading \cup Tunneling
             PROVE  Upgraded'
    BY DEF Upgraded
<1>1. CASE Device \/ Tick \/ UNCHANGED vars
  <2>1. UNCHANGED <<app, out, back>> /\ service'.at = service.at
      BY <1>0, <1>1 DEF Device, Ask, SendBody, SendFrame, Finish, Leave, Hear, Tick, ServiceState
  <2> QED BY <2>1 DEF Upgraded, Of
<1>2. CASE App
  <2>1. service' = service
      BY <1>2 DEF App, AppReads, AppBegins, AppAnswers, AppSends, AppEnds, AppCloses
  <2>2. /\ "upgrade" \in Asks /\ app.ask # "plain" /\ Only(out, {"upgrade", "frame", "eof"})
        /\ service.at = "connecting" => app.conn = "none"
        /\ app.conn # "closed" => Of(back, {"eof"}) = {}
        /\ \A i \in Of(back, {"eof"}) : i = Len(back)
      BY <2>1 DEF Upgraded
  <2>3. CASE AppReads
    <3>1. Only(Tail(out), {"upgrade", "frame", "eof"}) /\ Head(out).kind \in {"upgrade", "frame", "eof"}
        BY <1>0, <2>2, <2>3, OfTailed DEF AppReads
    <3>2. /\ app'.ask = app.ask \/ (app'.ask = Head(out).kind /\ Head(out).kind # "frame")
          /\ app'.conn = app.conn /\ out' = Tail(out) /\ back' = back
        BY <1>0, <2>3 DEF AppReads, AppState
    <3> QED BY <2>1, <2>2, <3>1, <3>2 DEF Upgraded, Of
  <2>4. CASE AppEnds
      BY <2>2, <2>4 DEF AppEnds
  <2>5. CASE AppBegins \/ AppAnswers \/ AppSends
    <3>1. app'.ask = app.ask /\ app'.conn = app.conn /\ app.conn = "open" /\ out' = out
        BY <1>0, <2>5 DEF AppBegins, AppAnswers, AppSends, Begun, AppState
    <3>2. PICK p \in Pieces : back' = Append(back, p) /\ p.kind # "eof"
      <4>1. CASE AppBegins
          BY <4>1, PieceKinds DEF AppBegins
      <4>2. CASE AppAnswers
        <5>1. Codes \cup {200} \subseteq Nat
            BY CodesAssumption
        <5> QED BY <4>2, <5>1, PieceKinds DEF AppAnswers
      <4>3. CASE AppSends
          BY <1>0, <4>3, PieceKinds DEF AppSends, AppState
      <4> QED BY <2>5, <4>1, <4>2, <4>3
    <3>3. Of(back, {"eof"}) = {}
        BY <2>2, <3>1
    <3>4. Of(back', {"eof"}) = {}
        BY <1>0, <3>2, <3>3, OfAppended
    <3> QED BY <2>1, <2>2, <3>1, <3>4 DEF Upgraded
  <2>6. CASE AppCloses
    <3>1. /\ app'.ask = app.ask /\ app'.conn = "closed" /\ app.conn = "open" /\ out' = out
          /\ back' = Append(back, Eof)
        BY <1>0, <2>6 DEF AppCloses, AppState
    <3>2. Of(back, {"eof"}) = {} /\ service.at # "connecting"
        BY <2>2, <3>1
    <3>3. \A i \in Of(back', {"eof"}) : i = Len(back')
        BY <1>0, <3>1, <3>2, OfAppended, PieceKinds
    <3> QED BY <2>1, <2>2, <3>1, <3>2, <3>3 DEF Upgraded
  <2> QED BY <1>2, <2>3, <2>4, <2>5, <2>6 DEF App
<1>3. CASE GoesOn
  <2>1. CASE BeginUpgrade
    <3>1. up \in Seq(UpPiece) /\ up # <<>> /\ Head(up).kind = "upgrade"
        BY <2>1 DEF BeginUpgrade, Takes, Comes, Typed
    <3>2. Head(up) \in UpPiece
        BY <3>1, HeadTailProperties
    <3>3. "upgrade" \in Asks
        BY <3>1, <3>2 DEF UpPiece, FramePiece
    <3>4. app'.ask = "none" /\ app'.conn = "none" /\ out' = <<>> /\ back' = <<>>
        BY <2>1 DEF BeginUpgrade, NoApp
    <3> QED BY <3>3, <3>4 DEF Upgraded, Only, Of
  <2>2. CASE ConnectUpgrade /\ Goes("asking") /\ app' = [app EXCEPT !.conn = "open"]
             /\ UNCHANGED <<down, upstream>>
    <3>1. /\ app'.ask = app.ask /\ app'.conn = "open" /\ out' = out /\ back' = back
          /\ service'.at = "asking" /\ service.at = "connecting"
        BY <1>0, <2>2 DEF ConnectUpgrade, Goes, AppState, ServiceState
    <3>2. app.conn = "none" /\ Of(back, {"eof"}) = {}
        BY <3>1 DEF Upgraded, Upgrading
    <3> QED BY <3>1, <3>2 DEF Upgraded, Upgrading, Of
  <2>3. CASE AskUpgrade /\ Goes("reading") /\ out' = Append(out, Request("upgrade"))
             /\ UNCHANGED <<app, down, back>>
    <3>1. service.at = "asking" /\ service'.at = "reading"
        BY <1>0, <2>3 DEF AskUpgrade, Goes, ServiceState
    <3>2. /\ "upgrade" \in Asks /\ Only(out, {"upgrade", "frame", "eof"})
          /\ app.ask # "plain" /\ (app.conn # "closed" => Of(back, {"eof"}) = {})
          /\ \A i \in Of(back, {"eof"}) : i = Len(back)
        BY <3>1 DEF Upgraded, Upgrading
    <3>3. Only(out', {"upgrade", "frame", "eof"})
        BY <1>0, <2>3, <3>2, OfAppended, PieceKinds
    <3> QED BY <2>3, <3>1, <3>2, <3>3 DEF Upgraded, Of
  <2>4. CASE ReadMore \/ SwitchProtocols
    <3>1. (\E buf : Reads(buf)) /\ UNCHANGED <<app, out>>
        BY <2>4 DEF ReadMore, SwitchProtocols
    <3>2. PICK k \in 1..Len(back) : /\ Len(back') = Len(back) - k
                                    /\ \A i \in 1..Len(back') : back'[i] = back[k + i]
        BY <3>1, ReadTakes
    <3>3. service.at = "reading" /\ service'.at # "connecting"
        BY <1>0, <2>4 DEF ReadMore, SwitchProtocols, Reads, ServiceState
    <3>4. /\ "upgrade" \in Asks /\ Only(out, {"upgrade", "frame", "eof"})
          /\ app.ask # "plain" /\ (app.conn # "closed" => Of(back, {"eof"}) = {})
          /\ \A i \in Of(back, {"eof"}) : i = Len(back)
        BY <3>3 DEF Upgraded, Upgrading
    <3>5. Len(back) \in Nat
        BY <1>0, LenProperties
    <3>6. \A i \in Of(back', {"eof"}) : k + i \in Of(back, {"eof"}) /\ i \in Nat
        BY <3>2, <3>5 DEF Of
    <3>7. \A i \in Of(back', {"eof"}) : i = Len(back')
        BY <3>2, <3>4, <3>5, <3>6
    <3> QED BY <3>1, <3>3, <3>4, <3>6, <3>7 DEF Upgraded
  <2>5. CASE Handover \/ PassLeftover
    <3>1. /\ UNCHANGED <<app, out, back>> /\ service.at \in Tunneling
          /\ service'.at \in Tunneling
        BY <1>0, <2>5 DEF Handover, PassLeftover, Goes, Tunneling, ServiceState
    <3> QED BY <3>1 DEF Upgraded, Of, Tunneling
  <2>6. CASE CopyDown /\ back' = Tail(back) /\ UNCHANGED <<app, out>> /\ Copied("down", Head(back))
    <3>1. service.at = "copying" /\ service'.at = "copying" /\ back # <<>>
        BY <1>0, <2>6 DEF CopyDown, Copied, ServiceState
    <3>2. /\ "upgrade" \in Asks /\ Only(out, {"upgrade", "frame", "eof"})
          /\ app.ask # "plain" /\ (app.conn # "closed" => Of(back, {"eof"}) = {})
          /\ \A i \in Of(back, {"eof"}) : i = Len(back)
        BY <3>1 DEF Upgraded, Tunneling
    <3>3. /\ Len(back') = Len(back) - 1 /\ Len(back) \in Nat
          /\ \A i \in Of(back', {"eof"}) : i \in Nat /\ i + 1 \in Of(back, {"eof"})
        BY <1>0, <2>6, <3>1, OfTailed
    <3>4. \A i \in Of(back', {"eof"}) : i = Len(back')
        BY <3>2, <3>3
    <3> QED BY <2>6, <3>1, <3>2, <3>3, <3>4 DEF Upgraded
  <2>7. CASE CopyUp /\ out' = Append(out, Head(up)) /\ UNCHANGED <<app, back>> /\ Copied("up", Head(up))
    <3>1. service.at = "copying" /\ service'.at = "copying" /\ up # <<>> /\ ~Left
        BY <1>0, <2>7 DEF CopyUp, Copied, ServiceState
    <3>2. Head(up).kind \in {"frame", "eof"} /\ Head(up) \in Pieces
      <4>1. Only(up, {"frame", "eof"})
          BY <3>1 DEF Tunneling
      <4> QED BY <1>0, <3>1, <4>1, OfTailed, Tailed
    <3>3. Only(out, {"upgrade", "frame", "eof"})
        BY <3>1 DEF Upgraded, Tunneling
    <3>4. Only(out', {"upgrade", "frame", "eof"})
        BY <1>0, <2>7, <3>2, <3>3, OfAppended
    <3> QED BY <2>7, <3>1, <3>4 DEF Upgraded, Tunneling, Of
  <2>8. CASE BeginPlain \/ ReachApp
    <3>1. service'.at = "requesting"
        BY <1>0, <2>8 DEF BeginPlain, ReachApp, ServiceState
    <3> QED BY <3>1 DEF Upgrading, Tunneling
  <2>9. CASE (RelayHead /\ ~Left) \/ RelayBody
    <3>1. service'.at \in {"idle", "relaying"}
        BY <1>0, <2>9 DEF RelayHead, RelayBody, Goes, ServiceState
    <3> QED BY <3>1 DEF Upgrading, Tunneling
  <2> QED BY <1>3, <2>1, <2>2, <2>3, <2>4, <2>5, <2>6, <2>7, <2>8, <2>9 DEF GoesOn
<1>4. CASE Settled'
    BY <1>4 DEF Settled, Upgrading, Tunneling
<1> QED BY <1>1, <1>2, <1>3, <1>4, Steps

\* Where a service that goes on with a request comes from, and what it keeps.
LEMMA Goings ==
    ASSUME Typed
    PROVE  /\ BeginPlain => service.at = "idle" /\ service'.at = "requesting"
                            /\ service'.rest = service.rest /\ service'.done = service.done
           /\ BeginUpgrade => service.at = "idle" /\ service'.at = "connecting"
                              /\ service'.rest = service.rest /\ service'.done = service.done
           /\ ReachApp => service.at = "requesting" /\ service' = service
           /\ RelayHead /\ ~Left => service.at = "requesting" /\ service'.at = "relaying"
           /\ RelayBody => service.at = "relaying" /\ service'.at \in {"relaying", "idle"}
           /\ ConnectUpgrade /\ Goes("asking") =>
                 service.at = "connecting" /\ service'.at = "asking" /\ service'.rest = service.rest
           /\ AskUpgrade /\ Goes("reading") =>
                 service.at = "asking" /\ service'.at = "reading" /\ service'.rest = service.rest
           /\ ReadMore => service.at = "reading" /\ service'.at = "reading"
           /\ SwitchProtocols => service.at = "reading" /\ service'.at = "handover"
                                 /\ service'.done = service.done
           /\ Handover => service.at = "handover" /\ service'.at = "passing"
                          /\ service'.rest = service.rest /\ service'.done = service.done
           /\ PassLeftover => service.at = "passing" /\ service'.at = "copying"
                              /\ service'.rest = <<>> /\ service'.done = service.done
           /\ CopyDown /\ Copied("down", Head(back)) =>
                 service.at = "copying" /\ service'.at = "copying" /\ service'.rest = service.rest
           /\ CopyUp /\ Copied("up", Head(up)) =>
                 service.at = "copying" /\ service'.at = "copying" /\ service'.rest = service.rest
<1>1. service \in ServiceState
    BY DEF Typed
<1>2. /\ BeginPlain => service.at = "idle" /\ service'.at = "requesting"
                       /\ service'.rest = service.rest /\ service'.done = service.done
      /\ BeginUpgrade => service.at = "idle" /\ service'.at = "connecting"
                         /\ service'.rest = service.rest /\ service'.done = service.done
    BY <1>1 DEF BeginPlain, BeginUpgrade, Takes, ServiceState
<1>3. ReachApp => service.at = "requesting" /\ service' = service
    BY DEF ReachApp
<1>4. RelayHead /\ ~Left => service.at = "requesting" /\ service'.at = "relaying"
    BY <1>1 DEF RelayHead, Goes, ServiceState
<1>5. RelayBody => service.at = "relaying" /\ service'.at \in {"relaying", "idle"}
    BY <1>1 DEF RelayBody, Goes, ServiceState
<1>6. ConnectUpgrade /\ Goes("asking") =>
         service.at = "connecting" /\ service'.at = "asking" /\ service'.rest = service.rest
    BY <1>1 DEF ConnectUpgrade, Goes, ServiceState
<1>7. AskUpgrade /\ Goes("reading") =>
         service.at = "asking" /\ service'.at = "reading" /\ service'.rest = service.rest
    BY <1>1 DEF AskUpgrade, Goes, ServiceState
<1>8. ReadMore => service.at = "reading" /\ service'.at = "reading"
    BY <1>1 DEF ReadMore, Reads, ServiceState
<1>9. SwitchProtocols => service.at = "reading" /\ service'.at = "handover"
                         /\ service'.done = service.done
    BY <1>1 DEF SwitchProtocols, Reads, ServiceState
<1>10. /\ Handover => service.at = "handover" /\ service'.at = "passing"
                      /\ service'.rest = service.rest /\ service'.done = service.done
       /\ PassLeftover => service.at = "passing" /\ service'.at = "copying"
                          /\ service'.rest = <<>> /\ service'.done = service.done
    BY <1>1 DEF Handover, PassLeftover, Goes, ServiceState
<1>11. CopyDown /\ Copied("down", Head(back)) =>
          service.at = "copying" /\ service'.at = "copying" /\ service'.rest = service.rest
    BY <1>1 DEF CopyDown, Copied, ServiceState
<1>12. CopyUp /\ Copied("up", Head(up)) =>
          service.at = "copying" /\ service'.at = "copying" /\ service'.rest = service.rest
    BY <1>1 DEF CopyUp, Copied, ServiceState
<1> QED BY <1>2, <1>3, <1>4, <1>5, <1>6, <1>7, <1>8, <1>9, <1>10, <1>11, <1>12

\* What is read as long as no status is among it.
LEMMA ReadParts ==
    ASSUME Typed, HeadComes, service.at = "reading", NEW buf, Reads(buf),
           Of(buf, {"status"}) = {}
    PROVE  Only(buf, {"part"}) /\
           \E k \in 1..Len(back) :
              /\ \A i \in 1..k : back[i].kind = "part"
              /\ back' = SubSeq(back, k + 1, Len(back)) /\ Len(back') = Len(back) - k
              /\ \A i \in 1..Len(back') : back'[i] = back[k + i]
<1>1. PICK k \in 1..Len(back) :
         /\ \A i \in 1..k : back[i] # Eof
         /\ buf \in Seq(BackPiece) /\ Len(buf) = Len(service.rest) + k
         /\ \A i \in 1..Len(buf) : buf[i] = IF i <= Len(service.rest) THEN service.rest[i]
                                            ELSE back[i - Len(service.rest)]
         /\ back' = SubSeq(back, k + 1, Len(back))
         /\ Len(back') = Len(back) - k
         /\ \A i \in 1..Len(back') : back'[i] = back[k + i]
    BY ReadTakes
<1>2. Len(back) \in Nat /\ Len(service.rest) \in Nat /\ k \in Nat /\ k <= Len(back)
    BY TypedWires, LenProperties
<1>3. /\ Only(service.rest, {"part"}) /\ Only(back, {"part", "status", "frame", "eof"})
      /\ \A i \in Frames(back) : \E j \in Of(back, {"status"}) : j < i
    BY DEF HeadComes, Upgrading
<1>4. \A i \in 1..k : back[i].kind # "status"
  <2> TAKE i \in 1..k
  <2>1. Len(service.rest) + i \in 1..Len(buf) /\ Len(service.rest) + i > Len(service.rest)
        /\ (Len(service.rest) + i) - Len(service.rest) = i
      BY <1>1, <1>2
  <2>2. buf[Len(service.rest) + i] = back[i]
      BY <1>1, <1>2, <2>1
  <2> QED BY <2>1, <2>2 DEF Of
<1>5. \A i \in 1..k : back[i].kind # "frame"
  <2> SUFFICES ASSUME NEW i \in 1..k, back[i].kind = "frame" PROVE FALSE
      OBVIOUS
  <2>1. i \in Frames(back)
      BY <1>2 DEF Frames
  <2>2. PICK j \in Of(back, {"status"}) : j < i
      BY <1>3, <2>1
  <2>3. j \in 1..k /\ back[j].kind = "status"
      BY <1>2, <2>2 DEF Of
  <2> QED BY <1>4, <2>3
<1>6. \A i \in 1..k : back[i].kind # "eof"
  <2> SUFFICES ASSUME NEW i \in 1..k, back[i].kind = "eof" PROVE back[i] = Eof
      BY <1>1
  <2>1. back[i] \in BackPiece
      BY <1>2, ElementOfSeq DEF Typed
  <2>2. back[i] \in [kind : {"part", "end", "eof"}, n : {0}]
      BY <2>1 DEF BackPiece, FramePiece
  <2>3. back[i] = [kind |-> "eof", n |-> 0]
      BY <2>2
  <2> QED BY <2>3 DEF Eof, Piece
<1>7. \A i \in 1..k : back[i].kind = "part"
    BY <1>2, <1>3, <1>4, <1>5, <1>6 DEF Only
<1>8. ASSUME NEW i \in 1..Len(buf) PROVE buf[i].kind = "part"
  <2>1. CASE i <= Len(service.rest)
    <3>1. buf[i] = service.rest[i] /\ i \in 1..Len(service.rest)
        BY <1>1, <1>2, <2>1
    <3> QED BY <1>3, <3>1 DEF Only
  <2>2. CASE ~(i <= Len(service.rest))
    <3>1. i - Len(service.rest) \in 1..k
        BY <1>1, <1>2, <2>2
    <3> QED BY <1>1, <1>7, <2>2, <3>1
  <2> QED BY <2>1, <2>2
<1> QED BY <1>1, <1>7, <1>8 DEF Only

LEMMA StepHeadComes ==
    ASSUME Typed, Service, Upgraded, HeadComes, [Next]_vars
    PROVE  HeadComes'
<1> USE DEF stream, upstream, vars
<1>0. /\ service \in ServiceState /\ app \in AppState
      /\ up \in Seq(Pieces) /\ out \in Seq(Pieces) /\ back \in Seq(Pieces)
      /\ Len(back) \in Nat
    BY TypedWires, LenProperties DEF Typed
<1> SUFFICES ASSUME service'.at \in Upgrading
             PROVE  HeadComes'
    BY DEF HeadComes
<1>1. service.at \in Upgrading =>
         /\ Only(service.rest, {"part"}) /\ Only(back, {"part", "status", "frame", "eof"})
         /\ app.got = <<>> /\ Frames(out) = {}
         /\ Carries(back, 0, app.sent)
         /\ app.code # 0 => Of(back, {"status"}) # {}
         /\ \A i \in Of(back, {"status"}) :
               /\ app.code # 0
               /\ \A j \in 1..Len(back) : j > i => back[j].kind \in {"frame", "eof"}
         /\ \A i \in Frames(back) : \E j \in Of(back, {"status"}) : j < i
    BY DEF HeadComes
<1>2. CASE Device \/ Tick \/ UNCHANGED vars
  <2>1. UNCHANGED <<app, out, back>> /\ service'.at = service.at /\ service'.rest = service.rest
      BY <1>0, <1>2 DEF Device, Ask, SendBody, SendFrame, Finish, Leave, Hear, Tick, ServiceState
  <2> QED BY <1>1, <2>1 DEF HeadComes, Of, Frames, Carries
<1>3. CASE App
  <2>1. service' = service
      BY <1>3 DEF App, AppReads, AppBegins, AppAnswers, AppSends, AppEnds, AppCloses
  <2>2. service.at \in Upgrading
      BY <2>1
  <2>3. app.ask # "plain" /\ app.ask \in {"upgrade", "none"}
      BY <1>0, <2>2 DEF Upgraded, AppState
  <2>4. CASE AppReads
    <3>1. /\ out # <<>> /\ out' = Tail(out) /\ back' = back
          /\ app'.sent = app.sent /\ app'.code = app.code
          /\ Head(out).kind # "frame" => app'.got = app.got
        BY <1>0, <2>4 DEF AppReads, AppState
    <3>2. Head(out).kind # "frame" /\ Frames(out') = {}
      <4>1. /\ Frames(out) = (IF Head(out).kind = "frame" THEN {1} ELSE {})
                             \cup {i + 1 : i \in Frames(out')}
          BY <1>0, <3>1, FramesTailed
      <4> QED BY <1>1, <2>2, <4>1
    <3> QED BY <1>1, <2>1, <2>2, <3>1, <3>2 DEF HeadComes, Of, Frames, Carries
  <2>5. CASE AppBegins
    <3>1. /\ app.code = 0 /\ app'.code = 0 /\ app'.sent = app.sent /\ app'.got = app.got
          /\ out' = out /\ back' = Append(back, Part)
        BY <1>0, <2>5 DEF AppBegins, Begun, AppState
    <3>2. Of(back, {"status"}) = {} /\ Frames(back) = {}
        BY <1>1, <2>2, <3>1
    <3>3. Of(back', {"status"}) = {}
        BY <1>0, <3>1, <3>2, OfAppended, PieceKinds
    <3>4. Frames(back') = {}
      <4>1. Frames(Append(back, Part)) = Frames(back)
          BY <1>0, NoFrameAppended, PieceKinds
      <4> QED BY <3>1, <3>2, <4>1
    <3>5. Only(back', {"part", "status", "frame", "eof"})
        BY <1>0, <1>1, <2>2, <3>1, OfAppended, PieceKinds
    <3>6. Carries(back', 0, app.sent)
        BY <1>0, <1>1, <2>2, <3>1, CarriesMore, PieceKinds
    <3> QED BY <1>1, <2>1, <2>2, <3>1, <3>3, <3>4, <3>5, <3>6 DEF HeadComes, Frames
  <2>6. CASE AppAnswers
    <3>1. PICK code \in Codes \cup {200} :
             /\ app' = [app EXCEPT !.code = IF code = 0 THEN 999 ELSE code]
             /\ back' = Append(back, Status(code))
        BY <2>6 DEF AppAnswers
    <3>2. code \in Nat
        BY CodesAssumption
    <3>3. /\ app.code = 0 /\ app'.code # 0 /\ app'.sent = app.sent /\ app'.got = app.got
          /\ out' = out
        BY <1>0, <2>6, <3>1, <3>2 DEF AppAnswers, Begun, AppState
    <3>4. Of(back, {"status"}) = {} /\ Frames(back) = {}
        BY <1>1, <2>2, <3>3
    <3> DEFINE p == Status(code)
    <3>5. p \in Pieces /\ p.kind = "status" /\ back' = Append(back, p)
        BY <3>1, <3>2, PieceKinds
    <3> HIDE DEF p
    <3>6. /\ Of(back', {"status"}) = {Len(back) + 1} /\ Len(back') = Len(back) + 1
          /\ Only(back', {"part", "status", "frame", "eof"})
        BY <1>0, <1>1, <2>2, <3>4, <3>5, OfAppended
    <3>7. Frames(back') = {}
      <4>1. Frames(Append(back, p)) = Frames(back)
          BY <1>0, <3>5, NoFrameAppended
      <4> QED BY <3>4, <3>5, <4>1
    <3>8. Carries(back', 0, app.sent)
        BY <1>0, <1>1, <2>2, <3>5, CarriesMore
    <3>9. \A i \in Of(back', {"status"}) :
             /\ app'.code # 0
             /\ \A j \in 1..Len(back') : j > i => back'[j].kind \in {"frame", "eof"}
        BY <1>0, <3>3, <3>6
    <3> QED BY <1>1, <2>1, <2>2, <3>3, <3>6, <3>7, <3>8, <3>9 DEF HeadComes
  <2>7. CASE AppSends
    <3>1. /\ app.sent \in Nat /\ app'.sent = app.sent + 1 /\ app'.code = app.code
          /\ app'.got = app.got /\ app.code # 0 /\ out' = out
          /\ back' = Append(back, Frame(app.sent + 1))
        BY <1>0, <2>3, <2>7 DEF AppSends, AppState
    <3> DEFINE p == Frame(app.sent + 1)
    <3>2. p \in Pieces /\ p.kind = "frame" /\ back' = Append(back, p)
        BY <3>1, PieceKinds
    <3>3. Carries(back', 0, app'.sent)
        BY <1>0, <1>1, <2>2, <3>1, CarriesNext
    <3> HIDE DEF p
    <3>4. /\ Of(back', {"status"}) = Of(back, {"status"}) /\ Len(back') = Len(back) + 1
          /\ Only(back', {"part", "status", "frame", "eof"})
          /\ Of(back, {"status"}) \subseteq 1..Len(back)
      <4>1. p.kind \notin {"status"}
          BY <3>2
      <4>2. /\ Of(Append(back, p), {"status"}) = Of(back, {"status"})
            /\ Of(back, {"status"}) \subseteq 1..Len(back)
          BY <1>0, <3>2, <4>1, NoneAppended
      <4>3. /\ Len(Append(back, p)) = Len(back) + 1
            /\ Only(Append(back, p), {"part", "status", "frame", "eof"})
          BY <1>0, <1>1, <2>2, <3>2, OfAppended
      <4> QED BY <3>2, <4>2, <4>3
    <3>5. /\ \A i \in 1..Len(back) : back'[i] = back[i]
          /\ back'[Len(back) + 1].kind = "frame"
        BY <1>0, <3>2, Appended
    <3>6. Frames(back') = Frames(back) \cup {Len(back) + 1}
        BY <1>0, <3>2, FramesAppended
    <3>7. \A i \in Of(back', {"status"}) : \A j \in 1..Len(back') :
             j > i => back'[j].kind \in {"frame", "eof"}
      <4> TAKE i \in Of(back', {"status"})
      <4> TAKE j \in 1..Len(back')
      <4>1. j = Len(back) + 1 \/ j \in 1..Len(back)
          BY <1>0, <3>4
      <4> QED BY <1>1, <2>2, <3>4, <3>5, <4>1
    <3>8. \A i \in Frames(back') : \E j \in Of(back', {"status"}) : j < i
      <4> TAKE i \in Frames(back')
      <4>1. CASE i \in Frames(back)
          BY <1>1, <2>2, <3>4, <4>1
      <4>2. CASE i = Len(back) + 1
        <5>1. PICK j \in Of(back, {"status"}) : TRUE
            BY <1>1, <2>2, <3>1
        <5>2. j < i /\ j \in Of(back', {"status"})
            BY <1>0, <3>4, <4>2, <5>1
        <5> QED BY <5>2
      <4> QED BY <3>6, <4>1, <4>2
    <3> QED BY <1>1, <2>1, <2>2, <3>1, <3>3, <3>4, <3>7, <3>8 DEF HeadComes
  <2>8. CASE AppEnds
      BY <2>3, <2>8 DEF AppEnds
  <2>9. CASE AppCloses
    <3>1. /\ app'.sent = app.sent /\ app'.code = app.code /\ app'.got = app.got /\ out' = out
          /\ back' = Append(back, Eof)
        BY <1>0, <2>9 DEF AppCloses, AppState
    <3>2. /\ Of(back', {"status"}) = Of(back, {"status"}) /\ Len(back') = Len(back) + 1
          /\ Only(back', {"part", "status", "frame", "eof"})
          /\ Of(back, {"status"}) \subseteq 1..Len(back)
      <4>1. Eof \in Pieces /\ Eof.kind \notin {"status"} /\ Eof.kind = "eof"
          BY PieceKinds
      <4>2. /\ Of(Append(back, Eof), {"status"}) = Of(back, {"status"})
            /\ Of(back, {"status"}) \subseteq 1..Len(back)
          BY <1>0, <4>1, NoneAppended
      <4>3. /\ Len(Append(back, Eof)) = Len(back) + 1
            /\ Only(Append(back, Eof), {"part", "status", "frame", "eof"})
          BY <1>0, <1>1, <2>2, <4>1, OfAppended
      <4> QED BY <3>1, <4>2, <4>3
    <3>3. /\ \A i \in 1..Len(back) : back'[i] = back[i]
          /\ back'[Len(back) + 1].kind = "eof"
        BY <1>0, <3>1, Appended, PieceKinds
    <3>4. Frames(back') = Frames(back)
      <4>1. Frames(Append(back, Eof)) = Frames(back)
          BY <1>0, NoFrameAppended, PieceKinds
      <4> QED BY <3>1, <4>1
    <3>5. Carries(back', 0, app.sent)
        BY <1>0, <1>1, <2>2, <3>1, CarriesMore, PieceKinds
    <3>6. \A i \in Of(back', {"status"}) : \A j \in 1..Len(back') :
             j > i => back'[j].kind \in {"frame", "eof"}
      <4> TAKE i \in Of(back', {"status"})
      <4> TAKE j \in 1..Len(back')
      <4>1. j = Len(back) + 1 \/ j \in 1..Len(back)
          BY <1>0, <3>2
      <4> QED BY <1>1, <2>2, <3>2, <3>3, <4>1
    <3> QED BY <1>1, <2>1, <2>2, <3>1, <3>2, <3>4, <3>5, <3>6 DEF HeadComes, Frames
  <2> QED BY <1>3, <2>4, <2>5, <2>6, <2>7, <2>8, <2>9 DEF App
<1>4. CASE GoesOn
  <2>1. CASE BeginUpgrade
    <3>1. service'.rest = <<>>
        BY <2>1, Goings DEF Service
    <3>2. /\ app'.got = <<>> /\ app'.sent = 0 /\ app'.code = 0 /\ out' = <<>> /\ back' = <<>>
        BY <2>1 DEF BeginUpgrade, NoApp
    <3>3. Frames(back') = {} /\ Frames(out') = {} /\ Of(back', {"status"}) = {}
        BY <3>2 DEF Frames, Of
    <3>4. Carries(back', 0, app'.sent)
        BY <3>2, <3>3, CarriesNothing
    <3> QED BY <3>1, <3>2, <3>3, <3>4 DEF HeadComes, Only
  <2>2. CASE ConnectUpgrade /\ Goes("asking") /\ app' = [app EXCEPT !.conn = "open"]
             /\ UNCHANGED <<down, upstream>>
    <3>1. /\ app'.sent = app.sent /\ app'.code = app.code /\ app'.got = app.got
          /\ out' = out /\ back' = back /\ service.at \in Upgrading /\ service'.rest = service.rest
        BY <1>0, <2>2, Goings DEF AppState, Upgrading
    <3> QED BY <1>1, <3>1 DEF HeadComes, Of, Frames, Carries
  <2>3. CASE AskUpgrade /\ Goes("reading") /\ out' = Append(out, Request("upgrade"))
             /\ UNCHANGED <<app, down, back>>
    <3>1. service.at \in Upgrading /\ service'.rest = service.rest /\ "upgrade" \in Asks
        BY <2>3, Goings DEF Upgrading, Upgraded
    <3>2. Frames(out') = Frames(out)
      <4>1. Request("upgrade") \in Pieces /\ Request("upgrade").kind # "frame"
          BY <3>1, PieceKinds
      <4>2. Frames(Append(out, Request("upgrade"))) = Frames(out)
          BY <1>0, <4>1, NoFrameAppended
      <4> QED BY <2>3, <4>2
    <3> QED BY <1>1, <2>3, <3>1, <3>2 DEF HeadComes, Of, Frames, Carries
  <2>4. CASE ReadMore
    <3>1. PICK buf \in Bufs : /\ Reads(buf) /\ HeadEnd(buf) = 0
                              /\ service' = [service EXCEPT !.rest = buf]
                              /\ UNCHANGED <<app, out>>
        BY <2>4 DEF ReadMore
    <3>2. service.at = "reading" /\ service'.rest = buf
        BY <1>0, <3>1 DEF Reads, ServiceState
    <3>3. Of(buf, {"status"}) = {}
      <4>1. buf \in Seq(BackPiece)
          BY <3>1, ReadTakes
      <4> QED BY <3>1, <4>1, HeadEnds
    <3>4. Only(buf, {"part"})
        BY <3>1, <3>2, <3>3, ReadParts
    <3>5. PICK k \in 1..Len(back) :
             /\ \A i \in 1..k : back[i].kind = "part"
             /\ back' = SubSeq(back, k + 1, Len(back)) /\ Len(back') = Len(back) - k
             /\ \A i \in 1..Len(back') : back'[i] = back[k + i]
        BY <3>1, <3>2, <3>3, ReadParts
    <3>6. k \in Nat /\ k <= Len(back) /\ service.at \in Upgrading
        BY <1>0, <3>2 DEF Upgrading
    <3>7. \A i \in 1..Len(back') : k + i \in 1..Len(back) /\ i \in Nat /\ i > 0 /\ back'[i] = back[k + i]
        BY <1>0, <3>5, <3>6
    <3>8. Only(back', {"part", "status", "frame", "eof"})
        BY <1>1, <3>6, <3>7 DEF Only
    <3>9. \A i \in 1..Len(back) : back[i].kind # "part" => i - k \in 1..Len(back') /\ i > k
                                                           /\ back'[i - k] = back[i]
      <4> SUFFICES ASSUME NEW i \in 1..Len(back), back[i].kind # "part"
                   PROVE  i - k \in 1..Len(back') /\ i > k /\ back'[i - k] = back[i]
          OBVIOUS
      <4>1. i > k /\ i - k \in 1..Len(back')
          BY <1>0, <3>5, <3>6
      <4> QED BY <1>0, <3>6, <3>7, <4>1
    <3>10. Carries(back', 0, app.sent)
      <4>1. \A i \in Frames(back) : i > k
          BY <3>9 DEF Frames
      <4>2. k \in 0..Len(back)
          BY <3>6
      <4> QED BY <1>0, <1>1, <3>5, <3>6, <4>1, <4>2, CarriesCut
    <3>11. app.code # 0 => Of(back', {"status"}) # {}
      <4> SUFFICES ASSUME app.code # 0 PROVE Of(back', {"status"}) # {}
          OBVIOUS
      <4>1. PICK i \in Of(back, {"status"}) : TRUE
          BY <1>1, <3>6
      <4>2. i - k \in Of(back', {"status"})
          BY <3>9, <4>1 DEF Of
      <4> QED BY <4>2
    <3>12. ASSUME NEW i \in Of(back', {"status"})
           PROVE  /\ app.code # 0
                  /\ \A j \in 1..Len(back') : j > i => back'[j].kind \in {"frame", "eof"}
      <4>1. k + i \in Of(back, {"status"}) /\ i \in Nat
          BY <3>7 DEF Of
      <4>2. ASSUME NEW j \in 1..Len(back'), j > i PROVE back'[j].kind \in {"frame", "eof"}
        <5>1. k + j \in 1..Len(back) /\ k + j > k + i /\ back'[j] = back[k + j]
            BY <3>6, <3>7, <4>1, <4>2
        <5> QED BY <1>1, <3>6, <4>1, <5>1
      <4> QED BY <1>1, <3>6, <4>1, <4>2
    <3>13. ASSUME NEW i \in Frames(back')
           PROVE  \E j \in Of(back', {"status"}) : j < i
      <4>1. k + i \in Frames(back) /\ i \in Nat
          BY <3>7 DEF Frames
      <4>2. PICK j \in Of(back, {"status"}) : j < k + i
          BY <1>1, <3>6, <4>1
      <4>3. j - k \in Of(back', {"status"}) /\ j - k < i
          BY <3>6, <3>9, <4>1, <4>2 DEF Of
      <4> QED BY <4>3
    <3> QED BY <1>1, <3>1, <3>2, <3>4, <3>6, <3>8, <3>10, <3>11, <3>12, <3>13 DEF HeadComes
  <2>5. CASE BeginPlain \/ ReachApp \/ (RelayHead /\ ~Left) \/ RelayBody
      BY <2>5, Goings DEF Upgrading
  <2>6. CASE \/ SwitchProtocols \/ Handover \/ PassLeftover
             \/ (CopyDown /\ Copied("down", Head(back))) \/ (CopyUp /\ Copied("up", Head(up)))
      BY <2>6, Goings DEF Upgrading
  <2> QED BY <1>4, <2>1, <2>2, <2>3, <2>4, <2>5, <2>6 DEF GoesOn
<1>5. CASE Settled'
    BY <1>5 DEF Settled, Upgrading
<1> QED BY <1>2, <1>3, <1>4, <1>5, Steps

LEMMA Shifts ==
    ASSUME NEW l \in Nat, NEW n \in Nat, NEW k \in 1..n, NEW h \in 1..k
    PROVE  /\ l + h \in 0..l + k /\ (l + k) - (l + h) = k - h /\ h \in 1..n
           /\ \A i \in 1..k - h : /\ (l + h) + i \in 1..l + k /\ ~((l + h) + i <= l)
                                 /\ ((l + h) + i) - l = h + i
           /\ \A i \in 1..n - h : ~(i <= k - h) => i - (k - h) \in 1..n - k
                                                /\ k + (i - (k - h)) = h + i
           /\ \A i \in 1..n - h : i <= k - h => i \in 1..k - h
           /\ (k - h) + (n - k) = n - h
OBVIOUS

\* A tunnel begins with the frames that came with the head, and those to come:
\* together all that is on the wire after the status.
LEMMA Switches ==
    ASSUME Typed, HeadComes, service.at = "reading", NEW buf, Reads(buf), HeadEnd(buf) # 0,
           service' = [service EXCEPT !.at = "handover",
                                      !.rest = SubSeq(buf, HeadEnd(buf) + 1, Len(buf))]
    PROVE  \E h \in 1..Len(back) :
              /\ back[h].kind = "status"
              /\ service'.rest \in Seq(BackPiece) /\ back' \in Seq(BackPiece)
              /\ Only(service'.rest, {"frame"}) /\ Only(back', {"frame", "eof"})
              /\ service'.rest \o back' = SubSeq(back, h + 1, Len(back))
<1>1. PICK k \in 1..Len(back) :
         /\ \A i \in 1..k : back[i] # Eof
         /\ buf \in Seq(BackPiece) /\ Len(buf) = Len(service.rest) + k
         /\ \A i \in 1..Len(buf) : buf[i] = IF i <= Len(service.rest) THEN service.rest[i]
                                            ELSE back[i - Len(service.rest)]
         /\ back' \in Seq(BackPiece) /\ Len(back') = Len(back) - k
         /\ \A i \in 1..Len(back') : back'[i] = back[k + i]
    BY ReadTakes
<1>2. /\ Len(back) \in Nat /\ Len(service.rest) \in Nat /\ k \in Nat /\ k <= Len(back)
      /\ back \in Seq(BackPiece) /\ service \in ServiceState
    BY TypedWires, LenProperties DEF Typed
<1>3. /\ Only(service.rest, {"part"})
      /\ \A i \in Of(back, {"status"}) :
            \A j \in 1..Len(back) : j > i => back[j].kind \in {"frame", "eof"}
    BY DEF HeadComes, Upgrading
<1> DEFINE e == HeadEnd(buf)
           x == SubSeq(buf, e + 1, Len(buf))
<1>4. e \in 1..Len(buf) /\ buf[e].kind = "status"
  <2>1. Of(buf, {"status"}) # {} /\ e \in Of(buf, {"status"}) /\ e \in 1..Len(buf)
      BY <1>1, HeadEnds
  <2> QED BY <2>1 DEF Of
<1>5. service'.rest = x
    BY <1>2 DEF ServiceState
<1> HIDE DEF e
<1>6. e > Len(service.rest)
  <2>1. ASSUME e <= Len(service.rest) PROVE FALSE
    <3>1. buf[e] = service.rest[e] /\ e \in 1..Len(service.rest)
        BY <1>1, <1>2, <1>4, <2>1
    <3> QED BY <1>3, <1>4, <3>1 DEF Only
  <2> QED BY <1>2, <1>4, <2>1
<1>7. PICK h \in 1..k : e = Len(service.rest) + h
  <2>1. e - Len(service.rest) \in 1..k /\ e = Len(service.rest) + (e - Len(service.rest))
      BY <1>1, <1>2, <1>4, <1>6
  <2> QED BY <2>1
<1> DEFINE l == Len(service.rest)
           n == Len(back)
<1>8. l \in Nat /\ n \in Nat /\ Len(buf) = l + k /\ e = l + h
    BY <1>1, <1>2, <1>7
<1>9. /\ e \in 0..Len(buf) /\ Len(buf) - e = k - h /\ h \in 1..n /\ h \in 0..n
      /\ \A i \in 1..k - h : e + i \in 1..Len(buf) /\ ~(e + i <= l) /\ (e + i) - l = h + i
      /\ \A i \in 1..n - h : ~(i <= k - h) => i - (k - h) \in 1..n - k
                                           /\ k + (i - (k - h)) = h + i
      /\ \A i \in 1..n - h : i <= k - h => i \in 1..k - h
      /\ (k - h) + (n - k) = n - h
  <2>1. k \in 1..n
      OBVIOUS
  <2> HIDE DEF l, n
  <2>2. h \in 1..n => h \in 0..n
      BY <1>8
  <2>3. /\ l + h \in 0..l + k /\ (l + k) - (l + h) = k - h /\ h \in 1..n
        /\ \A i \in 1..k - h : /\ (l + h) + i \in 1..l + k /\ ~((l + h) + i <= l)
                              /\ ((l + h) + i) - l = h + i
        /\ \A i \in 1..n - h : ~(i <= k - h) => i - (k - h) \in 1..n - k
                                             /\ k + (i - (k - h)) = h + i
        /\ \A i \in 1..n - h : i <= k - h => i \in 1..k - h
        /\ (k - h) + (n - k) = n - h
      BY <1>8, <2>1, Shifts
  <2> QED BY <1>8, <2>2, <2>3
<1>10. back[h] = buf[e]
    BY <1>1, <1>2, <1>4, <1>6, <1>7
<1>11. \A j \in 1..Len(back) : j > h => back[j].kind \in {"frame", "eof"}
    BY <1>3, <1>4, <1>9, <1>10 DEF Of
<1>12. /\ x \in Seq(BackPiece) /\ Len(x) = k - h
       /\ \A i \in 1..k - h : x[i] = back[h + i]
  <2>1. /\ x \in Seq(BackPiece) /\ Len(x) = Len(buf) - e
        /\ \A i \in 1..Len(buf) - e : x[i] = buf[e + i]
      BY <1>1, <1>9, Cuts
  <2> HIDE DEF x
  <2>2. \A i \in 1..k - h : buf[e + i] = back[h + i]
      BY <1>1, <1>9
  <2> QED BY <1>9, <2>1, <2>2
<1> HIDE DEF x
<1>13. ASSUME NEW i \in 1..Len(x) PROVE x[i].kind = "frame"
  <2>1. h + i \in 1..k /\ h + i > h /\ h + i \in 1..Len(back) /\ x[i] = back[h + i]
      BY <1>2, <1>7, <1>12, <1>13
  <2>2. x[i].kind \in {"frame", "eof"} /\ x[i] # Eof /\ x[i] \in BackPiece
      BY <1>1, <1>2, <1>11, <2>1, ElementOfSeq
  <2>3. x[i].kind = "eof" => x[i] \in [kind : {"part", "end", "eof"}, n : {0}]
      BY <2>2 DEF BackPiece, FramePiece
  <2>4. x[i].kind = "eof" => x[i] = [kind |-> "eof", n |-> 0]
      BY <2>3
  <2> QED BY <2>2, <2>4 DEF Eof, Piece
<1>14. ASSUME NEW i \in 1..Len(back') PROVE back'[i].kind \in {"frame", "eof"}
  <2>1. k + i \in 1..Len(back) /\ k + i > h /\ back'[i] = back[k + i]
      BY <1>1, <1>2, <1>7, <1>14
  <2> QED BY <1>11, <2>1
<1>15. x \o back' = SubSeq(back, h + 1, Len(back))
  <2> DEFINE y == SubSeq(back, h + 1, Len(back))
             z == x \o back'
  <2>1. /\ y \in Seq(BackPiece) /\ Len(y) = n - h
        /\ \A i \in 1..n - h : y[i] = back[h + i]
      BY <1>2, <1>9, Cuts
  <2>2. /\ z \in Seq(BackPiece) /\ Len(z) = Len(x) + Len(back')
        /\ \A i \in 1..Len(x) + Len(back') : z[i] = IF i <= Len(x) THEN x[i] ELSE back'[i - Len(x)]
    <3>1. \A u, v \in Seq(BackPiece) :
             /\ u \o v \in Seq(BackPiece) /\ Len(u \o v) = Len(u) + Len(v)
             /\ \A i \in 1..Len(u) + Len(v) : (u \o v)[i] = IF i <= Len(u) THEN u[i] ELSE v[i - Len(u)]
        BY ConcatProperties
    <3> QED BY <1>1, <1>12, <3>1
  <2> HIDE DEF y, z, n
  <2>3. Len(back') = n - k /\ \A i \in 1..n - k : back'[i] = back[k + i]
      BY <1>1 DEF n
  <2>4. Len(z) = n - h
      BY <1>9, <1>12, <2>2, <2>3
  <2>5. ASSUME NEW i \in 1..n - h PROVE z[i] = y[i]
    <3>1. z[i] = IF i <= k - h THEN x[i] ELSE back'[i - (k - h)]
        BY <1>9, <1>12, <2>2, <2>3
    <3>2. CASE i <= k - h
        BY <1>9, <1>12, <2>1, <3>1, <3>2
    <3>3. CASE ~(i <= k - h)
      <4>1. back'[i - (k - h)] = back[h + i]
          BY <1>9, <2>3, <3>3
      <4> QED BY <2>1, <3>1, <3>3, <4>1
    <3> QED BY <3>2, <3>3
  <2>6. z = y
      BY <2>1, <2>2, <2>4, <2>5, SeqEqual
  <2> QED BY <2>6 DEF y, z
<1>16. Only(x, {"frame"}) /\ Only(back', {"frame", "eof"})
    BY <1>13, <1>14 DEF Only
<1> QED BY <1>1, <1>4, <1>5, <1>9, <1>10, <1>12, <1>15, <1>16

LEMMA StepHeadCame ==
    ASSUME Typed, Upgraded, HeadComes, HeadCame, [Next]_vars
    PROVE  HeadCame'
<1> USE DEF stream, upstream, vars
<1>0. /\ service \in ServiceState /\ app \in AppState
      /\ up \in Seq(Pieces) /\ out \in Seq(Pieces) /\ back \in Seq(Pieces)
    BY TypedWires DEF Typed
<1> SUFFICES ASSUME service'.at \in Tunneling
             PROVE  HeadCame'
    BY DEF HeadCame
<1>1. service.at \in Tunneling =>
         app.code # 0 /\ Only(service.rest, {"frame"}) /\ Only(back, {"frame", "eof"})
    BY DEF HeadCame
<1>2. CASE Device \/ Tick \/ UNCHANGED vars
  <2>1. UNCHANGED <<app, back>> /\ service'.at = service.at /\ service'.rest = service.rest
      BY <1>0, <1>2 DEF Device, Ask, SendBody, SendFrame, Finish, Leave, Hear, Tick, ServiceState
  <2> QED BY <1>1, <2>1 DEF HeadCame, Only
<1>3. CASE App
  <2>1. service' = service /\ service.at \in Tunneling
      BY <1>3 DEF App, AppReads, AppBegins, AppAnswers, AppSends, AppEnds, AppCloses
  <2>2. app.ask # "plain"
      BY <2>1 DEF Upgraded
  <2>3. CASE AppReads
      BY <1>0, <1>1, <2>1, <2>3 DEF AppReads, HeadCame, AppState
  <2>4. CASE AppBegins \/ AppAnswers \/ AppEnds
      BY <1>1, <2>1, <2>2, <2>4 DEF AppBegins, AppAnswers, AppEnds, Begun
  <2>5. CASE AppSends \/ AppCloses
    <3>1. app'.code = app.code
        BY <1>0, <2>5 DEF AppSends, AppCloses, AppState
    <3>2. PICK p \in Pieces : back' = Append(back, p) /\ p.kind \in {"frame", "eof"}
      <4>1. CASE AppSends
        <5>1. app.sent + 1 \in Nat /\ back' = Append(back, Frame(app.sent + 1))
            BY <1>0, <4>1 DEF AppSends, AppState
        <5> QED BY <5>1, PieceKinds
      <4>2. CASE AppCloses
          BY <4>2, PieceKinds DEF AppCloses
      <4> QED BY <2>5, <4>1, <4>2
    <3>3. Only(back', {"frame", "eof"})
        BY <1>0, <1>1, <2>1, <3>2, OfAppended
    <3> QED BY <1>1, <2>1, <3>1, <3>3 DEF HeadCame
  <2> QED BY <1>3, <2>3, <2>4, <2>5 DEF App
<1>4. CASE GoesOn
  <2>1. CASE SwitchProtocols
    <3>1. PICK buf \in Bufs :
             /\ Reads(buf) /\ HeadEnd(buf) # 0
             /\ service' = [service EXCEPT !.at = "handover",
                                           !.rest = SubSeq(buf, HeadEnd(buf) + 1, Len(buf))]
        BY <2>1 DEF SwitchProtocols
    <3>2. service.at = "reading" /\ app' = app
        BY <2>1, Goings DEF SwitchProtocols
    <3>3. PICK h \in 1..Len(back) :
             /\ back[h].kind = "status"
             /\ Only(service'.rest, {"frame"}) /\ Only(back', {"frame", "eof"})
        BY <3>1, <3>2, Switches
    <3>4. app.code # 0
        BY <3>2, <3>3 DEF HeadComes, Upgrading, Of
    <3> QED BY <3>2, <3>3, <3>4 DEF HeadCame
  <2>2. CASE Handover \/ PassLeftover
    <3>1. /\ service.at \in Tunneling /\ UNCHANGED <<app, back>>
          /\ service'.rest = service.rest \/ service'.rest = <<>>
        BY <2>2, Goings DEF Handover, PassLeftover, Tunneling
    <3>2. Only(service'.rest, {"frame"})
        BY <1>1, <3>1 DEF Only
    <3> QED BY <1>1, <3>1, <3>2 DEF HeadCame, Only
  <2>3. CASE CopyDown /\ Copied("down", Head(back)) /\ back' = Tail(back) /\ UNCHANGED <<app, out>>
    <3>1. service.at \in Tunneling /\ service'.rest = service.rest /\ back # <<>>
        BY <2>3, Goings DEF Tunneling, CopyDown
    <3>2. Only(back', {"frame", "eof"})
        BY <1>0, <1>1, <2>3, <3>1, OfTailed
    <3> QED BY <1>1, <2>3, <3>1, <3>2 DEF HeadCame
  <2>4. CASE CopyUp /\ Copied("up", Head(up)) /\ UNCHANGED <<app, down, back>>
    <3>1. service.at \in Tunneling /\ service'.rest = service.rest
        BY <2>4, Goings DEF Tunneling
    <3> QED BY <1>1, <2>4, <3>1 DEF HeadCame, Only
  <2>5. CASE \/ BeginPlain \/ BeginUpgrade \/ ReachApp \/ (RelayHead /\ ~Left) \/ RelayBody
             \/ (ConnectUpgrade /\ Goes("asking")) \/ (AskUpgrade /\ Goes("reading")) \/ ReadMore
      BY <2>5, Goings DEF Tunneling
  <2> QED BY <1>4, <2>1, <2>2, <2>3, <2>4, <2>5 DEF GoesOn
<1>5. CASE Settled'
    BY <1>5 DEF Settled, Tunneling
<1> QED BY <1>2, <1>3, <1>4, <1>5, Steps

LEMMA StepAppInv ==
    ASSUME Typed, AppInv, TunnelInv, [Next]_vars
    PROVE  AppInv'
<1>1. ~Left /\ service.at \in Tunneling => Only(up, {"frame", "eof"})
    BY DEF TunnelInv, Whole
<1>2. Service' /\ Plain' /\ HeadComes' /\ HeadCame'
    BY StepService, StepPlain, StepHeadComes, StepHeadCame DEF AppInv
<1>3. Upgraded'
    BY <1>1, StepUpgraded DEF AppInv
<1> QED BY <1>2, <1>3 DEF AppInv

----------------------------------------------------------------------------
(* The device                                                              *)

\* The app's inner moments of a request; nothing goes to the device.
Inner == {"requesting", "connecting", "asking", "reading"}

Begins == BeginRename \/ BeginPlain \/ BeginUpgrade

\* A response other than 101, to a request that comes, at the body of one, or
\* to one that is handled.
Responds(code) ==
    /\ Answers(code)
    /\ \/ \E a \in {"hub", "plain", "upgrade"} : Takes(a)
       \/ service.at = "collecting" /\ Comes(up, "body") /\ up' = Tail(up)
       \/ service.at \in Inner /\ up' = up

\* What the device may yet hear of a stream that has ended.
Ends ==
    /\ service'.at = "closed"
    /\ \/ down' = down
       \/ down' = Append(down, Eof)
       \/ down' = down \o <<Status(400), End, Eof>>

\* What the steps of the others are for the device.
LEMMA Others ==
    ASSUME Typed, [Next]_vars
    PROVE  \/ Device
           \/ /\ client' = client
              /\ up' = up \/ (up # <<>> /\ up' = Tail(up))
              /\ \/ /\ service'.at = service.at \/ (service.at \in Inner /\ service'.at \in Inner)
                    /\ UNCHANGED <<up, down>>
                 \/ Begins
                 \/ \E code \in 100..999 \ {101} : Responds(code)
                 \/ RelayHead /\ ~Left
                 \/ RelayBody
                 \/ Ends
                 \/ SwitchProtocols /\ service.at = "reading" /\ service'.at \in Tunneling
                 \/ ~Left /\ service.at \in Tunneling /\ service'.at \in Tunneling
<1> USE DEF stream, upstream, vars
<1>0. service \in ServiceState
    BY DEF Typed
<1>1. CASE App \/ Tick \/ UNCHANGED vars
  <2>1. UNCHANGED <<client, up, down>> /\ service'.at = service.at
      BY <1>0, <1>1 DEF Tick, ServiceState,
                        App, AppReads, AppBegins, AppAnswers, AppSends, AppEnds, AppCloses
  <2> QED BY <2>1
<1>2. Closes => Ends
    BY Closed DEF Ends
<1>3. CASE Serve
  <2>1. client' = client
      BY <1>3 DEF Serve, AnswerHub, BeginRename, Rename, RefuseRename, AnswerUnknownApp,
                  BeginPlain, BeginUpgrade, EndRequests, LoseClient
  <2>2. up' = up \/ (up # <<>> /\ up' = Tail(up))
      BY <1>3 DEF Serve, AnswerHub, BeginRename, Rename, RefuseRename, AnswerUnknownApp,
                  BeginPlain, BeginUpgrade, EndRequests, LoseClient, Takes, Comes
  <2>3. CASE AnswerHub
    <3>1. \E code \in 100..999 \ {101} : Answers(code)
        BY <2>3 DEF AnswerHub, HubCodes
    <3>2. Takes("hub")
        BY <2>3 DEF AnswerHub
    <3>3. \E code \in 100..999 \ {101} : Responds(code)
        BY <3>1, <3>2 DEF Responds
    <3> QED BY <2>1, <2>2, <3>3
  <2>4. CASE AnswerUnknownApp
    <3>1. 404 \in 100..999 \ {101} /\ Answers(404)
        BY <2>4 DEF AnswerUnknownApp
    <3> QED BY <2>1, <2>2, <2>4, <3>1 DEF AnswerUnknownApp, Responds
  <2>5. CASE Rename
    <3>1. \E code \in 100..999 \ {101} : Answers(code)
        BY <2>5 DEF Rename
    <3> QED BY <2>1, <2>2, <2>5, <3>1 DEF Rename, Responds
  <2>6. CASE RefuseRename
      BY <1>0, <2>1, <2>2, <2>6 DEF RefuseRename, ServiceState, Ends
  <2>7. CASE EndRequests \/ LoseClient
      BY <1>2, <2>1, <2>2, <2>7 DEF EndRequests, LoseClient
  <2>8. CASE BeginRename \/ BeginPlain \/ BeginUpgrade
      BY <2>1, <2>2, <2>8 DEF Begins
  <2> QED BY <1>3, <2>3, <2>4, <2>5, <2>6, <2>7, <2>8 DEF Serve
<1>4. CASE Proxy
  <2>1. client' = client /\ up' = up
      BY <1>4 DEF Proxy, ReachApp, CannotReach, TimeOut, RelayHead, RelayBody, BreakBody
  <2>2. CASE ReachApp
      BY <2>1, <2>2 DEF ReachApp
  <2>3. CASE CannotReach \/ TimeOut
    <3>1. \E code \in 100..999 \ {101} : Answers(code)
        BY <2>3 DEF CannotReach, TimeOut
    <3>2. service.at \in Inner
        BY <2>3 DEF CannotReach, TimeOut, Inner
    <3> QED BY <2>1, <3>1, <3>2 DEF Responds
  <2>4. CASE RelayHead
      BY <1>2, <2>1, <2>4 DEF RelayHead
  <2>5. CASE RelayBody
      BY <2>1, <2>5
  <2>6. CASE BreakBody
      BY <1>2, <2>1, <2>6 DEF BreakBody
  <2> QED BY <1>4, <2>2, <2>3, <2>4, <2>5, <2>6 DEF Proxy
<1>5. CASE Upgrade
  <2>1. client' = client /\ up' = up
      BY <1>5 DEF Upgrade, ConnectUpgrade, AskUpgrade, ReadMore, RefuseOversized, RefuseClosed,
                  RefuseUpgrade, SwitchProtocols, SwitchTooLate
  <2>2. CASE ConnectUpgrade
    <3>1. Closes \/ (Goes("asking") /\ UNCHANGED down)
        BY <2>2 DEF ConnectUpgrade
    <3>2. Goes("asking") => service.at \in Inner /\ service'.at \in Inner
        BY <2>2, Goings DEF Inner
    <3> QED BY <1>2, <2>1, <3>1, <3>2
  <2>3. CASE AskUpgrade
    <3>1. Closes \/ (Goes("reading") /\ UNCHANGED down)
        BY <2>3 DEF AskUpgrade
    <3>2. Goes("reading") => service.at \in Inner /\ service'.at \in Inner
        BY <2>3, Goings DEF Inner
    <3> QED BY <1>2, <2>1, <3>1, <3>2
  <2>4. CASE ReadMore
    <3>1. UNCHANGED down
        BY <2>4 DEF ReadMore
    <3> QED BY <2>1, <2>4, <3>1, Goings
  <2>5. CASE RefuseOversized \/ RefuseClosed \/ RefuseUpgrade \/ SwitchTooLate
    <3>1. service.at \in Inner
        BY <2>5 DEF RefuseOversized, RefuseClosed, RefuseUpgrade, SwitchTooLate, Inner
    <3>2. Closes \/ \E code \in 100..999 \ {101} : Answers(code)
      <4>1. \A n : StatusOf(n) \in 100..999
          BY DEF StatusOf
      <4>2. CASE RefuseOversized
          BY <4>2 DEF RefuseOversized
      <4>3. CASE RefuseClosed
          BY <4>3 DEF RefuseClosed
      <4>4. CASE RefuseUpgrade
          BY <4>1, <4>4, ZenonT(30) DEF RefuseUpgrade
      <4>5. CASE SwitchTooLate
          BY <4>5 DEF SwitchTooLate
      <4> QED BY <2>5, <4>2, <4>3, <4>4, <4>5
    <3> QED BY <1>2, <2>1, <3>1, <3>2 DEF Responds
  <2>6. CASE SwitchProtocols
      BY <2>1, <2>6, Goings DEF Tunneling
  <2> QED BY <1>5, <2>2, <2>3, <2>4, <2>5, <2>6 DEF Upgrade
<1>6. CASE Tunnel
  <2>1. client' = client
      BY <1>6 DEF Tunnel, Handover, PassLeftover, CopyDown, CopyUp, EndTunnel
  <2>2. up' = up \/ (up # <<>> /\ up' = Tail(up))
      BY <1>6 DEF Tunnel, Handover, PassLeftover, CopyDown, CopyUp, EndTunnel
  <2>3. CASE Handover \/ PassLeftover
      BY <2>1, <2>2, <2>3, Goings DEF Tunneling, Handover, PassLeftover
  <2>4. CASE CopyDown
    <3>1. Closes \/ Copied("down", Head(back))
        BY <2>4 DEF CopyDown
    <3> QED BY <1>2, <2>1, <2>2, <2>4, <3>1, Goings DEF Tunneling, CopyDown
  <2>5. CASE CopyUp
    <3>1. Closes \/ Copied("up", Head(up))
        BY <2>5 DEF CopyUp
    <3> QED BY <1>2, <2>1, <2>2, <2>5, <3>1, Goings DEF Tunneling, CopyUp
  <2>6. CASE EndTunnel
      BY <1>0, <2>1, <2>2, <2>6 DEF EndTunnel, Goes, ServiceState, Ends
  <2> QED BY <1>6, <2>3, <2>4, <2>5, <2>6 DEF Tunnel
<1> QED BY <1>1, <1>3, <1>4, <1>5, <1>6 DEF Next

LEMMA LeftStays ==
    ASSUME Typed, [Next]_vars, Left
    PROVE  Left'
<1>1. Device => Left'
    BY DEF Device, Ask, SendBody, SendFrame, Finish, Leave, Hear, Left
<1>2. client' = client => Left'
    BY DEF Left
<1> QED BY <1>1, <1>2, Others

LEMMA StepEnding ==
    ASSUME Typed, Ending, [Next]_vars
    PROVE  Ending'
<1> USE DEF stream, upstream, vars
<1>0. client \in ClientState /\ up \in Seq(Pieces) /\ Len(up) \in Nat
    BY TypedWires, LenProperties DEF Typed
<1>1. ASSUME client' = client, up # <<>>, up' = Tail(up)
      PROVE  Ending'
  <2>1. Frames(up) = {} => Frames(up') = {}
      BY <1>0, <1>1, NoFramesTailed
  <2>2. /\ Len(up') = Len(up) - 1
        /\ \A i \in Of(up', {"eof"}) : i \in Nat /\ i + 1 \in Of(up, {"eof"})
    <3>1. /\ Len(Tail(up)) = Len(up) - 1
          /\ \A i \in Of(Tail(up), {"eof"}) : i \in Nat /\ i + 1 \in Of(up, {"eof"})
        BY <1>0, <1>1, OfTailed
    <3> QED BY <1>1, <3>1
  <2>3. client.at = "open" /\ ~Left => Of(up', {"eof"}) = {}
      BY <2>2 DEF Ending
  <2>4. ~Left => \A i \in Of(up', {"eof"}) : i = Len(up')
    <3> SUFFICES ASSUME ~Left, NEW i \in Of(up', {"eof"}) PROVE i = Len(up')
        OBVIOUS
    <3>1. i + 1 = Len(up) /\ i \in Nat
        BY <2>2 DEF Ending
    <3> QED BY <1>0, <2>2, <3>1
  <2> QED BY <1>1, <2>1, <2>3, <2>4 DEF Ending, Left
<1>2. ASSUME client' = client, up' = up
      PROVE  Ending'
    BY <1>2 DEF Ending, Left, Of, Frames
<1>3. CASE Device
  <2>1. CASE (\E a \in Asks : Ask(a)) \/ SendBody
    <3>1. PICK p \in Pieces : up' = Append(up, p) /\ p.kind # "frame" /\ p.kind # "eof"
      <4>1. CASE SendBody
          BY <4>1, PieceKinds DEF SendBody
      <4>2. ASSUME NEW a \in Asks, Ask(a)
            PROVE  up' = Append(up, Request(a)) /\ Request(a) \in Pieces
                   /\ Request(a).kind # "frame" /\ Request(a).kind # "eof"
          BY <4>2, AsksAssumption, PieceKinds DEF Ask
      <4> QED BY <2>1, <4>1, <4>2
    <3>2. /\ client.at = "open" /\ client'.at = "open" /\ client'.sent = client.sent
          /\ client'.tunnel = client.tunnel
        BY <1>0, <2>1 DEF Ask, SendBody, ClientState
    <3>3. Frames(up') = Frames(up) /\ Of(up', {"eof"}) = Of(up, {"eof"})
      <4>1. p.kind \notin {"eof"}
          BY <3>1
      <4> QED BY <1>0, <3>1, <4>1, NoFrameAppended, NoneAppended
    <3> QED BY <3>2, <3>3 DEF Ending, Left
  <2>2. CASE SendFrame
    <3>1. /\ client.at = "open" /\ client'.at = "open" /\ client'.tunnel
          /\ client.sent + 1 \in Nat /\ up' = Append(up, Frame(client.sent + 1))
        BY <1>0, <2>2 DEF SendFrame, ClientState
    <3> DEFINE p == Frame(client.sent + 1)
    <3>2. p \in Pieces /\ p.kind = "frame" /\ up' = Append(up, p)
        BY <3>1, PieceKinds
    <3> HIDE DEF p
    <3>3. Of(up', {"eof"}) = Of(up, {"eof"})
      <4>1. p.kind \notin {"eof"}
          BY <3>2
      <4> QED BY <1>0, <3>2, <4>1, NoneAppended
    <3> QED BY <3>1, <3>3 DEF Ending, Left
  <2>3. CASE Finish
    <3>1. /\ client.at = "open" /\ client'.at = "finished" /\ client'.tunnel = client.tunnel
          /\ client'.sent = client.sent /\ up' = Append(up, Eof)
        BY <1>0, <2>3 DEF Finish, ClientState
    <3>2. Of(up, {"eof"}) = {}
        BY <3>1 DEF Ending, Left
    <3>3. Of(up', {"eof"}) = {Len(up) + 1} /\ Len(up') = Len(up) + 1
        BY <1>0, <3>1, <3>2, OfAppended, PieceKinds
    <3>4. Frames(up') = Frames(up)
      <4>1. Eof \in Pieces /\ Eof.kind # "frame"
          BY PieceKinds
      <4> QED BY <1>0, <3>1, <4>1, NoFrameAppended
    <3> QED BY <3>1, <3>3, <3>4 DEF Ending
  <2>4. CASE Leave
    <3>1. client'.at = "left" /\ client'.tunnel = client.tunnel /\ client'.sent = client.sent /\ up' = <<>>
        BY <1>0, <2>4 DEF Leave, ClientState
    <3> QED BY <3>1 DEF Ending, Left, Frames
  <2>5. CASE Hear
    <3>1. /\ client'.at = client.at /\ client'.sent = client.sent /\ up' = up
          /\ client.tunnel => client'.tunnel
        BY <1>0, <2>5 DEF Hear, ClientState
    <3> QED BY <3>1 DEF Ending, Left, Of, Frames
  <2> QED BY <1>3, <2>1, <2>2, <2>3, <2>4, <2>5 DEF Device
<1> QED BY <1>1, <1>2, <1>3, Others

LEMMA OneTaken ==
    ASSUME NEW w \in Seq(Pieces), w # <<>>, NEW kinds, AtMostOne(Of(w, kinds)),
           Head(w).kind \in kinds
    PROVE  Of(Tail(w), kinds) = {} /\ Of(w, kinds) = {1}
<1>1. /\ \A i \in Of(Tail(w), kinds) : i \in Nat /\ i > 0 /\ i + 1 \in Of(w, kinds)
      /\ 1 \in Of(w, kinds)
    BY OfTailed
<1>2. \A i \in Of(w, kinds) : i = 1
    BY <1>1 DEF AtMostOne
<1>3. ASSUME NEW i \in Of(Tail(w), kinds) PROVE FALSE
  <2>1. i + 1 = 1 /\ i \in Nat /\ i > 0
      BY <1>1, <1>2
  <2> QED BY <2>1
<1> QED BY <1>1, <1>2, <1>3

LEMMA NoneTailed ==
    ASSUME NEW w \in Seq(Pieces), w # <<>>, NEW kinds
    PROVE  /\ Of(w, kinds) = {} => Of(Tail(w), kinds) = {}
           /\ AtMostOne(Of(w, kinds)) => AtMostOne(Of(Tail(w), kinds))
<1>1. \A i \in Of(Tail(w), kinds) : i \in Nat /\ i > 0 /\ i + 1 \in Of(w, kinds)
    BY OfTailed
<1>2. ASSUME AtMostOne(Of(w, kinds)), NEW i \in Of(Tail(w), kinds), NEW j \in Of(Tail(w), kinds)
      PROVE  i = j
  <2>1. i + 1 = j + 1 /\ i \in Nat /\ j \in Nat
      BY <1>1, <1>2 DEF AtMostOne
  <2> QED BY <2>1
<1> QED BY <1>1, <1>2 DEF AtMostOne

\* A request is taken: there was no other, and the device has heard nothing.
LEMMA TakesOne ==
    ASSUME Typed, Waiting, ~Left, NEW a \in {"hub", "rename", "plain", "upgrade"}, Takes(a)
    PROVE  /\ service.at = "idle" /\ up # <<>> /\ up' = Tail(up) /\ Head(up).kind = a
           /\ a \in Asks /\ Of(up, Asks) = {1} /\ Of(up', Asks) = {}
           /\ client.waits # "none" /\ down = <<>> /\ client.got = <<>>
<1>1. service.at = "idle" /\ up # <<>> /\ Head(up).kind = a /\ up' = Tail(up) /\ up \in Seq(Pieces)
    BY TypedWires DEF Takes, Comes
<1>2. a \in Asks
  <2>1. Head(up) \in UpPiece
      BY <1>1, HeadTailProperties DEF Typed
  <2> QED BY <1>1, <2>1 DEF UpPiece, FramePiece
<1>3. AtMostOne(Of(up, Asks))
    BY <1>1 DEF Waiting
<1>4. Of(up, Asks) = {1} /\ Of(up', Asks) = {}
    BY <1>1, <1>2, <1>3, OneTaken
<1>5. client.waits # "none" /\ down = <<>> /\ client.got = <<>>
    BY <1>1, <1>4 DEF Waiting
<1> QED BY <1>1, <1>2, <1>4, <1>5

LEMMA Told ==
    ASSUME Typed, ~Left, down = <<>>, NEW code \in 100..999, Answers(code)
    PROVE  /\ service'.at = "idle"
           /\ \A i \in Of(down', {"end"}) : i = Len(down')
<1>1. service'.at = "idle" /\ down' = Append(Append(down, Status(code)), End)
    BY Answered
<1> DEFINE p == Status(code)
<1>2. down \in Seq(Pieces) /\ p \in Pieces /\ p.kind = "status" /\ End \in Pieces /\ End.kind = "end"
      /\ Len(down) = 0
  <2>1. code \in Nat
      OBVIOUS
  <2> QED BY <2>1, TypedWires, PieceKinds
<1>3. Of(down, {"end"}) = {}
    BY <1>2 DEF Of
<1> HIDE DEF p
<1>4. Append(down, p) \in Seq(Pieces) /\ Of(Append(down, p), {"end"}) = {} /\ Len(Append(down, p)) = 1
  <2>1. p.kind \notin {"end"}
      BY <1>2
  <2>2. Of(Append(down, p), {"end"}) = {}
      BY <1>2, <1>3, <2>1, NoneAppended
  <2> QED BY <1>2, <2>2, Appended
<1>5. \A i \in Of(Append(Append(down, p), End), {"end"}) : i = 2 /\ Len(Append(Append(down, p), End)) = 2
  <2> DEFINE w == Append(down, p)
  <2>1. w \in Seq(Pieces) /\ Of(w, {"end"}) = {} /\ Len(w) = 1
      BY <1>4
  <2> HIDE DEF w
  <2>2. /\ Of(Append(w, End), {"end"})
             = Of(w, {"end"}) \cup (IF End.kind \in {"end"} THEN {Len(w) + 1} ELSE {})
        /\ Len(Append(w, End)) = Len(w) + 1
      BY <1>2, <2>1, OfAppended
  <2>3. \A i \in Of(Append(w, End), {"end"}) : i = 2 /\ Len(Append(w, End)) = 2
      BY <2>1, <2>2
  <2> QED BY <2>3 DEF w
<1> QED BY <1>1, <1>5 DEF p

LEMMA StepWaiting ==
    ASSUME Typed, Waiting, Handled, Flows, [Next]_vars
    PROVE  Waiting'
<1> USE DEF stream, upstream, vars
<1>0. /\ client \in ClientState /\ up \in Seq(Pieces) /\ down \in Seq(Pieces)
      /\ Len(down) \in Nat
    BY TypedWires, LenProperties DEF Typed
<1> SUFFICES ASSUME ~Left', service'.at = "idle"
             PROVE  Waiting'
    BY DEF Waiting
<1>1. ~Left
    BY LeftStays
<1>2. service.at = "idle" =>
         /\ \A i \in Of(down, {"end"}) : i = Len(down)
         /\ client.waits = "none" => down = <<>> /\ Of(up, Asks) = {}
         /\ AtMostOne(Of(up, Asks))
         /\ Of(up, Asks) # {} => down = <<>> /\ client.got = <<>>
    BY <1>1 DEF Waiting
<1>3. service.at \in Handling =>
         /\ client.waits # "none" /\ Of(up, Asks) = {}
         /\ service.at # "relaying" => down = <<>> /\ client.got = <<>>
         /\ Only(down, {"status", "frame"})
    BY <1>1 DEF Handled
<1>4. CASE Device
  <2>0. service' = service /\ service.at = "idle"
      BY <1>4 DEF Device, Ask, SendBody, SendFrame, Finish, Leave, Hear
  <2>1. ASSUME NEW a \in Asks, Ask(a)
        PROVE  Waiting'
    <3>1. /\ client.waits = "none" /\ client'.waits # "none" /\ client'.got = <<>>
          /\ up' = Append(up, Request(a)) /\ down' = down
        BY <1>0, <2>1 DEF Ask, ClientState
    <3>2. down = <<>> /\ Of(up, Asks) = {}
        BY <1>2, <2>0, <3>1
    <3>3. Request(a) \in Pieces /\ Request(a).kind \in Asks
        BY <2>1, PieceKinds
    <3>4. Of(up', Asks) = {Len(up) + 1}
      <4>1. Of(Append(up, Request(a)), Asks) = Of(up, Asks) \cup {Len(up) + 1}
          BY <1>0, <3>3, OfAppended
      <4> QED BY <3>1, <3>2, <4>1
    <3> QED BY <1>2, <2>0, <3>1, <3>2, <3>4 DEF Waiting, AtMostOne
  <2>2. CASE SendBody \/ SendFrame \/ Finish
    <3>1. PICK p \in Pieces : up' = Append(up, p) /\ p.kind \in {"body", "frame", "eof"}
      <4>1. CASE SendBody \/ Finish
          BY <4>1, PieceKinds DEF SendBody, Finish
      <4>2. CASE SendFrame
        <5>1. client.sent + 1 \in Nat /\ up' = Append(up, Frame(client.sent + 1))
            BY <1>0, <4>2 DEF SendFrame, ClientState
        <5> QED BY <5>1, PieceKinds
      <4> QED BY <2>2, <4>1, <4>2
    <3>2. /\ client'.got = client.got /\ down' = down
          /\ client'.waits = "none" => client.waits = "none"
        BY <1>0, <2>2 DEF SendBody, SendFrame, Finish, ClientState
    <3>3. Of(up', Asks) = Of(up, Asks)
      <4>1. p.kind \notin Asks
          BY <3>1, AsksAssumption
      <4> QED BY <1>0, <3>1, <4>1, NoneAppended
    <3> QED BY <1>2, <2>0, <3>2, <3>3 DEF Waiting, Of
  <2>3. CASE Leave
      BY <1>0, <2>3 DEF Leave, Left, ClientState
  <2>4. CASE Hear
    <3>1. /\ down # <<>> /\ down' = Tail(down) /\ up' = up
          /\ client'.waits = IF Head(down) \in {Status(101), End} THEN "none" ELSE client.waits
        BY <1>0, <2>4 DEF Hear, ClientState
    <3>2. Of(up, Asks) = {} /\ client.waits # "none"
        BY <1>2, <2>0, <3>1
    <3>3. /\ Len(down') = Len(down) - 1
          /\ \A i \in Of(down', {"end"}) : i \in Nat /\ i > 0 /\ i + 1 \in Of(down, {"end"})
      <4>1. /\ Len(Tail(down)) = Len(down) - 1
            /\ \A i \in Of(Tail(down), {"end"}) : i \in Nat /\ i > 0 /\ i + 1 \in Of(down, {"end"})
          BY <1>0, <3>1, OfTailed
      <4> QED BY <3>1, <4>1
    <3>4. ASSUME NEW i \in Of(down', {"end"}) PROVE i = Len(down')
      <4>1. i + 1 = Len(down) /\ i \in Nat
          BY <1>2, <2>0, <3>3
      <4> QED BY <1>0, <3>3, <4>1
    <3>5. client'.waits = "none" => down' = <<>>
      <4> SUFFICES ASSUME client'.waits = "none" PROVE down' = <<>>
          OBVIOUS
      <4>1. Head(down) # Status(101)
        <5>1. ~Has(down, Status(101))
            BY <2>0 DEF Flows, Switched, Tunneling
        <5>2. Head(down) = down[1] /\ 1 \in 1..Len(down)
            BY <1>0, <3>1, Tailed
        <5> QED BY <5>1, <5>2 DEF Has
      <4>2. Head(down) = End
          BY <3>1, <3>2, <4>1
      <4>3. 1 \in Of(down, {"end"})
        <5>1. Head(down).kind \in {"end"}
            BY <4>2, PieceKinds
        <5> QED BY <1>0, <3>1, <5>1, OfTailed
      <4>4. Len(down) = 1
          BY <1>2, <2>0, <4>3
      <4>5. Tail(down) \in Seq(Pieces) /\ Len(Tail(down)) = 0
          BY <1>0, <3>1, <4>4, Tailed
      <4> QED BY <3>1, <4>5, EmptySeq
    <3> QED BY <3>1, <3>2, <3>4, <3>5 DEF Waiting, AtMostOne
  <2> QED BY <1>4, <2>1, <2>2, <2>3, <2>4 DEF Device
<1>5. CASE client' = client /\ UNCHANGED <<up, down>> /\ service.at = "idle"
    BY <1>2, <1>5 DEF Waiting, Of
<1>6. ASSUME client' = client, NEW code \in 100..999, Responds(code)
      PROVE  Waiting'
  <2>1. Answers(code)
      BY <1>6 DEF Responds
  <2>2. down = <<>> /\ client.waits # "none" /\ Of(up', Asks) = {}
    <3>1. CASE \E a \in {"hub", "plain", "upgrade"} : Takes(a)
        BY <1>1, <3>1, TakesOne
    <3>2. CASE service.at = "collecting" /\ Comes(up, "body") /\ up' = Tail(up)
      <4>1. up # <<>> /\ service.at \in Handling /\ service.at # "relaying"
          BY <3>2 DEF Comes, Handling
      <4> QED BY <1>0, <1>3, <3>2, <4>1, NoneTailed
    <3>3. CASE service.at \in Inner /\ up' = up
      <4>1. service.at \in Handling /\ service.at # "relaying"
          BY <3>3 DEF Inner, Handling, Upgrading
      <4> QED BY <1>3, <3>3, <4>1
    <3> QED BY <1>6, <3>1, <3>2, <3>3 DEF Responds
  <2>3. \A i \in Of(down', {"end"}) : i = Len(down')
      BY <1>1, <2>1, <2>2, Told, ZenonT(30)
  <2> QED BY <1>6, <2>2, <2>3 DEF Waiting, AtMostOne
<1>7. CASE client' = client /\ RelayBody
  <2>1. service.at = "relaying" /\ back # <<>> /\ down' = Append(down, Head(back)) /\ up' = up
      BY <1>7 DEF RelayBody, Comes
  <2>2. Head(back) \in Pieces
      BY <2>1, TypedWires, Tailed
  <2>3. /\ client.waits # "none" /\ Of(up, Asks) = {} /\ Only(down, {"status", "frame"})
      BY <1>3, <2>1 DEF Handling
  <2>4. Of(down, {"end"}) = {}
      BY <2>3 DEF Of, Only
  <2>5. \A i \in Of(down', {"end"}) : i = Len(down')
    <3>1. /\ Len(Append(down, Head(back))) = Len(down) + 1
          /\ Of(Append(down, Head(back)), {"end"})
               = Of(down, {"end"}) \cup (IF Head(back).kind \in {"end"} THEN {Len(down) + 1} ELSE {})
        BY <1>0, <2>2, OfAppended
    <3> QED BY <2>1, <2>4, <3>1
  <2> QED BY <1>7, <2>1, <2>3, <2>5 DEF Waiting, AtMostOne
<1>8. Begins => service'.at # "idle"
    BY Goings DEF Begins, BeginRename, Goes, Typed, ServiceState
<1>9. /\ (RelayHead /\ ~Left) => service'.at # "idle"
      /\ service'.at \in Tunneling => service'.at # "idle"
    BY Goings DEF Tunneling
<1>10. service'.at = service.at \/ (service.at \in Inner /\ service'.at \in Inner) => service.at = "idle"
    BY DEF Inner
<1>11. CASE \E code \in 100..999 \ {101} : client' = client /\ Responds(code)
    BY <1>6, <1>11
<1> HIDE DEF stream, upstream, vars
<1> QED BY ONLY <1>4, <1>5, <1>7, <1>8, <1>9, <1>10, <1>11, Others, Typed, [Next]_vars, service'.at = "idle"
            DEF Ends

LEMMA StepHandled ==
    ASSUME Typed, Waiting, Handled, Flows, [Next]_vars
    PROVE  Handled'
<1> USE DEF stream, upstream, vars
<1>0. /\ client \in ClientState /\ up \in Seq(Pieces) /\ down \in Seq(Pieces)
      /\ back \in Seq(BackPiece)
    BY TypedWires DEF Typed
<1> SUFFICES ASSUME ~Left', service'.at \in Handling
             PROVE  Handled'
    BY DEF Handled
<1>1. ~Left
    BY LeftStays
<1>2. service.at \in Handling =>
         /\ client.waits # "none" /\ Of(up, Asks) = {}
         /\ service.at # "relaying" => down = <<>> /\ client.got = <<>>
         /\ Only(down, {"status", "frame"})
    BY <1>1 DEF Handled
<1>3. CASE Device
  <2>0. service' = service /\ service.at \in Handling
      BY <1>3 DEF Device, Ask, SendBody, SendFrame, Finish, Leave, Hear
  <2>1. ASSUME NEW a \in Asks, Ask(a)
        PROVE  FALSE
      BY <1>2, <2>0, <2>1 DEF Ask
  <2>2. CASE SendBody \/ SendFrame \/ Finish
    <3>1. PICK p \in Pieces : up' = Append(up, p) /\ p.kind \in {"body", "frame", "eof"}
      <4>1. CASE SendBody \/ Finish
          BY <4>1, PieceKinds DEF SendBody, Finish
      <4>2. CASE SendFrame
        <5>1. client.sent + 1 \in Nat /\ up' = Append(up, Frame(client.sent + 1))
            BY <1>0, <4>2 DEF SendFrame, ClientState
        <5> QED BY <5>1, PieceKinds
      <4> QED BY <2>2, <4>1, <4>2
    <3>2. /\ client'.got = client.got /\ down' = down
          /\ client'.waits = "none" => client.waits = "none"
        BY <1>0, <2>2 DEF SendBody, SendFrame, Finish, ClientState
    <3>3. Of(up', Asks) = Of(up, Asks)
      <4>1. p.kind \notin Asks
          BY <3>1, AsksAssumption
      <4> QED BY <1>0, <3>1, <4>1, NoneAppended
    <3> QED BY <1>2, <2>0, <3>2, <3>3 DEF Handled, Only
  <2>3. CASE Leave
      BY <1>0, <2>3 DEF Leave, Left, ClientState
  <2>4. CASE Hear
    <3>1. /\ down # <<>> /\ down' = Tail(down) /\ up' = up
          /\ client'.waits = IF Head(down) \in {Status(101), End} THEN "none" ELSE client.waits
        BY <1>0, <2>4 DEF Hear, ClientState
    <3>2. service.at = "relaying"
        BY <1>2, <2>0, <3>1
    <3>3. Head(down) # Status(101)
      <4>1. ~Has(down, Status(101))
          BY <3>2 DEF Flows, Switched, Tunneling
      <4>2. Head(down) = down[1] /\ 1 \in 1..Len(down)
          BY <1>0, <3>1, Tailed
      <4> QED BY <4>1, <4>2 DEF Has
    <3>4. Head(down).kind \in {"status", "frame"} /\ Only(down', {"status", "frame"})
        BY <1>0, <1>2, <2>0, <3>1, OfTailed
    <3>5. Head(down) # End
        BY <3>4, PieceKinds
    <3> QED BY <1>2, <2>0, <3>1, <3>2, <3>3, <3>4, <3>5 DEF Handled
  <2> QED BY <1>3, <2>1, <2>2, <2>3, <2>4 DEF Device
<1>4. CASE client' = client /\ UNCHANGED <<up, down>> /\ service'.at = service.at
    BY <1>2, <1>4 DEF Handled, Of, Only
<1>5. CASE client' = client /\ UNCHANGED <<up, down>> /\ service.at \in Inner /\ service'.at \in Inner
  <2>1. service.at \in Handling /\ service.at # "relaying"
      BY <1>5 DEF Inner, Handling, Upgrading
  <2> QED BY <1>2, <1>5, <2>1 DEF Handled, Of, Only
<1>6. CASE client' = client /\ Begins
  <2>1. PICK a \in {"rename", "plain", "upgrade"} : Takes(a) /\ down' = down
      BY <1>6 DEF Begins, BeginRename, BeginPlain, BeginUpgrade
  <2>2. client.waits # "none" /\ Of(up', Asks) = {} /\ down = <<>> /\ client.got = <<>>
      BY <1>1, <2>1, TakesOne
  <2>3. Only(down', {"status", "frame"})
      BY <2>1, <2>2 DEF Only
  <2> QED BY <1>6, <2>1, <2>2, <2>3 DEF Handled
<1>7. CASE client' = client /\ RelayHead
  <2>1. /\ service.at = "requesting" /\ service'.at = "relaying" /\ Comes(back, "status")
        /\ down' = Append(down, Head(back)) /\ up' = up
      BY <1>1, <1>7, Goings DEF RelayHead
  <2>2. Head(back) \in Pieces /\ Head(back).kind = "status"
      BY <2>1, TypedWires, Tailed DEF Comes
  <2>3. Only(down', {"status", "frame"})
    <3>1. Only(down, {"status", "frame"})
        BY <1>2, <2>1 DEF Handling
    <3> QED BY <1>0, <2>1, <2>2, <3>1, OfAppended
  <2> QED BY <1>2, <1>7, <2>1, <2>3 DEF Handled, Handling
<1>8. CASE client' = client /\ RelayBody
  <2>1. /\ service.at = "relaying" /\ back # <<>> /\ Head(back).kind \in {"frame", "end"}
        /\ down' = Append(down, Head(back)) /\ up' = up
        /\ Goes(IF Head(back) = End THEN "idle" ELSE "relaying")
      BY <1>8 DEF RelayBody, Comes
  <2>2. service'.at = "relaying" /\ Head(back) # End
      BY <2>1 DEF Goes, Typed, ServiceState, Handling, Upgrading
  <2>3. Head(back) \in BackPiece /\ Head(back) \in Pieces
      BY <1>0, <2>1, HeadTailProperties, Wires
  <2>4. Head(back).kind = "frame"
    <3>1. Head(back).kind = "end" => Head(back) \in [kind : {"part", "end", "eof"}, n : {0}]
        BY <2>3 DEF BackPiece, FramePiece
    <3>2. Head(back).kind = "end" => Head(back) = [kind |-> "end", n |-> 0]
        BY <3>1
    <3> QED BY <2>1, <2>2, <3>2 DEF End, Piece
  <2>5. Only(down', {"status", "frame"})
    <3>1. Only(down, {"status", "frame"})
        BY <1>2, <2>1 DEF Handling
    <3> QED BY <1>0, <2>1, <2>3, <2>4, <3>1, OfAppended
  <2> QED BY <1>2, <1>8, <2>1, <2>2, <2>5 DEF Handled, Handling
<1>9. ASSUME NEW code \in 100..999, Responds(code)
      PROVE  FALSE
  <2>1. service'.at \in {"idle", "closed"}
      BY <1>9, Answered, ZenonT(30) DEF Responds
  <2> QED BY <2>1 DEF Handling, Upgrading
<1>10. service'.at # "closed" /\ service'.at \notin Tunneling
    BY DEF Handling, Upgrading, Tunneling
<1>11. ~\E code \in 100..999 \ {101} : Responds(code)
    BY <1>9
<1> QED BY ONLY <1>3, <1>4, <1>5, <1>6, <1>7, <1>8, <1>10, <1>11, Others, Typed, [Next]_vars
            DEF Ends

LEMMA StepBodies ==
    ASSUME Typed, Waiting, Handled, Bodies, Flows, Whole, [Next]_vars
    PROVE  Bodies'
<1> USE DEF stream, upstream, vars
<1>0. client \in ClientState /\ up \in Seq(Pieces) /\ Len(up) \in Nat /\ service \in ServiceState
    BY TypedWires, LenProperties DEF Typed
<1> SUFFICES ASSUME ~Left', service'.at # "closed"
             PROVE  Bodies'
    BY DEF Bodies
<1>1. ~Left
    BY LeftStays
<1>2. service.at # "closed" =>
         /\ Of(up, {"body"}) # {} \/ client.waits = "body" => Renaming
         /\ client.waits = "body" => Of(up, {"body"}) = {}
         /\ AtMostOne(Of(up, {"body"}))
    BY <1>1 DEF Bodies
\* A request to rename is the first on the wire.
<1>3. ASSUME service.at = "idle", NEW i \in 1..Len(up), up[i].kind = "rename"
      PROVE  i \in Of(up, Asks)
  <2>1. up[i] \in UpPiece
      BY <1>3, ElementOfSeq DEF Typed
  <2>2. up[i].kind \in Asks
      BY <1>3, <2>1 DEF UpPiece, FramePiece
  <2> QED BY <2>2 DEF Of
<1>4. ASSUME service.at # "closed", ~Renaming, client' = client,
             up' = up \/ (up # <<>> /\ up' = Tail(up))
      PROVE  Bodies'
  <2>1. Of(up, {"body"}) = {} /\ client.waits # "body"
      BY <1>2, <1>4
  <2>2. Of(up', {"body"}) = {}
    <3>1. CASE up' = up
        BY <2>1, <3>1
    <3>2. CASE up # <<>> /\ up' = Tail(up)
        BY <1>0, <2>1, <3>2, NoneTailed
    <3> QED BY <1>4, <3>1, <3>2
  <2> QED BY <1>4, <2>1, <2>2 DEF Bodies, AtMostOne
<1>5. CASE Device
  <2>0. service' = service /\ service.at # "closed"
      BY <1>5 DEF Device, Ask, SendBody, SendFrame, Finish, Leave, Hear
  <2>1. ASSUME NEW p \in Pieces, up' = Append(up, p), Renaming
        PROVE  Renaming'
    <3>1. \A i \in 1..Len(up) : up'[i] = up[i] /\ i \in 1..Len(up')
        BY <1>0, <2>1, Appended
    <3> QED BY <2>0, <2>1, <3>1 DEF Renaming
  <2>2. ASSUME NEW a \in Asks, Ask(a)
        PROVE  Bodies'
    <3>1. /\ client.waits = "none" /\ ~client.tunnel /\ up' = Append(up, Request(a))
          /\ client'.waits = IF a = "rename" THEN "body" ELSE "answer"
        BY <1>0, <2>2 DEF Ask, ClientState
    <3>2. service.at = "idle"
      <4>1. service.at \notin Handling
          BY <1>1, <3>1 DEF Handled
      <4>2. service.at \notin Tunneling
          BY <1>1, <3>1 DEF Whole, Flows
      <4> QED BY <1>0, <2>0, <4>1, <4>2 DEF ServiceState
    <3>3. Of(up, Asks) = {}
        BY <1>1, <3>1, <3>2 DEF Waiting
    <3>4. ~Renaming
        BY <1>3, <3>2, <3>3 DEF Renaming
    <3>5. Of(up, {"body"}) = {}
        BY <1>2, <2>0, <3>4
    <3>6. Request(a) \in Pieces /\ Request(a).kind = a /\ a \notin {"body"}
        BY <2>2, PieceKinds, AsksAssumption
    <3>7. Of(up', {"body"}) = {}
        BY <1>0, <3>1, <3>5, <3>6, NoneAppended
    <3>8. a = "rename" => Renaming'
      <4>1. up'[Len(up) + 1] = Request(a) /\ Len(up) + 1 \in 1..Len(up')
          BY <1>0, <3>1, <3>6, Appended
      <4> QED BY <2>0, <3>2, <3>6, <4>1 DEF Renaming
    <3> QED BY <3>1, <3>7, <3>8 DEF Bodies, AtMostOne
  <2>3. CASE SendBody
    <3>1. client.waits = "body" /\ client'.waits = "answer" /\ up' = Append(up, Body)
        BY <1>0, <2>3 DEF SendBody, ClientState
    <3>2. Renaming /\ Of(up, {"body"}) = {}
        BY <1>2, <2>0, <3>1
    <3>3. Renaming'
        BY <2>1, <3>1, <3>2, PieceKinds
    <3>4. AtMostOne(Of(up', {"body"}))
      <4>1. Of(Append(up, Body), {"body"})
              = Of(up, {"body"}) \cup (IF Body.kind \in {"body"} THEN {Len(up) + 1} ELSE {})
          BY <1>0, OfAppended, PieceKinds
      <4> QED BY <3>1, <3>2, <4>1 DEF AtMostOne
    <3> QED BY <3>1, <3>3, <3>4 DEF Bodies
  <2>4. CASE SendFrame \/ Finish
    <3>1. PICK p \in Pieces : up' = Append(up, p) /\ p.kind \notin {"body"}
      <4>1. CASE Finish
          BY <4>1, PieceKinds DEF Finish
      <4>2. CASE SendFrame
        <5>1. client.sent + 1 \in Nat /\ up' = Append(up, Frame(client.sent + 1))
            BY <1>0, <4>2 DEF SendFrame, ClientState
        <5> QED BY <5>1, PieceKinds
      <4> QED BY <2>4, <4>1, <4>2
    <3>2. client'.waits = client.waits
        BY <1>0, <2>4 DEF SendFrame, Finish, ClientState
    <3>3. Of(up', {"body"}) = Of(up, {"body"})
        BY <1>0, <3>1, NoneAppended
    <3> QED BY <1>2, <2>0, <2>1, <3>1, <3>2, <3>3 DEF Bodies
  <2>5. CASE Leave
      BY <1>0, <2>5 DEF Leave, Left, ClientState
  <2>6. CASE Hear
    <3>1. up' = up /\ (client'.waits = "body" => client.waits = "body")
        BY <1>0, <2>6 DEF Hear, ClientState
    <3> QED BY <1>2, <2>0, <3>1 DEF Bodies, Renaming, Of
  <2> QED BY <1>5, <2>2, <2>3, <2>4, <2>5, <2>6 DEF Device
<1>6. CASE client' = client /\ UNCHANGED <<up, down>> /\ service'.at = service.at
    BY <1>2, <1>6 DEF Bodies, Renaming, Of
<1>7. CASE service.at \in Inner \cup Tunneling \cup {"relaying"} /\ client' = client
           /\ (up' = up \/ (up # <<>> /\ up' = Tail(up)))
    BY <1>4, <1>7 DEF Inner, Tunneling, Renaming
\* What is taken between requests is a request to rename, or there is none.
<1>8. ASSUME NEW a \in {"hub", "plain", "upgrade"}, Takes(a), client' = client
      PROVE  Bodies'
  <2>1. /\ service.at = "idle" /\ up # <<>> /\ up' = Tail(up) /\ Head(up).kind = a
        /\ Of(up, Asks) = {1} /\ Head(up) = up[1]
      BY <1>0, <1>1, <1>8, TakesOne, Tailed
  <2>2. ~Renaming
      BY <1>3, <2>1 DEF Renaming
  <2> QED BY <1>4, <1>8, <2>1, <2>2
<1>9. CASE client' = client /\ Begins
  <2>1. CASE BeginRename
    <3>1. Takes("rename") /\ service'.at = "collecting"
        BY <1>0, <2>1 DEF BeginRename, Goes, ServiceState
    <3>2. service.at = "idle" /\ up # <<>> /\ up' = Tail(up)
        BY <3>1 DEF Takes, Comes
    <3>3. /\ client.waits = "body" => Of(up', {"body"}) = {}
          /\ AtMostOne(Of(up', {"body"}))
        BY <1>0, <1>2, <3>2, NoneTailed
    <3> QED BY <1>9, <3>1, <3>3 DEF Bodies, Renaming
  <2>2. CASE BeginPlain \/ BeginUpgrade
      BY <1>8, <1>9, <2>2 DEF BeginPlain, BeginUpgrade
  <2> QED BY <1>9, <2>1, <2>2 DEF Begins
<1>10. ASSUME client' = client, NEW code \in 100..999 \ {101}, Responds(code)
       PROVE  Bodies'
  <2>1. CASE \E a \in {"hub", "plain", "upgrade"} : Takes(a)
      BY <1>8, <1>10, <2>1
  <2>2. CASE service.at = "collecting" /\ Comes(up, "body") /\ up' = Tail(up)
    <3>1. up # <<>> /\ Head(up).kind \in {"body"} /\ AtMostOne(Of(up, {"body"}))
        BY <1>2, <2>2 DEF Comes
    <3>2. Of(up', {"body"}) = {} /\ Of(up, {"body"}) # {}
      <4>1. Of(Tail(up), {"body"}) = {} /\ Of(up, {"body"}) = {1}
          BY <1>0, <3>1, OneTaken
      <4> QED BY <2>2, <4>1
    <3> QED BY <1>2, <1>10, <2>2, <3>2 DEF Bodies, AtMostOne
  <2>3. CASE service.at \in Inner /\ up' = up
      BY <1>7, <1>10, <2>3
  <2> QED BY <1>10, <2>1, <2>2, <2>3 DEF Responds
<1>11. CASE client' = client /\ (up' = up \/ (up # <<>> /\ up' = Tail(up)))
            /\ ((RelayHead /\ ~Left) \/ RelayBody)
    BY <1>7, <1>11, Goings DEF Inner
<1>12. CASE client' = client /\ (up' = up \/ (up # <<>> /\ up' = Tail(up)))
            /\ service.at \in Inner \cup Tunneling
    BY <1>7, <1>12
<1>13. service.at = "reading" => service.at \in Inner
    BY DEF Inner
<1>14. CASE client' = client /\ \E code \in 100..999 \ {101} : Responds(code)
    BY <1>10, <1>14
<1> QED BY ONLY <1>5, <1>6, <1>9, <1>11, <1>12, <1>13, <1>14, Others, Typed, [Next]_vars,
            service'.at # "closed"
            DEF Ends

LEMMA StepDeviceInv ==
    ASSUME Typed, DeviceInv, TunnelInv, [Next]_vars
    PROVE  DeviceInv'
BY StepEnding, StepWaiting, StepHandled, StepBodies DEF DeviceInv, TunnelInv

----------------------------------------------------------------------------
(* The tunnel                                                              *)

LEMMA CarriesLater ==
    ASSUME NEW w \in Seq(Pieces), w # <<>>, NEW a, NEW b, Carries(Tail(w), a, b),
           Head(w).kind # "frame"
    PROVE  Carries(w, a, b)
<1> DEFINE v == Tail(w)
<1>1. /\ Frames(w) = {i + 1 : i \in Frames(v)}
      /\ \A i \in Frames(v) : v[i] = w[i + 1] /\ i \in Nat
    BY FramesTailed
<1> HIDE DEF v
<1>2. {v[i].n : i \in Frames(v)} = {w[i].n : i \in Frames(w)}
    BY <1>1
<1>3. ASSUME NEW i \in Frames(w), NEW j \in Frames(w), i < j
      PROVE  w[i].n < w[j].n
  <2>1. PICK k \in Frames(v) : i = k + 1
      BY <1>1
  <2>2. PICK m \in Frames(v) : j = m + 1
      BY <1>1
  <2>3. k < m
      BY <1>1, <1>3, <2>1, <2>2
  <2> QED BY <1>1, <2>1, <2>2, <2>3 DEF Carries, v
<1> QED BY <1>2, <1>3 DEF Carries, v

LEMMA NoFramesJoined ==
    ASSUME NEW v \in Seq(Pieces), NEW w \in Seq(Pieces), Frames(v) = {}, Frames(w) = {}
    PROVE  Frames(v \o w) = {}
<1>1. /\ Len(v) \in Nat /\ Len(w) \in Nat /\ Len(v \o w) = Len(v) + Len(w)
      /\ \A i \in 1..Len(v) + Len(w) : (v \o w)[i] = IF i <= Len(v) THEN v[i] ELSE w[i - Len(v)]
    BY ConcatProperties, LenProperties
<1>2. ASSUME NEW i \in 1..Len(v) + Len(w), (v \o w)[i].kind = "frame"
      PROVE  FALSE
  <2>1. CASE i <= Len(v)
    <3>1. i \in 1..Len(v) /\ v[i].kind = "frame"
        BY <1>1, <1>2, <2>1
    <3> QED BY <3>1 DEF Frames
  <2>2. CASE ~(i <= Len(v))
    <3>1. i - Len(v) \in 1..Len(w) /\ w[i - Len(v)].kind = "frame"
        BY <1>1, <1>2, <2>2
    <3> QED BY <3>1 DEF Frames
  <2> QED BY <2>1, <2>2
<1> QED BY <1>1, <1>2 DEF Frames

LEMMA HasAppended ==
    ASSUME NEW w \in Seq(Pieces), NEW p \in Pieces, NEW q, Has(Append(w, p), q)
    PROVE  Has(w, q) \/ p = q
<1>1. /\ Len(Append(w, p)) = Len(w) + 1 /\ Len(w) \in Nat
      /\ \A i \in 1..Len(w) : Append(w, p)[i] = w[i]
      /\ Append(w, p)[Len(w) + 1] = p
    BY Appended
<1>2. PICK i \in 1..Len(w) + 1 : Append(w, p)[i] = q
    BY <1>1 DEF Has
<1>3. i \in 1..Len(w) \/ i = Len(w) + 1
    BY <1>1
<1> QED BY <1>1, <1>2, <1>3 DEF Has

LEMMA HasTailed ==
    ASSUME NEW w \in Seq(Pieces), w # <<>>, NEW q
    PROVE  /\ Has(Tail(w), q) => Has(w, q)
           /\ Head(w) = q => Has(w, q)
           /\ Has(w, q) => Has(Tail(w), q) \/ Head(w) = q
<1>1. /\ Len(Tail(w)) = Len(w) - 1 /\ Len(w) \in Nat \ {0}
      /\ \A i \in 1..Len(Tail(w)) : Tail(w)[i] = w[i + 1]
      /\ Head(w) = w[1]
    BY Tailed
<1>2. \A i \in 1..Len(Tail(w)) : i + 1 \in 1..Len(w)
    BY <1>1
<1>3. 1 \in 1..Len(w)
    BY <1>1
<1>4. ASSUME NEW i \in 1..Len(w), w[i] = q, i # 1 PROVE Has(Tail(w), q)
  <2>1. i - 1 \in 1..Len(Tail(w)) /\ (i - 1) + 1 = i
      BY <1>1, <1>4
  <2> QED BY <1>1, <1>4, <2>1 DEF Has
<1> QED BY <1>1, <1>2, <1>3, <1>4 DEF Has

LEMMA HasJoined ==
    ASSUME NEW v \in Seq(Pieces), NEW w \in Seq(Pieces), NEW q
    PROVE  Has(v \o w, q) <=> Has(v, q) \/ Has(w, q)
<1>1. /\ Len(v) \in Nat /\ Len(w) \in Nat /\ Len(v \o w) = Len(v) + Len(w)
      /\ \A i \in 1..Len(v) + Len(w) : (v \o w)[i] = IF i <= Len(v) THEN v[i] ELSE w[i - Len(v)]
    BY ConcatProperties, LenProperties
<1>2. ASSUME NEW i \in 1..Len(v), v[i] = q PROVE Has(v \o w, q)
  <2>1. i \in 1..Len(v) + Len(w) /\ (v \o w)[i] = q
      BY <1>1, <1>2
  <2> QED BY <1>1, <2>1 DEF Has
<1>3. ASSUME NEW i \in 1..Len(w), w[i] = q PROVE Has(v \o w, q)
  <2>1. Len(v) + i \in 1..Len(v) + Len(w) /\ ~(Len(v) + i <= Len(v)) /\ (Len(v) + i) - Len(v) = i
      BY <1>1
  <2>2. (v \o w)[Len(v) + i] = q
      BY <1>1, <1>3, <2>1
  <2> QED BY <1>1, <2>1, <2>2 DEF Has
<1>4. ASSUME NEW i \in 1..Len(v) + Len(w), (v \o w)[i] = q PROVE Has(v, q) \/ Has(w, q)
  <2>1. CASE i <= Len(v)
    <3>1. i \in 1..Len(v) /\ v[i] = q
        BY <1>1, <1>4, <2>1
    <3> QED BY <3>1 DEF Has
  <2>2. CASE ~(i <= Len(v))
    <3>1. i - Len(v) \in 1..Len(w) /\ w[i - Len(v)] = q
        BY <1>1, <1>4, <2>2
    <3> QED BY <3>1 DEF Has
  <2> QED BY <2>1, <2>2
<1>5. Has(v \o w, q) => \E i \in 1..Len(v) + Len(w) : (v \o w)[i] = q
    BY <1>1 DEF Has
<1> QED BY <1>2, <1>3, <1>4, <1>5 DEF Has

\* A stream becomes a tunnel by SwitchProtocols alone.
LEMMA SwitchesOnce ==
    ASSUME Typed, Plain, Whole, [Next]_vars, ~Switched, Switched'
    PROVE  SwitchProtocols
<1> USE DEF stream, upstream, vars
<1> DEFINE q == Status(101)
<1>0. /\ client \in ClientState /\ down \in Seq(Pieces) /\ back \in Seq(Pieces)
      /\ q.kind = "status" /\ q.n = 101
    BY TypedWires, PieceKinds DEF Typed
<1>1. ~client.tunnel /\ ~Has(down, q)
    BY DEF Switched
<1>2. client'.tunnel \/ Has(down', q)
    BY DEF Switched
<1> HIDE DEF q
<1>3. CASE Device
  <2>1. CASE (\E a \in Asks : Ask(a)) \/ SendBody \/ SendFrame \/ Finish
      BY <1>0, <1>1, <1>2, <2>1 DEF Ask, SendBody, SendFrame, Finish, ClientState
  <2>2. CASE Leave
    <3>1. client'.tunnel = client.tunnel /\ down' = <<>>
        BY <1>0, <2>2 DEF Leave, ClientState
    <3> QED BY <1>1, <1>2, <3>1 DEF Has
  <2>3. CASE Hear
    <3>1. /\ down # <<>> /\ down' = Tail(down)
          /\ client'.tunnel => client.tunnel \/ Head(down) = q
        BY <1>0, <2>3 DEF Hear, ClientState, q
    <3>2. Has(Tail(down), q) \/ Head(down) = q => Has(down, q)
        BY <1>0, <3>1, HasTailed
    <3> QED BY <1>1, <1>2, <3>1, <3>2
  <2> QED BY <1>3, <2>1, <2>2, <2>3 DEF Device
<1>4. ASSUME client' = client, NEW p \in Pieces, down' = Append(down, p), p # q
      PROVE  FALSE
    BY <1>0, <1>1, <1>2, <1>4, HasAppended
<1>5. ASSUME client' = client, NEW code \in 100..999 \ {101}, Responds(code)
      PROVE  FALSE
  <2>1. down' = down \/ down' = Append(Append(down, Status(code)), End)
      BY <1>5, Answered, ZenonT(30) DEF Responds
  <2>2. code \in Nat
      OBVIOUS
  <2>3. Status(code) \in Pieces /\ Status(code).n = code /\ End \in Pieces /\ End.kind = "end"
      BY <2>2, PieceKinds
  <2>4. Status(code) # q /\ End # q
      BY <1>0, <2>3
  <2>5. Append(down, Status(code)) \in Seq(Pieces)
      BY <1>0, <2>3, Appended
  <2>6. ~Has(Append(Append(down, Status(code)), End), q)
    <3> DEFINE w == Append(down, Status(code))
    <3>1. w \in Seq(Pieces) /\ ~Has(w, q)
        BY <1>0, <1>1, <2>3, <2>4, <2>5, HasAppended
    <3> HIDE DEF w
    <3>2. ASSUME Has(Append(w, End), q) PROVE FALSE
      <4>1. Has(w, q) \/ End = q
          BY <2>3, <3>1, <3>2, HasAppended
      <4> QED BY <2>4, <3>1, <4>1
    <3>3. ~Has(Append(w, End), q)
        BY <3>2
    <3> QED BY ONLY <3>3 DEF w
  <2>7. ~Has(down', q)
      BY ONLY <1>1, <2>1, <2>6, ZenonT(30)
  <2> QED BY ONLY <1>1, <1>2, <1>5, <2>7
<1>6. CASE client' = client /\ RelayHead /\ ~Left
  <2>1. service.at = "requesting" /\ Comes(back, "status") /\ down' = Append(down, Head(back))
      BY <1>6 DEF RelayHead
  <2>2. /\ Head(back) \in Pieces /\ Head(back) = back[1] /\ 1 \in 1..Len(back)
        /\ Head(back).kind = "status"
      BY <1>0, <2>1, Tailed DEF Comes
  <2>3. Head(back).n = 200
      BY <2>1, <2>2 DEF Plain
  <2> QED BY <1>0, <1>4, <1>6, <2>1, <2>2, <2>3
<1>7. CASE client' = client /\ RelayBody
  <2>1. /\ back # <<>> /\ Head(back).kind \in {"frame", "end"}
        /\ down' = Append(down, Head(back))
      BY <1>7 DEF RelayBody, Comes
  <2>2. Head(back) \in Pieces
      BY <1>0, <2>1, Tailed
  <2> QED BY <1>0, <1>4, <1>7, <2>1, <2>2
<1>8. CASE client' = client /\ Ends
  <2>1. Eof # q /\ Eof \in Pieces /\ End # q /\ End \in Pieces
      BY <1>0, PieceKinds
  <2>2. CASE down' = down \/ down' = Append(down, Eof)
      BY <1>1, <1>2, <1>4, <1>8, <2>1, <2>2
  <2>3. CASE down' = down \o <<Status(400), End, Eof>>
    <3>1. Status(400) \in Pieces /\ Status(400).n = 400
        BY PieceKinds
    <3> DEFINE w == <<Status(400), End, Eof>>
    <3>2. w \in Seq(Pieces) /\ ~Has(w, q)
        BY <1>0, <2>1, <3>1 DEF Has
    <3> HIDE DEF w
    <3>3. ~Has(down \o w, q)
        BY <1>0, <1>1, <3>2, HasJoined
    <3> QED BY <1>1, <1>2, <1>8, <2>3, <3>3 DEF w
  <2> QED BY <1>8, <2>2, <2>3 DEF Ends
<1>9. CASE ~Left /\ service.at \in Tunneling
    BY <1>9 DEF Whole
<1>10. CASE client' = client /\ (UNCHANGED <<up, down>> \/ Begins)
    BY <1>1, <1>2, <1>10 DEF Begins, BeginRename, BeginPlain, BeginUpgrade
<1>11. CASE client' = client /\ \E code \in 100..999 \ {101} : Responds(code)
    BY <1>5, <1>11
<1> QED BY ONLY <1>3, <1>6, <1>7, <1>8, <1>9, <1>10, <1>11, Others, Typed, [Next]_vars

\* Of a service that tunnels, or has ended, only the tunnel goes on.
LEMMA InTunnel ==
    ASSUME [Next]_vars, service.at \in Tunneling \cup {"closed"}
    PROVE  Device \/ App \/ LoseClient \/ Tunnel \/ UNCHANGED vars
<1>1. ~Tick
    BY DEF Tick, Awaiting, Tunneling
<1>2. Serve => LoseClient
    BY DEF Serve, AnswerHub, BeginRename, Rename, RefuseRename, AnswerUnknownApp,
           BeginPlain, BeginUpgrade, EndRequests, Takes, Tunneling
<1>3. ~Proxy
    BY DEF Proxy, ReachApp, CannotReach, TimeOut, RelayHead, RelayBody, BreakBody, Tunneling
<1>4. ~Upgrade
    BY DEF Upgrade, ConnectUpgrade, AskUpgrade, ReadMore, Reads, RefuseOversized, RefuseClosed,
           RefuseUpgrade, SwitchProtocols, SwitchTooLate, Tunneling
<1> QED BY <1>1, <1>2, <1>3, <1>4 DEF Next

\* What the app reads is the next frame, or none.
LEMMA AppReading ==
    ASSUME Typed, AppReads, app.got = UpTo(Len(app.got)), NEW b \in Nat, Len(app.got) <= b,
           Partial(out, Len(app.got), b)
    PROVE  /\ out # <<>> /\ out' = Tail(out)
           /\ UNCHANGED <<client, service, up, down, back>>
           /\ app'.sent = app.sent /\ app'.conn = app.conn
           /\ app'.got = UpTo(Len(app'.got)) /\ Len(app'.got) <= b
           /\ Partial(out', Len(app'.got), b)
           /\ \A w \in Seq(Pieces) : Carries(out \o w, Len(app.got), b) =>
                                        Carries(out' \o w, Len(app'.got), b)
<1> USE DEF stream, upstream
<1>0. app \in AppState /\ out \in Seq(Pieces) /\ Len(app.got) \in Nat
    BY TypedWires, LenProperties DEF Typed, AppState
<1> DEFINE p == Head(out)
           g == Len(app.got)
<1>1. /\ out # <<>> /\ out' = Tail(out) /\ UNCHANGED <<client, service, up, down, back>>
      /\ app'.sent = app.sent /\ app'.conn = app.conn
      /\ app'.got = IF p.kind = "frame" THEN Append(app.got, p.n) ELSE app.got
    BY <1>0 DEF AppReads, AppState
<1>2. \A w \in Seq(Pieces) : /\ Head(out \o w) = p /\ Tail(out \o w) = out' \o w /\ out \o w # <<>>
                             /\ out \o w \in Seq(Pieces)
    BY <1>0, <1>1, TailsFirst, ConcatProperties
<1>3. g \in Nat /\ Partial(out, g, b) /\ app.got = UpTo(g) /\ g <= b
    BY <1>0
<1> HIDE DEF p
<1>4. CASE p.kind # "frame"
  <2>1. app'.got = app.got
      BY <1>1, <1>4
  <2> HIDE DEF g
  <2>2. \A w \in Seq(Pieces) : Carries(out \o w, g, b) => Carries(out' \o w, g, b)
      BY <1>2, <1>4, CarriesRest
  <2>3. Partial(out', g, b)
      BY <1>0, <1>1, <1>3, <1>4, PartialRest DEF p
  <2> QED BY <1>1, <1>3, <2>1, <2>2, <2>3 DEF g
<1>5. CASE p.kind = "frame"
  <2>1. app'.got = Append(UpTo(g), p.n)
      BY <1>1, <1>3, <1>5
  <2> HIDE DEF g
  <2>2. p.n = g + 1 /\ g + 1 <= b /\ Partial(out', g + 1, b)
      BY <1>0, <1>1, <1>3, <1>5, PartialFirst DEF p
  <2>3. ASSUME NEW w \in Seq(Pieces), Carries(out \o w, g, b)
        PROVE  Carries(out' \o w, g + 1, b)
    <3> DEFINE u == out \o w
    <3>1. u \in Seq(Pieces) /\ u # <<>> /\ Head(u).kind = "frame" /\ Carries(u, g, b)
          /\ Tail(u) = out' \o w
        BY <1>2, <1>5, <2>3
    <3> HIDE DEF u
    <3>2. Carries(Tail(u), g + 1, b)
        BY <1>3, <3>1, CarriesFirst
    <3> QED BY <3>1, <3>2
  <2>4. app'.got = UpTo(g + 1) /\ Len(app'.got) = g + 1
    <3>1. g + 1 \in Nat
        BY <1>3
    <3>2. Append(UpTo(g), g + 1) = UpTo(g + 1)
        BY <1>3, UpToNext
    <3>3. Len(UpTo(g + 1)) = g + 1
        BY <3>1, UpToNext
    <3> QED BY <2>1, <2>2, <3>2, <3>3
  <2> QED BY <1>1, <2>2, <2>3, <2>4 DEF g
<1> QED BY <1>4, <1>5

\* What the device hears is the next frame, or none.
LEMMA Hearing ==
    ASSUME Typed, Hear, client.got = UpTo(Len(client.got)), NEW b \in Nat, Len(client.got) <= b,
           Partial(down, Len(client.got), b)
    PROVE  /\ down # <<>> /\ down' = Tail(down)
           /\ UNCHANGED <<app, service, up, out, back>>
           /\ client'.sent = client.sent /\ client'.at = client.at
           /\ client'.waits = IF Head(down) \in {Status(101), End} THEN "none" ELSE client.waits
           /\ client'.tunnel = (client.tunnel \/ Head(down) = Status(101))
           /\ client'.got = UpTo(Len(client'.got)) /\ Len(client'.got) <= b
           /\ Partial(down', Len(client'.got), b)
           /\ \A w \in Seq(Pieces) : Carries(down \o w, Len(client.got), b) =>
                                        Carries(down' \o w, Len(client'.got), b)
<1> USE DEF stream, upstream
<1>0. client \in ClientState /\ down \in Seq(Pieces) /\ Len(client.got) \in Nat
    BY TypedWires, LenProperties DEF Typed, ClientState
<1> DEFINE p == Head(down)
           g == Len(client.got)
<1>1. /\ down # <<>> /\ down' = Tail(down) /\ UNCHANGED <<app, service, up, out, back>>
      /\ client'.sent = client.sent /\ client'.at = client.at
      /\ client'.waits = IF Head(down) \in {Status(101), End} THEN "none" ELSE client.waits
      /\ client'.tunnel = (client.tunnel \/ Head(down) = Status(101))
      /\ client'.got = IF p.kind = "frame" THEN Append(client.got, p.n) ELSE client.got
    BY <1>0 DEF Hear, ClientState
<1>2. \A w \in Seq(Pieces) : /\ Head(down \o w) = p /\ Tail(down \o w) = down' \o w /\ down \o w # <<>>
                             /\ down \o w \in Seq(Pieces)
    BY <1>0, <1>1, TailsFirst, ConcatProperties
<1>3. g \in Nat /\ Partial(down, g, b) /\ client.got = UpTo(g) /\ g <= b
    BY <1>0
<1> HIDE DEF p
<1>4. CASE p.kind # "frame"
  <2>1. client'.got = client.got
      BY <1>1, <1>4
  <2> HIDE DEF g
  <2>2. \A w \in Seq(Pieces) : Carries(down \o w, g, b) => Carries(down' \o w, g, b)
      BY <1>2, <1>4, CarriesRest
  <2>3. Partial(down', g, b)
      BY <1>0, <1>1, <1>3, <1>4, PartialRest DEF p
  <2> QED BY <1>1, <1>3, <2>1, <2>2, <2>3 DEF g
<1>5. CASE p.kind = "frame"
  <2>1. client'.got = Append(UpTo(g), p.n)
      BY <1>1, <1>3, <1>5
  <2> HIDE DEF g
  <2>2. p.n = g + 1 /\ g + 1 <= b /\ Partial(down', g + 1, b)
      BY <1>0, <1>1, <1>3, <1>5, PartialFirst DEF p
  <2>3. ASSUME NEW w \in Seq(Pieces), Carries(down \o w, g, b)
        PROVE  Carries(down' \o w, g + 1, b)
    <3> DEFINE u == down \o w
    <3>1. u \in Seq(Pieces) /\ u # <<>> /\ Head(u).kind = "frame" /\ Carries(u, g, b)
          /\ Tail(u) = down' \o w
        BY <1>2, <1>5, <2>3
    <3> HIDE DEF u
    <3>2. Carries(Tail(u), g + 1, b)
        BY <1>3, <3>1, CarriesFirst
    <3> QED BY <3>1, <3>2
  <2>4. client'.got = UpTo(g + 1) /\ Len(client'.got) = g + 1
    <3>1. g + 1 \in Nat
        BY <1>3
    <3>2. Append(UpTo(g), g + 1) = UpTo(g + 1)
        BY <1>3, UpToNext
    <3>3. Len(UpTo(g + 1)) = g + 1
        BY <3>1, UpToNext
    <3> QED BY <2>1, <2>2, <3>2, <3>3
  <2> QED BY <1>1, <2>2, <2>3, <2>4 DEF g
<1> QED BY <1>4, <1>5

\* The first frames of a wire with one piece more are those of what was whole.
LEMMA Copies ==
    ASSUME NEW v \in Seq(Pieces), NEW w \in Seq(Pieces), w # <<>>, NEW a \in Nat, NEW b \in Nat,
           a <= b, Carries(v \o w, a, b)
    PROVE  /\ Carries(Append(v, Head(w)) \o Tail(w), a, b)
           /\ Partial(Append(v, Head(w)), a, b)
<1>1. Append(v, Head(w)) \o Tail(w) = v \o w
    BY Moves
<1>2. Append(v, Head(w)) \in Seq(Pieces) /\ Tail(w) \in Seq(Pieces)
    BY Appended, Tailed
<1> QED BY <1>1, <1>2, CarriesStart

LEMMA StepFlows ==
    ASSUME Typed, Service, Plain, HeadComes, HeadCame, Handled, Flows, Whole, Ending, [Next]_vars
    PROVE  Flows'
<1> USE DEF stream, upstream, vars
<1>0. /\ client \in ClientState /\ service \in ServiceState /\ app \in AppState
      /\ up \in Seq(Pieces) /\ down \in Seq(Pieces) /\ out \in Seq(Pieces) /\ back \in Seq(Pieces)
      /\ client.sent \in Nat /\ app.sent \in Nat
      /\ Len(client.got) \in Nat /\ Len(app.got) \in Nat
  <2>1. /\ client \in ClientState /\ service \in ServiceState /\ app \in AppState
        /\ up \in Seq(Pieces) /\ down \in Seq(Pieces) /\ out \in Seq(Pieces) /\ back \in Seq(Pieces)
      BY TypedWires DEF Typed
  <2>2. client.sent \in Nat /\ app.sent \in Nat
      BY <2>1 DEF ClientState, AppState
  <2>3. Len(client.got) \in Nat /\ Len(app.got) \in Nat
      BY <2>1, LenProperties DEF ClientState, AppState
  <2> QED BY <2>1, <2>2, <2>3
<1> SUFFICES ASSUME Switched'
             PROVE  Flows'
    BY DEF Flows
<1>1. CASE ~Switched
  <2>1. SwitchProtocols
      BY <1>1, SwitchesOnce
  <2>2. /\ service.at = "reading" /\ service'.at = "handover"
        /\ ~Left /\ down' = Append(down, Status(101)) /\ UNCHANGED <<client, app, up, out>>
      BY <2>1, Goings DEF SwitchProtocols
  <2>3. client.waits # "none" /\ down = <<>> /\ client.got = <<>>
      BY <2>2 DEF Handled, Handling, Upgrading
  <2>4. app.got = <<>> /\ Frames(out) = {}
      BY <2>2 DEF HeadComes, Upgrading
  <2>5. Status(101) \in Pieces /\ Status(101).kind = "status"
      BY PieceKinds
  <2>6. Of(down', {"end"}) = {} /\ Frames(down') = {}
    <3>1. Of(down, {"end"}) = {} /\ Frames(down) = {}
        BY <2>3 DEF Of, Frames
    <3>2. Status(101).kind \notin {"end"}
        BY <2>5
    <3>3. Of(Append(down, Status(101)), {"end"}) = {}
        BY <1>0, <2>5, <3>1, <3>2, NoneAppended
    <3>4. Frames(Append(down, Status(101))) = {}
        BY <1>0, <2>5, <3>1, NoFrameAppended
    <3> QED BY <2>2, <3>3, <3>4
  <2>7. UpTo(0) = <<>> /\ Len(<<>>) = 0
    <3>1. UpTo(0) \in Seq(Nat) /\ Len(UpTo(0)) = 0
        BY UpToNext
    <3> QED BY <3>1, EmptySeq
  <2>8. Partial(down', 0, app.sent) /\ Partial(out, 0, client.sent)
    <3>1. Carries(down', 0, 0) /\ Carries(out, 0, 0)
        BY <2>4, <2>6, CarriesNothing
    <3>2. 0 \in 0..app.sent /\ 0 \in 0..client.sent
        BY <1>0
    <3> QED BY <3>1, <3>2 DEF Partial
  <2>9. client'.got = UpTo(Len(client'.got)) /\ Len(client'.got) = 0
        /\ app'.got = UpTo(Len(app'.got)) /\ Len(app'.got) = 0
      BY <2>2, <2>3, <2>4, <2>7
  <2> QED BY <1>0, <2>2, <2>3, <2>6, <2>8, <2>9 DEF Flows, Tunneling
<1>2. CASE Switched
  <2>1. /\ service.at \in Tunneling \cup {"closed"}
        /\ client.tunnel \/ client.waits # "none"
        /\ Of(down, {"end"}) = {}
        /\ client.got = UpTo(Len(client.got)) /\ Len(client.got) <= app.sent
        /\ app.got = UpTo(Len(app.got)) /\ Len(app.got) <= client.sent
        /\ Partial(down, Len(client.got), app.sent)
        /\ Partial(out, Len(app.got), client.sent)
      BY <1>2 DEF Flows
  <2>2. CASE UNCHANGED vars
      BY <2>1, <2>2 DEF Flows, Of, Partial, Carries, Frames
  <2>3. CASE Device
    <3>1. ASSUME NEW a \in Asks, Ask(a)
          PROVE  FALSE
        BY <2>1, <3>1 DEF Ask
    <3>2. CASE SendBody \/ SendFrame \/ Finish
      <4>1. /\ client'.sent \in Nat /\ client.sent <= client'.sent
            /\ client'.got = client.got /\ client'.tunnel = client.tunnel
            /\ client'.waits = "none" => client.waits = "none"
          BY <1>0, <3>2, SMTT(30) DEF SendBody, SendFrame, Finish, ClientState
      <4>2. UNCHANGED <<service, app, down, out, back>>
          BY <3>2 DEF SendBody, SendFrame, Finish
      <4>3. Partial(out, Len(app.got), client'.sent)
          BY <1>0, <2>1, <4>1, PartialGrows
      <4>4. Len(app.got) <= client'.sent
          BY <1>0, <2>1, <4>1
      <4> QED BY <2>1, <4>1, <4>2, <4>3, <4>4 DEF Flows
    <3>3. CASE Leave
      <4>1. /\ client'.tunnel = client.tunnel /\ client'.waits = client.waits
            /\ client'.got = client.got /\ client'.sent = client.sent /\ down' = <<>>
            /\ UNCHANGED <<service, app, out>>
          BY <1>0, <3>3 DEF Leave, ClientState
      <4>2. Of(down', {"end"}) = {} /\ Frames(down') = {}
          BY <4>1 DEF Of, Frames
      <4>3. Partial(down', Len(client.got), app.sent)
        <5>1. Carries(down', Len(client.got), Len(client.got))
            BY <1>0, <4>2, CarriesNothing
        <5>2. Len(client.got) \in Len(client.got)..app.sent
            BY <1>0, <2>1
        <5> QED BY <5>1, <5>2 DEF Partial
      <4> QED BY <2>1, <4>1, <4>2, <4>3 DEF Flows
    <3>4. CASE Hear
      <4>1. /\ down # <<>> /\ down' = Tail(down)
            /\ UNCHANGED <<app, service, up, out, back>>
            /\ client'.sent = client.sent
            /\ client'.waits = IF Head(down) \in {Status(101), End} THEN "none" ELSE client.waits
            /\ client'.tunnel = (client.tunnel \/ Head(down) = Status(101))
            /\ client'.got = UpTo(Len(client'.got)) /\ Len(client'.got) <= app.sent
            /\ Partial(down', Len(client'.got), app.sent)
          BY <1>0, <2>1, <3>4, Hearing
      <4>2. Of(Tail(down), {"end"}) = {} /\ Head(down).kind \notin {"end"}
        <5>1. Of(Tail(down), {"end"}) = {}
            BY <1>0, <2>1, <4>1, NoneTailed
        <5>2. Head(down).kind \notin {"end"}
            BY <1>0, <2>1, <4>1, OfTailed
        <5> QED BY <5>1, <5>2
      <4>3. Head(down) # End
          BY <4>2, PieceKinds
      <4>4. client'.tunnel \/ client'.waits # "none"
          BY <2>1, <4>1, <4>3
      <4> QED BY <2>1, <4>1, <4>2, <4>4 DEF Flows
    <3> QED BY <2>3, <3>1, <3>2, <3>3, <3>4 DEF Device
  <2>4. CASE App
    <3>1. CASE AppReads
      <4>1. /\ UNCHANGED <<client, service, up, down, back>>
            /\ app'.sent = app.sent
            /\ app'.got = UpTo(Len(app'.got)) /\ Len(app'.got) <= client.sent
            /\ Partial(out', Len(app'.got), client.sent)
          BY <1>0, <2>1, <3>1, AppReading
      <4> QED BY <2>1, <4>1 DEF Flows, Of, Partial, Carries, Frames
    <3>2. CASE AppBegins \/ AppAnswers \/ AppSends \/ AppEnds \/ AppCloses
      <4>1. /\ app'.sent \in Nat /\ app.sent <= app'.sent /\ app'.got = app.got
            /\ UNCHANGED <<client, service, up, down, out>>
        <5>1. app \in AppState /\ app.sent \in Nat /\ app.sent + 1 \in Nat /\ app.sent <= app.sent + 1
            BY <1>0
        <5>2. CASE AppBegins
            BY <5>1, <5>2 DEF AppBegins, AppState
        <5>3. CASE AppAnswers
            BY <5>1, <5>3 DEF AppAnswers, AppState
        <5>4. CASE AppSends
            BY <5>1, <5>4 DEF AppSends, AppState
        <5>5. CASE AppEnds
            BY <5>1, <5>5 DEF AppEnds, AppState
        <5>6. CASE AppCloses
            BY <5>1, <5>6 DEF AppCloses, AppState
        <5> QED BY <3>2, <5>2, <5>3, <5>4, <5>5, <5>6
      <4>2. Partial(down, Len(client.got), app'.sent)
          BY <1>0, <2>1, <4>1, PartialGrows
      <4>3. Len(client.got) <= app'.sent
          BY <1>0, <2>1, <4>1
      <4> QED BY <2>1, <4>1, <4>2, <4>3 DEF Flows
    <3> QED BY <2>4, <3>1, <3>2 DEF App
\* The stream ends: to the app, and to a device that is there, its end is passed on.
  <2>5. CASE Closes /\ Drops /\ client' = client
    <3>1. /\ service'.at = "closed" /\ app' = app
          /\ down' = Append(down, Eof) \/ down' = down
          /\ out' = Append(out, Eof) \/ out' = out
        BY <2>5, Closed, Dropped
    <3>2. Eof \in Pieces /\ Eof.kind # "frame" /\ Eof.kind \notin {"end"}
        BY PieceKinds
    <3>3. /\ Partial(Append(down, Eof), Len(client.got), app.sent)
          /\ Partial(Append(out, Eof), Len(app.got), client.sent)
        BY <1>0, <2>1, <3>2, PartialMore
    <3>4. Of(Append(down, Eof), {"end"}) = {}
        BY <1>0, <2>1, <3>2, NoneAppended
    <3>5. Partial(down', Len(client.got), app.sent) /\ Of(down', {"end"}) = {}
        BY ONLY <2>1, <3>1, <3>3, <3>4
    <3>6. Partial(out', Len(app.got), client.sent)
        BY ONLY <2>1, <3>1, <3>3
    <3> QED BY <2>1, <2>5, <3>1, <3>5, <3>6 DEF Flows
  <2>6. CASE LoseClient
      BY <2>5, <2>6 DEF LoseClient
  <2>7. CASE Handover \/ EndTunnel
    <3>1. service'.at \in Tunneling \cup {"closed"} /\ UNCHANGED <<client, app, up, down, out, back>>
        BY <1>0, <2>7 DEF Handover, EndTunnel, Goes, Tunneling, ServiceState
    <3> QED BY <2>1, <3>1 DEF Flows, Of, Partial, Carries, Frames
  <2>8. CASE PassLeftover
    <3>1. /\ service.at \in Tunneling /\ service'.at \in Tunneling /\ ~Left
          /\ down' = down \o service.rest /\ UNCHANGED <<client, app, up, out, back>>
        BY <2>8, Goings DEF PassLeftover, Tunneling
    <3>2. service.rest \in Seq(Pieces) /\ Only(service.rest, {"frame"})
        BY <3>1, TypedWires DEF HeadCame
    <3>3. Carries(down' \o back, Len(client.got), app.sent)
        BY <3>1 DEF Whole
    <3>4. down' \in Seq(Pieces)
        BY <1>0, <3>1, <3>2, ConcatProperties
    <3>5. Partial(down', Len(client.got), app.sent)
        BY <1>0, <2>1, <3>3, <3>4, CarriesStart
    <3>6. Of(down', {"end"}) = {}
      <4> DEFINE r == service.rest
      <4>1. /\ Len(down) \in Nat /\ Len(r) \in Nat /\ Len(down \o r) = Len(down) + Len(r)
            /\ \A i \in 1..Len(down) + Len(r) :
                  (down \o r)[i] = IF i <= Len(down) THEN down[i] ELSE r[i - Len(down)]
          BY <1>0, <3>2, ConcatProperties, LenProperties
      <4>2. down' = down \o r /\ \A i \in 1..Len(r) : r[i].kind = "frame"
          BY <3>1, <3>2 DEF Only
      <4> HIDE DEF r
      <4>3. ASSUME NEW i \in 1..Len(down) + Len(r), (down \o r)[i].kind = "end" PROVE FALSE
        <5>1. CASE i <= Len(down)
          <6>1. i \in 1..Len(down) /\ down[i].kind = "end"
              BY <4>1, <4>3, <5>1
          <6> QED BY <2>1, <6>1 DEF Of
        <5>2. CASE ~(i <= Len(down))
          <6>1. i - Len(down) \in 1..Len(r) /\ r[i - Len(down)].kind = "end"
              BY <4>1, <4>3, <5>2
          <6> QED BY <4>2, <6>1
        <5> QED BY <5>1, <5>2
      <4> QED BY <4>1, <4>2, <4>3 DEF Of
    <3> QED BY <2>1, <3>1, <3>5, <3>6 DEF Flows
  <2>9. CASE CopyDown
    <3>1. CASE Closes /\ Drops
        BY <2>5, <2>9, <3>1 DEF CopyDown
    <3>2. CASE /\ Copied("down", Head(back)) /\ down' = Append(down, Head(back))
               /\ back' = Tail(back) /\ UNCHANGED <<app, out>>
      <4>1. /\ service.at = "copying" /\ service'.at = "copying" /\ ~Left /\ back # <<>>
            /\ client' = client /\ up' = up
          BY <2>9, <3>2, Goings DEF CopyDown
      <4>2. service.rest = <<>>
          BY <4>1 DEF Service
      <4>3. Carries(down \o back, Len(client.got), app.sent)
          BY <1>0, <4>1, <4>2, ConcatEmptySeq DEF Whole, Tunneling
      <4>4. Partial(down', Len(client.got), app.sent)
          BY <1>0, <2>1, <3>2, <4>1, <4>3, Copies
      <4>5. Head(back) \in Pieces /\ Head(back).kind \notin {"end"}
        <5>1. Only(back, {"frame", "eof"})
            BY <4>1 DEF HeadCame, Tunneling
        <5> QED BY <1>0, <4>1, <5>1, Tailed, OfTailed
      <4>6. Of(Append(down, Head(back)), {"end"}) = {}
          BY <1>0, <2>1, <4>5, NoneAppended
      <4> QED BY <2>1, <3>2, <4>1, <4>4, <4>6, ZenonT(30) DEF Flows, Tunneling, Partial, Carries, Frames
    <3> QED BY <2>9, <3>1, <3>2 DEF CopyDown
  <2>10. CASE CopyUp
    <3>1. CASE Closes /\ Drops
        BY <2>5, <2>10, <3>1 DEF CopyUp
    <3>2. CASE Copied("up", Head(up)) /\ out' = Append(out, Head(up)) /\ UNCHANGED <<app, down, back>>
      <4>1. /\ service.at = "copying" /\ service'.at = "copying" /\ ~Left /\ up # <<>>
            /\ client' = client /\ up' = Tail(up)
          BY <2>10, <3>2, Goings DEF CopyUp
      <4>2. Carries(out \o up, Len(app.got), client.sent)
          BY <4>1 DEF Whole, Tunneling
      <4>3. Partial(out', Len(app.got), client.sent)
          BY <1>0, <2>1, <3>2, <4>1, <4>2, Copies
      <4> QED BY <2>1, <3>2, <4>1, <4>3, ZenonT(30) DEF Flows, Tunneling, Of, Partial, Carries, Frames
    <3> QED BY <2>10, <3>1, <3>2 DEF CopyUp
  <2> QED BY <2>1, <2>2, <2>3, <2>4, <2>6, <2>7, <2>8, <2>9, <2>10, InTunnel DEF Tunnel
<1> QED BY <1>1, <1>2

LEMMA HasKept ==
    ASSUME NEW w \in Seq(Pieces), NEW p \in Pieces, NEW q, Has(w, q)
    PROVE  Has(Append(w, p), q)
<1>1. PICK i \in 1..Len(w) : w[i] = q
    BY DEF Has
<1>2. i \in 1..Len(Append(w, p)) /\ Append(w, p)[i] = q
    BY <1>1, Appended
<1> QED BY <1>2 DEF Has

LEMMA OnlyTailed ==
    ASSUME NEW w \in Seq(Pieces), w # <<>>, NEW kinds, Only(w, kinds)
    PROVE  Only(Tail(w), kinds)
BY OfTailed

LEMMA OnlyAppended ==
    ASSUME NEW w \in Seq(Pieces), NEW p \in Pieces, NEW kinds, Only(w, kinds), p.kind \in kinds
    PROVE  Only(Append(w, p), kinds)
BY OfAppended

\* The end of a side is the last that comes from it.
LEMMA EofIsLast ==
    ASSUME NEW w \in Seq(Pieces), w # <<>>, Head(w) = Eof,
           \A i \in Of(w, {"eof"}) : i = Len(w)
    PROVE  Of(w, {"eof"}) # {} /\ Tail(w) = <<>>
<1>1. 1 \in Of(w, {"eof"})
  <2>1. Head(w).kind \in {"eof"}
      BY PieceKinds
  <2> QED BY <2>1, OfTailed
<1>2. Len(w) = 1
    BY <1>1
<1>3. Len(Tail(w)) = 0 /\ Tail(w) \in Seq(Pieces)
    BY <1>2, Tailed
<1> QED BY <1>1, <1>3, EmptySeq

LEMMA Joined ==
    ASSUME NEW v \in Seq(Pieces), NEW w \in Seq(Pieces)
    PROVE  /\ v \o w \in Seq(Pieces) /\ v \o <<>> = v /\ <<>> \in Seq(Pieces)
           /\ \A p \in Pieces : v \o Append(w, p) = Append(v \o w, p)
           /\ \A u \in Seq(Pieces) : (v \o w) \o u = v \o (w \o u)
           /\ w # <<>> => Append(v, Head(w)) \o Tail(w) = v \o w
<1>1. v \o w \in Seq(Pieces)
    BY ConcatProperties
<1>2. v \o <<>> = v /\ <<>> \in Seq(Pieces)
  <2>1. v \o <<>> = v
      BY ConcatEmptySeq
  <2> QED BY <2>1
<1>3. ASSUME NEW p \in Pieces PROVE v \o Append(w, p) = Append(v \o w, p)
    BY AppendsLast
<1>4. ASSUME NEW u \in Seq(Pieces) PROVE (v \o w) \o u = v \o (w \o u)
    BY ConcatAssociative
<1>5. w # <<>> => Append(v, Head(w)) \o Tail(w) = v \o w
    BY Moves
<1> QED BY <1>1, <1>2, <1>3, <1>4, <1>5

\* At the switch both ways are whole: what was read beyond the head and what
\* was not read yet are all that the app has said.
LEMMA SwitchesWhole ==
    ASSUME Typed, Service, HeadComes, Ending, Handled, Bodies, Flows, SwitchProtocols
    PROVE  Whole'
<1> USE DEF stream, upstream
<1>0. /\ service \in ServiceState /\ client.sent \in Nat /\ app.sent \in Nat
      /\ up \in Seq(UpPiece)
      /\ up \in Seq(Pieces) /\ down \in Seq(Pieces) /\ out \in Seq(Pieces) /\ back \in Seq(Pieces)
  <2>1. client \in ClientState /\ app \in AppState
      BY DEF Typed
  <2> QED BY <2>1, TypedWires DEF Typed, ClientState, AppState
<1>1. /\ service.at = "reading" /\ service'.at = "handover" /\ service'.done = service.done
      /\ ~Left /\ down' = Append(down, Status(101)) /\ UNCHANGED <<client, app, up, out>>
    BY Goings DEF SwitchProtocols
<1>2. client.waits # "none" /\ Of(up, Asks) = {} /\ down = <<>> /\ client.got = <<>>
    BY <1>1 DEF Handled, Handling, Upgrading
<1>3. /\ app.got = <<>> /\ Frames(out) = {} /\ Carries(back, 0, app.sent)
      /\ \A i \in Of(back, {"status"}) :
            \A j \in 1..Len(back) : j > i => back[j].kind \in {"frame", "eof"}
      /\ \A i \in Frames(back) : \E j \in Of(back, {"status"}) : j < i
    BY <1>1 DEF HeadComes, Upgrading
<1>4. PICK buf \in Bufs :
         /\ Reads(buf) /\ HeadEnd(buf) # 0
         /\ service' = [service EXCEPT !.at = "handover",
                                       !.rest = SubSeq(buf, HeadEnd(buf) + 1, Len(buf))]
    BY DEF SwitchProtocols
<1>5. PICK h \in 1..Len(back) :
         /\ back[h].kind = "status"
         /\ service'.rest \in Seq(BackPiece) /\ back' \in Seq(BackPiece)
         /\ service'.rest \o back' = SubSeq(back, h + 1, Len(back))
    BY <1>1, <1>4, Switches
<1>6. client.sent = 0 /\ Frames(up) = {}
  <2>1. ~client.tunnel
      BY <1>1 DEF Flows, Switched, Tunneling
  <2> QED BY <2>1 DEF Ending
<1>7. Only(up, {"frame", "eof"})
  <2>1. Of(up, {"body"}) = {}
    <3>1. ~Renaming
        BY <1>1 DEF Renaming
    <3> QED BY <1>1, <3>1 DEF Bodies
  <2>2. ASSUME NEW i \in 1..Len(up) PROVE up[i].kind \in {"frame", "eof"}
    <3>1. up[i] \in UpPiece
        BY <1>0, ElementOfSeq
    <3>2. up[i].kind \in Asks \cup {"body", "eof", "frame"}
        BY <3>1 DEF UpPiece, FramePiece
    <3>3. up[i].kind \notin Asks /\ up[i].kind # "body"
        BY <1>2, <2>1 DEF Of
    <3> QED BY <3>2, <3>3
  <2> QED BY <2>2 DEF Only
<1> DEFINE x == service'.rest \o back'
<1>8. Carries(x, 0, app.sent) /\ x \in Seq(Pieces)
      /\ service'.rest \in Seq(Pieces) /\ back' \in Seq(Pieces)
  <2>1. service'.rest \in Seq(Pieces) /\ back' \in Seq(Pieces)
      BY <1>5, Wires
  <2>2. \A i \in Frames(back) : i > h
    <3>1. ASSUME NEW i \in Frames(back), NEW j \in Of(back, {"status"}), j < i PROVE i > h
      <4>1. Len(back) \in Nat /\ i \in 1..Len(back) /\ j \in 1..Len(back)
          BY <1>0, LenProperties DEF Frames, Of
      <4>2. ~(h > j)
          BY <1>3, <1>5, <3>1
      <4> QED BY <3>1, <4>1, <4>2
    <3> QED BY <1>3, <3>1
  <2>3. h \in 0..Len(back)
      BY <1>0, LenProperties
  <2>4. Carries(SubSeq(back, h + 1, Len(back)), 0, app.sent)
      BY <1>0, <1>3, <2>2, <2>3, CarriesCut
  <2> QED BY <1>5, <2>1, <2>4, Joined
<1>9. Carries((down' \o service'.rest) \o back', 0, app.sent)
  <2> DEFINE d == Append(down, Status(101))
             w == d \o x
  <2>1. /\ d \in Seq(Pieces) /\ Len(d) = 1 /\ d[1] = Status(101)
        /\ Status(101).kind # "frame"
    <3>1. Status(101) \in Pieces /\ Status(101).kind = "status" /\ Len(down) = 0
        BY <1>2, PieceKinds
    <3> QED BY <1>0, <3>1, Appended
  <2> HIDE DEF x, d
  <2>2. d # <<>>
      BY <2>1, EmptySeq
  <2>3. Head(d) = Status(101) /\ Tail(d) = <<>>
    <3>1. Head(d) = d[1] /\ Tail(d) \in Seq(Pieces) /\ Len(Tail(d)) = 0
        BY <2>1, <2>2, Tailed
    <3> QED BY <2>1, <3>1, EmptySeq
  <2>4. w \in Seq(Pieces) /\ w # <<>> /\ Head(w) = Status(101) /\ Tail(w) = <<>> \o x
    <3>1. /\ Head(d \o x) = Head(d) /\ Tail(d \o x) = Tail(d) \o x /\ d \o x # <<>>
        BY <1>8, <2>1, <2>2, TailsFirst
    <3> QED BY <1>8, <2>1, <2>3, <3>1, Joined
  <2>5. <<>> \o x = x
      BY <1>8, ConcatEmptySeq
  <2> HIDE DEF w
  <2>6. Carries(w, 0, app.sent)
      BY <1>8, <2>1, <2>4, <2>5, CarriesLater
  <2>7. (d \o service'.rest) \o back' = w
    <3>1. \A u, v \in Seq(Pieces) : (d \o u) \o v = d \o (u \o v)
        BY <2>1, ConcatAssociative, SMTT(30)
    <3> QED BY <1>8, <3>1 DEF w, x
  <2> QED BY <1>1, <2>6, <2>7 DEF d
<1>10. Carries(out \o up, 0, 0)
    BY <1>0, <1>3, <1>6, NoFramesJoined, CarriesNothing
<1>11. service'.done = {}
    BY <1>1 DEF Service
<1>12. Switched'
  <2>1. Status(101) \in Pieces
      BY PieceKinds
  <2>2. Has(Append(down, Status(101)), Status(101))
    <3>1. /\ Len(Append(down, Status(101))) = 1 /\ Append(down, Status(101))[1] = Status(101)
        BY <1>0, <1>2, <2>1, Appended
    <3> QED BY <3>1 DEF Has
  <2> QED BY <1>1, <2>2 DEF Switched
<1>13. Len(client'.got) = 0 /\ Len(app'.got) = 0 /\ client'.sent = 0 /\ app'.sent = app.sent
    BY <1>1, <1>2, <1>3, <1>6
<1> QED BY <1>1, <1>7, <1>9, <1>10, <1>11, <1>12, <1>13 DEF Whole

\* The steps of the device and of the app keep a tunnel whole ...
LEMMA DeviceWhole ==
    ASSUME Typed, AppInv, DeviceInv, Flows, Whole, Device, ~Left, ~Left', service.at \in Tunneling
    PROVE  Whole'
<1> USE DEF stream, upstream, vars, AppInv, DeviceInv
<1>0. /\ client \in ClientState /\ service \in ServiceState /\ app \in AppState
      /\ up \in Seq(Pieces) /\ down \in Seq(Pieces) /\ out \in Seq(Pieces) /\ back \in Seq(Pieces)
      /\ service.rest \in Seq(Pieces) /\ client.sent \in Nat /\ app.sent \in Nat
      /\ Len(client.got) \in Nat /\ Len(app.got) \in Nat
  <2>1. client \in ClientState /\ service \in ServiceState /\ app \in AppState
      BY DEF Typed
  <2>2. client.sent \in Nat /\ app.sent \in Nat
      BY <2>1 DEF ClientState, AppState
  <2>3. Len(client.got) \in Nat /\ Len(app.got) \in Nat
      BY <2>1, LenProperties DEF ClientState, AppState
  <2> QED BY <2>1, <2>2, <2>3, TypedWires
<1>1. /\ Switched /\ Only(up, {"frame", "eof"})
      /\ Carries((down \o service.rest) \o back, Len(client.got), app.sent)
      /\ Carries(out \o up, Len(app.got), client.sent)
      /\ "down" \in service.done => back = <<>> /\ app.conn = "closed"
      /\ "up" \in service.done => up = <<>> /\ client.at = "finished"
    BY DEF Whole
<1>2. /\ client.tunnel \/ client.waits # "none"
      /\ client.got = UpTo(Len(client.got)) /\ Len(client.got) <= app.sent
      /\ Len(app.got) <= client.sent
      /\ Partial(down, Len(client.got), app.sent)
    BY <1>1 DEF Flows
<1>3. out \o up \in Seq(Pieces) /\ \A p \in Pieces : out \o Append(up, p) = Append(out \o up, p)
    BY <1>0, Joined
<1>4. ASSUME NEW a \in Asks, Ask(a) PROVE FALSE
    BY <1>2, <1>4 DEF Ask
<1>5. CASE SendBody
  <2>1. ~Renaming
      BY DEF Renaming, Tunneling
  <2>2. client.waits = "body" /\ service.at # "closed"
      BY <1>5 DEF SendBody, Tunneling
  <2> QED BY <2>1, <2>2 DEF Bodies
<1>6. CASE SendFrame
  <2>1. /\ client.at = "open" /\ up' = Append(up, Frame(client.sent + 1))
        /\ client'.sent = client.sent + 1 /\ client'.got = client.got /\ client'.at = "open"
        /\ client'.tunnel = client.tunnel /\ UNCHANGED <<service, app, down, out, back>>
      BY <1>0, <1>6 DEF SendFrame, ClientState
  <2>2. client.sent + 1 \in Nat
      BY <1>0
  <2>3. Frame(client.sent + 1) \in Pieces /\ Frame(client.sent + 1).kind \in {"frame", "eof"}
      BY <2>2, PieceKinds
  <2>4. Only(up', {"frame", "eof"})
      BY <1>0, <1>1, <2>1, <2>3, OnlyAppended
  <2>5. Carries(Append(out \o up, Frame(client.sent + 1)), Len(app.got), client.sent + 1)
      BY <1>0, <1>1, <1>2, <1>3, CarriesNext
  <2>6. Carries(out \o up', Len(app.got), client.sent + 1)
      BY <1>3, <2>1, <2>3, <2>5
  <2>7. Switched'
      BY <1>1, <2>1 DEF Switched, Has
  <2> QED BY <1>1, <2>1, <2>4, <2>6, <2>7 DEF Whole
<1>7. CASE Finish
  <2>1. /\ client.at = "open" /\ up' = Append(up, Eof)
        /\ client'.sent = client.sent /\ client'.got = client.got
        /\ client'.tunnel = client.tunnel /\ UNCHANGED <<service, app, down, out, back>>
      BY <1>0, <1>7 DEF Finish, ClientState
  <2>2. Eof \in Pieces /\ Eof.kind \in {"frame", "eof"} /\ Eof.kind # "frame"
      BY PieceKinds
  <2>3. Only(up', {"frame", "eof"})
      BY <1>0, <1>1, <2>1, <2>2, OnlyAppended
  <2>4. Carries(Append(out \o up, Eof), Len(app.got), client.sent)
      BY <1>0, <1>1, <1>3, <2>2, CarriesMore
  <2>5. Carries(out \o up', Len(app.got), client.sent)
      BY <1>3, <2>1, <2>2, <2>4
  <2>6. Switched'
      BY <1>1, <2>1 DEF Switched, Has
  <2> QED BY <1>1, <2>1, <2>3, <2>5, <2>6 DEF Whole
<1>8. CASE Leave
    BY <1>0, <1>8 DEF Leave, Left, ClientState
<1>9. CASE Hear
  <2> DEFINE w == service.rest \o back
  <2>1. /\ down # <<>> /\ down' = Tail(down) /\ UNCHANGED <<app, service, up, out, back>>
        /\ client'.sent = client.sent /\ client'.at = client.at
        /\ client'.tunnel = (client.tunnel \/ Head(down) = Status(101))
        /\ \A u \in Seq(Pieces) : Carries(down \o u, Len(client.got), app.sent) =>
                                     Carries(down' \o u, Len(client'.got), app.sent)
      BY <1>0, <1>2, <1>9, Hearing
  <2>2. w \in Seq(Pieces) /\ \A v \in Seq(Pieces) : (v \o service.rest) \o back = v \o w
    <3>1. \A v, r, b \in Seq(Pieces) : (v \o r) \o b = v \o (r \o b)
        BY ConcatAssociative
    <3>2. service.rest \in Seq(Pieces) /\ back \in Seq(Pieces)
        BY <1>0
    <3>3. w \in Seq(Pieces)
        BY <3>2, Joined
    <3> QED BY ONLY <3>1, <3>2, <3>3 DEF w
  <2>3. down' \in Seq(Pieces)
      BY <1>0, <2>1, Tailed
  <2> HIDE DEF w
  <2>4. Carries(down \o w, Len(client.got), app.sent)
      BY <1>0, <1>1, <2>2
  <2>5. Carries(down' \o w, Len(client'.got), app.sent)
      BY <2>1, <2>2, <2>4
  <2>6. Switched'
    <3>1. Has(down, Status(101)) => Has(Tail(down), Status(101)) \/ Head(down) = Status(101)
        BY <1>0, <2>1, HasTailed
    <3> QED BY <1>1, <2>1, <3>1 DEF Switched
  <2>7. Carries((down' \o service.rest) \o back, Len(client'.got), app.sent)
      BY <2>2, <2>3, <2>5
  <2> QED BY <1>1, <2>1, <2>6, <2>7 DEF Whole
<1> QED BY <1>4, <1>5, <1>6, <1>7, <1>8, <1>9 DEF Device

LEMMA AppWhole ==
    ASSUME Typed, AppInv, DeviceInv, Flows, Whole, App, ~Left, service.at \in Tunneling
    PROVE  Whole'
<1> USE DEF stream, upstream, vars, AppInv, DeviceInv
<1>0. /\ client \in ClientState /\ service \in ServiceState /\ app \in AppState
      /\ up \in Seq(Pieces) /\ down \in Seq(Pieces) /\ out \in Seq(Pieces) /\ back \in Seq(Pieces)
      /\ service.rest \in Seq(Pieces) /\ client.sent \in Nat /\ app.sent \in Nat
      /\ Len(client.got) \in Nat /\ Len(app.got) \in Nat
  <2>1. client \in ClientState /\ service \in ServiceState /\ app \in AppState
      BY DEF Typed
  <2>2. client.sent \in Nat /\ app.sent \in Nat
      BY <2>1 DEF ClientState, AppState
  <2>3. Len(client.got) \in Nat /\ Len(app.got) \in Nat
      BY <2>1, LenProperties DEF ClientState, AppState
  <2> QED BY <2>1, <2>2, <2>3, TypedWires
<1>1. /\ Switched /\ Only(up, {"frame", "eof"})
      /\ Carries((down \o service.rest) \o back, Len(client.got), app.sent)
      /\ Carries(out \o up, Len(app.got), client.sent)
      /\ "down" \in service.done => back = <<>> /\ app.conn = "closed"
      /\ "up" \in service.done => up = <<>> /\ client.at = "finished"
    BY DEF Whole
<1>2. /\ Len(client.got) <= app.sent
      /\ app.got = UpTo(Len(app.got)) /\ Len(app.got) <= client.sent
      /\ Partial(out, Len(app.got), client.sent)
    BY <1>1 DEF Flows
<1> DEFINE w == down \o service.rest
<1>3. w \in Seq(Pieces) /\ w \o back \in Seq(Pieces)
      /\ \A p \in Pieces : w \o Append(back, p) = Append(w \o back, p)
  <2>1. w \in Seq(Pieces)
      BY <1>0, Joined
  <2> HIDE DEF w
  <2> QED BY <1>0, <2>1, Joined
<1>4. CASE AppReads
  <2>1. /\ UNCHANGED <<client, service, up, down, back>>
        /\ app'.sent = app.sent /\ app'.conn = app.conn
        /\ \A u \in Seq(Pieces) : Carries(out \o u, Len(app.got), client.sent) =>
                                     Carries(out' \o u, Len(app'.got), client.sent)
      BY <1>0, <1>2, <1>4, AppReading
  <2>2. Carries(out' \o up, Len(app'.got), client.sent)
      BY <1>0, <1>1, <2>1
  <2>3. Switched'
      BY <1>1, <2>1 DEF Switched, Has
  <2> QED BY <1>1, <2>1, <2>2, <2>3 DEF Whole
<1>5. CASE AppBegins \/ AppAnswers
    BY <1>5 DEF AppBegins, AppAnswers, Begun, HeadCame
<1>6. CASE AppSends
  <2>1. /\ app.conn = "open" /\ back' = Append(back, Frame(app.sent + 1))
        /\ app'.sent = app.sent + 1 /\ app'.got = app.got
        /\ UNCHANGED <<client, service, up, down, out>>
      BY <1>0, <1>6 DEF AppSends, AppState
  <2>2. app.sent + 1 \in Nat
      BY <1>0
  <2>3. Frame(app.sent + 1) \in Pieces
      BY <2>2, PieceKinds
  <2> HIDE DEF w
  <2>4. Carries(Append(w \o back, Frame(app.sent + 1)), Len(client.got), app.sent + 1)
    <3>1. Carries(w \o back, Len(client.got), app.sent)
        BY <1>1 DEF w
    <3> QED BY <1>0, <1>2, <1>3, <3>1, CarriesNext
  <2>5. Carries(w \o Append(back, Frame(app.sent + 1)), Len(client.got), app.sent + 1)
      BY <1>3, <2>3, <2>4
  <2>6. Carries((down' \o service'.rest) \o back', Len(client'.got), app'.sent)
      BY <2>1, <2>5 DEF w
  <2>7. Switched'
      BY <1>1, <2>1 DEF Switched, Has
  <2> QED BY <1>1, <2>1, <2>6, <2>7 DEF Whole
<1>7. CASE AppEnds
    BY <1>7 DEF AppEnds, Upgraded
<1>8. CASE AppCloses
  <2>1. /\ app.conn = "open" /\ back' = Append(back, Eof)
        /\ app'.sent = app.sent /\ app'.got = app.got
        /\ UNCHANGED <<client, service, up, down, out>>
      BY <1>0, <1>8 DEF AppCloses, AppState
  <2>2. Eof \in Pieces /\ Eof.kind # "frame"
      BY PieceKinds
  <2> HIDE DEF w
  <2>3. Carries(Append(w \o back, Eof), Len(client.got), app.sent)
    <3>1. Carries(w \o back, Len(client.got), app.sent)
        BY <1>1 DEF w
    <3> QED BY <1>3, <2>2, <3>1, CarriesMore
  <2>4. Carries(w \o Append(back, Eof), Len(client.got), app.sent)
      BY <1>3, <2>2, <2>3
  <2>5. Carries((down' \o service'.rest) \o back', Len(client'.got), app'.sent)
      BY <2>1, <2>4 DEF w
  <2>6. Switched'
      BY <1>1, <2>1 DEF Switched, Has
  <2> QED BY <1>1, <2>1, <2>5, <2>6 DEF Whole
<1> QED BY <1>4, <1>5, <1>6, <1>7, <1>8 DEF App

\* ... and so does the service while it copies.
LEMMA TunnelWhole ==
    ASSUME Typed, AppInv, DeviceInv, Flows, Whole, Tunnel, ~Left, service.at \in Tunneling,
           service'.at \in Tunneling
    PROVE  Whole'
<1> USE DEF stream, upstream, vars, AppInv, DeviceInv
<1>0. /\ client \in ClientState /\ service \in ServiceState /\ app \in AppState
      /\ up \in Seq(Pieces) /\ down \in Seq(Pieces) /\ out \in Seq(Pieces) /\ back \in Seq(Pieces)
      /\ service.rest \in Seq(Pieces)
    BY TypedWires DEF Typed
<1>1. /\ Switched /\ Only(up, {"frame", "eof"})
      /\ Carries((down \o service.rest) \o back, Len(client.got), app.sent)
      /\ Carries(out \o up, Len(app.got), client.sent)
      /\ "down" \in service.done => back = <<>> /\ app.conn = "closed"
      /\ "up" \in service.done => up = <<>> /\ client.at = "finished"
    BY DEF Whole
<1>2. ~Closes
    BY DEF Closes, Tunneling, ServiceState, Typed
<1>3. CASE Handover
  <2>1. /\ service'.rest = service.rest /\ service'.done = service.done
        /\ UNCHANGED <<client, app, up, down, out, back>>
      BY <1>3, Goings DEF Handover
  <2> QED BY <1>1, <2>1 DEF Whole, Switched, Has
<1>4. CASE PassLeftover
  <2>1. /\ service'.rest = <<>> /\ service'.done = service.done
        /\ down' = down \o service.rest
        /\ UNCHANGED <<client, app, up, out, back>>
      BY <1>4, Goings DEF PassLeftover
  <2>2. Switched'
    <3>1. Has(down, Status(101)) => Has(down \o service.rest, Status(101))
        BY <1>0, HasJoined
    <3> QED BY <1>1, <2>1, <3>1 DEF Switched
  <2>3. (down \o service.rest) \o <<>> = down \o service.rest
    <3>1. down \o service.rest \in Seq(Pieces)
        BY <1>0, Joined
    <3> QED BY <3>1, ConcatEmptySeq
  <2>4. (down' \o service'.rest) \o back' = (down \o service.rest) \o back
      BY <2>1, <2>3
  <2> QED BY <1>1, <2>1, <2>2, <2>4 DEF Whole
<1>5. CASE CopyDown
  <2>1. /\ Copied("down", Head(back)) /\ down' = Append(down, Head(back))
        /\ back' = Tail(back) /\ back # <<>> /\ UNCHANGED <<client, app, up, out>>
      BY <1>2, <1>5 DEF CopyDown
  <2>2. service.at = "copying" /\ service'.rest = service.rest
      BY <1>5, <2>1, Goings
  <2>3. service.rest = <<>>
      BY <2>2 DEF Service
  <2>4. Head(back) \in Pieces /\ Tail(back) \in Seq(Pieces)
        /\ Append(down, Head(back)) \in Seq(Pieces)
      BY <1>0, <2>1, Tailed, Appended
  <2>5. Switched'
    <3>1. Has(down, Status(101)) => Has(Append(down, Head(back)), Status(101))
        BY <1>0, <2>4, HasKept
    <3> QED BY <1>1, <2>1, <3>1 DEF Switched
  <2>6. (down' \o service'.rest) \o back' = (down \o service.rest) \o back
    <3>1. down \o <<>> = down /\ Append(down, Head(back)) \o <<>> = Append(down, Head(back))
        BY <1>0, <2>4, ConcatEmptySeq
    <3>2. Append(down, Head(back)) \o Tail(back) = down \o back
        BY <1>0, <2>1, Moves
    <3> QED BY <2>1, <2>2, <2>3, <3>1, <3>2
  <2>7. "down" \in service'.done => Head(back) = Eof \/ "down" \in service.done
      BY <1>0, <2>1 DEF Copied, ServiceState
  <2>8. Head(back) = Eof => Tail(back) = <<>> /\ app.conn = "closed"
    <3>1. /\ \A i \in Of(back, {"eof"}) : i = Len(back)
          /\ app.conn # "closed" => Of(back, {"eof"}) = {}
        BY DEF Upgraded
    <3> QED BY <1>0, <2>1, <3>1, EofIsLast
  <2>9. "down" \notin service.done
      BY <1>5 DEF CopyDown
  <2>10. "up" \in service'.done => "up" \in service.done
      BY <1>0, <2>1 DEF Copied, ServiceState
  <2> QED BY <1>1, <2>1, <2>5, <2>6, <2>7, <2>8, <2>9, <2>10 DEF Whole
<1>6. CASE CopyUp
  <2>1. /\ Copied("up", Head(up)) /\ out' = Append(out, Head(up))
        /\ up' = Tail(up) /\ up # <<>> /\ UNCHANGED <<client, app, down, back>>
      BY <1>2, <1>6 DEF CopyUp
  <2>2. service'.rest = service.rest
      BY <1>6, <2>1, Goings
  <2>3. Only(up', {"frame", "eof"})
      BY <1>0, <1>1, <2>1, OnlyTailed
  <2>4. Switched'
      BY <1>1, <2>1 DEF Switched
  <2>5. out' \o up' = out \o up
      BY <1>0, <2>1, Moves
  <2>6. "up" \in service'.done => Head(up) = Eof \/ "up" \in service.done
      BY <1>0, <2>1 DEF Copied, ServiceState
  <2>7. Head(up) = Eof => Tail(up) = <<>> /\ client.at = "finished"
    <3>1. /\ \A i \in Of(up, {"eof"}) : i = Len(up)
          /\ client.at = "open" => Of(up, {"eof"}) = {}
        BY DEF Ending
    <3>2. client.at \in {"open", "finished"}
        BY <1>0 DEF ClientState, Left
    <3> QED BY <1>0, <2>1, <3>1, <3>2, EofIsLast
  <2>8. "up" \notin service.done
      BY <1>6 DEF CopyUp
  <2>9. "down" \in service'.done => "down" \in service.done
      BY <1>0, <2>1 DEF Copied, ServiceState
  <2> QED BY <1>1, <2>1, <2>2, <2>3, <2>4, <2>5, <2>6, <2>7, <2>8, <2>9 DEF Whole
<1>7. CASE EndTunnel
    BY <1>0, <1>7 DEF EndTunnel, Goes, Tunneling, ServiceState
<1> QED BY <1>3, <1>4, <1>5, <1>6, <1>7 DEF Tunnel

LEMMA StepWhole ==
    ASSUME Typed, AppInv, DeviceInv, Flows, Whole, [Next]_vars
    PROVE  Whole'
<1> USE DEF stream, upstream, vars
<1>0. service \in ServiceState
    BY DEF Typed
<1> SUFFICES ASSUME ~Left', service'.at \in Tunneling
             PROVE  Whole'
    BY DEF Whole
<1>1. ~Left
    BY LeftStays
<1>2. CASE service.at \in Tunneling
  <2>1. CASE UNCHANGED vars
      BY <2>1 DEF Whole, Switched, Left
  <2>2. CASE LoseClient
      BY <1>1, <2>2 DEF LoseClient
  <2> QED BY <1>1, <1>2, <2>1, <2>2, InTunnel, DeviceWhole, AppWhole, TunnelWhole
<1>3. CASE service.at \notin Tunneling
  <2>1. SwitchProtocols
    <3>1. CASE Device \/ App \/ Tick \/ UNCHANGED vars
      <4>1. service'.at = service.at
        <5>1. CASE Tick
            BY <1>0, <5>1 DEF Tick, ServiceState
        <5> QED BY <3>1, <5>1 DEF Device, Ask, SendBody, SendFrame, Finish, Leave, Hear, App, AppReads,
                  AppBegins, AppAnswers, AppSends, AppEnds, AppCloses
      <4> QED BY <1>3, <4>1
    <3>2. CASE Settled'
        BY <3>2 DEF Settled, Tunneling
    <3>3. CASE GoesOn
        BY <1>1, <1>3, <3>3, Goings DEF GoesOn, Tunneling
    <3> QED BY <3>1, <3>2, <3>3, Steps
  <2> QED BY <2>1, SwitchesWhole DEF AppInv, DeviceInv
<1> QED BY <1>2, <1>3

\* Only what copies is done with a direction.
LEMMA DoneStays ==
    ASSUME Typed, Serve \/ Proxy \/ Upgrade
    PROVE  service'.done = service.done
<1>0. service \in ServiceState
    BY DEF Typed
<1>1. Closes => service'.done = service.done
    BY Closed
<1>2. \A code : Answers(code) => service'.done = service.done
    BY <1>0 DEF Answers, ServiceState
<1>3. \A at : Goes(at) => service'.done = service.done
    BY <1>0 DEF Goes, ServiceState
<1>4. CASE Serve
    BY <1>0, <1>1, <1>2, <1>3, <1>4 DEF Serve, AnswerHub, BeginRename, Rename, RefuseRename,
        AnswerUnknownApp, BeginPlain, BeginUpgrade, EndRequests, LoseClient, ServiceState
<1>5. CASE Proxy
    BY <1>1, <1>2, <1>3, <1>5 DEF Proxy, ReachApp, CannotReach, TimeOut, RelayHead, RelayBody,
        BreakBody
<1>6. CASE Upgrade
  <2>1. CASE ReadMore \/ SwitchProtocols
      BY <1>0, <2>1 DEF ReadMore, SwitchProtocols, ServiceState
  <2>2. CASE ConnectUpgrade \/ AskUpgrade \/ RefuseOversized \/ RefuseClosed \/ RefuseUpgrade
             \/ SwitchTooLate
      BY <1>1, <1>2, <1>3, <2>2 DEF ConnectUpgrade, AskUpgrade, RefuseOversized, RefuseClosed,
          RefuseUpgrade, SwitchTooLate
  <2> QED BY <1>6, <2>1, <2>2 DEF Upgrade
<1> QED BY <1>4, <1>5, <1>6

LEMMA StepEnded ==
    ASSUME Typed, AppInv, DeviceInv, TunnelInv, [Next]_vars
    PROVE  Ended'
<1> USE DEF stream, upstream, vars, AppInv, DeviceInv, TunnelInv
<1>0. /\ client \in ClientState /\ service \in ServiceState /\ app \in AppState
      /\ down \in Seq(Pieces) /\ app.sent \in Nat
    BY TypedWires DEF Typed, AppState
<1> SUFFICES ASSUME ~Left', service'.at = "closed", service'.done = Ways, Switched'
             PROVE  Ended'
    BY DEF Ended
<1>1. ~Left
    BY LeftStays
<1>2. CASE service.at = "closed"
  <2>1. Switched
    <3>1. ~SwitchProtocols
        BY <1>2, Goings
    <3> QED BY <3>1, SwitchesOnce
  <2>2. ASSUME service.done = Ways
        PROVE  /\ Carries(down, Len(client.got), app.sent) /\ app.conn = "closed"
               /\ Carries(out, Len(app.got), client.sent) /\ client.at = "finished"
      BY <1>1, <1>2, <2>1, <2>2 DEF Ended
  <2>3. CASE UNCHANGED vars
      BY <2>2, <2>3 DEF Ended
  <2>4. CASE Device
    <3>1. /\ Carries(down, Len(client.got), app.sent) /\ app.conn = "closed"
          /\ Carries(out, Len(app.got), client.sent) /\ client.at = "finished"
      <4>1. service' = service
          BY <2>4 DEF Device, Ask, SendBody, SendFrame, Finish, Leave, Hear
      <4> QED BY <2>2, <4>1
    <3>2. CASE Leave
        BY <1>0, <3>2 DEF Leave, Left, ClientState
    <3>3. CASE Hear
      <4>1. /\ client.got = UpTo(Len(client.got)) /\ Len(client.got) <= app.sent
            /\ Partial(down, Len(client.got), app.sent)
          BY <2>1 DEF Flows
      <4>2. /\ down # <<>> /\ down' = Tail(down) /\ UNCHANGED <<app, out>>
            /\ client'.sent = client.sent /\ client'.at = client.at
            /\ \A w \in Seq(Pieces) : Carries(down \o w, Len(client.got), app.sent) =>
                                         Carries(down' \o w, Len(client'.got), app.sent)
          BY <1>0, <3>3, <4>1, Hearing
      <4>3. down' \in Seq(Pieces) /\ <<>> \in Seq(Pieces)
          BY <1>0, <4>2, Tailed
      <4>4. down \o <<>> = down /\ down' \o <<>> = down'
          BY <1>0, <4>3, ConcatEmptySeq
      <4>5. Carries(down', Len(client'.got), app.sent)
          BY <3>1, <4>2, <4>3, <4>4
      <4> QED BY <3>1, <4>2, <4>5 DEF Ended
    <3> QED BY <2>4, <3>1, <3>2, <3>3 DEF Device, Ask, SendBody, SendFrame, Finish
  <2>5. CASE App
    <3>1. service' = service /\ app.conn = "open"
        BY <2>5 DEF App, AppReads, AppBegins, AppAnswers, AppSends, AppEnds, AppCloses, Begun
    <3> QED BY <2>2, <3>1
  <2>6. ~LoseClient
      BY <1>1 DEF LoseClient
  <2>7. ~Tunnel
      BY <1>2 DEF Tunnel, Handover, PassLeftover, CopyDown, CopyUp, EndTunnel
  <2> QED BY <1>2, <2>3, <2>4, <2>5, <2>6, <2>7, InTunnel
<1>3. CASE service.at # "closed"
  <2>1. EndTunnel
    <3>1. CASE Device \/ App \/ Tick \/ UNCHANGED vars
      <4>1. CASE Tick
          BY <1>0, <1>3, <4>1 DEF Tick, ServiceState
      <4> QED BY <1>3, <3>1, <4>1 DEF Device, Ask, SendBody, SendFrame, Finish, Leave, Hear, App,
                AppReads, AppBegins, AppAnswers, AppSends, AppEnds, AppCloses
    <3>2. CASE Serve \/ Proxy \/ Upgrade
      <4>1. service.at = "copying"
        <5>1. service.done # {}
            BY <3>2, DoneStays DEF Ways
        <5> QED BY <1>3, <5>1 DEF Service
      <4>2. ~LoseClient
          BY <1>1 DEF LoseClient
      <4> QED BY <3>2, <4>1, <4>2 DEF Serve, AnswerHub, BeginRename, Rename, RefuseRename,
                AnswerUnknownApp, BeginPlain, BeginUpgrade, EndRequests, Takes, Proxy, ReachApp,
                CannotReach, TimeOut, RelayHead, RelayBody, BreakBody, Upgrade, ConnectUpgrade,
                AskUpgrade, ReadMore, Reads, RefuseOversized, RefuseClosed, RefuseUpgrade,
                SwitchProtocols, SwitchTooLate
    <3>3. CASE Handover \/ PassLeftover
        BY <3>3, Goings
    <3>4. CASE CopyDown
      <4>1. ~(Closes /\ Drops)
          BY <3>4, Closed DEF CopyDown, Ways
      <4> QED BY <3>4, <4>1, Goings DEF CopyDown
    <3>5. CASE CopyUp
      <4>1. ~(Closes /\ Drops)
          BY <3>5, Closed DEF CopyUp, Ways
      <4> QED BY <3>5, <4>1, Goings DEF CopyUp
    <3> QED BY <3>1, <3>2, <3>3, <3>4, <3>5 DEF Next, Tunnel
  <2>2. /\ service.at = "copying" /\ service.done = Ways
        /\ UNCHANGED <<client, app, down, out, up, back>>
      BY <2>1 DEF EndTunnel
  <2>3. /\ Carries((down \o service.rest) \o back, Len(client.got), app.sent)
        /\ Carries(out \o up, Len(app.got), client.sent)
        /\ back = <<>> /\ app.conn = "closed" /\ up = <<>> /\ client.at = "finished"
      BY <1>1, <2>2 DEF Whole, Tunneling, Ways
  <2>4. service.rest = <<>>
      BY <2>2 DEF Service
  <2>5. down \o <<>> = down /\ out \o <<>> = out
      BY <1>0, TypedWires, ConcatEmptySeq
  <2>6. Carries(down, Len(client.got), app.sent) /\ Carries(out, Len(app.got), client.sent)
      BY <2>3, <2>4, <2>5
  <2> QED BY <2>2, <2>3, <2>6 DEF Ended
<1> QED BY <1>2, <1>3

----------------------------------------------------------------------------
(* Theorems                                                                *)

Inv == Typed /\ AppInv /\ DeviceInv /\ TunnelInv

LEMMA InitInv ==
    ASSUME Init
    PROVE  Inv
<1>1. /\ up = <<>> /\ down = <<>> /\ out = <<>> /\ back = <<>>
      /\ client = [at |-> "open", asks |-> 0, waits |-> "none", tunnel |-> FALSE,
                   sent |-> 0, got |-> <<>>]
      /\ service = [at |-> "idle", waited |-> 0, rest |-> <<>>, done |-> {}]
    BY DEF Init, NewService
<1>2. PICK mute \in BOOLEAN :
         app = [conn |-> "none", ask |-> "none", parts |-> 0, code |-> 0,
                sent |-> 0, got |-> <<>>, told |-> FALSE, mute |-> mute]
    BY DEF Init, NoApp
<1>3. 0 \in 0..MaxAsks /\ 0 \in 0..MaxFrames /\ 0 \in 0..MaxParts /\ 0 \in 0..ProxyTimeout + 1
    BY NumberAssumption
<1>4. \A S : <<>> \in Seq(S)
    BY EmptySeq
<1>5. Typed
  <2>1. client \in ClientState
      BY <1>1, <1>3, <1>4 DEF ClientState
  <2>2. service \in ServiceState
      BY <1>1, <1>3, <1>4 DEF ServiceState
  <2>3. app \in AppState
      BY <1>2, <1>3, <1>4 DEF AppState
  <2> QED BY <1>1, <1>4, <2>1, <2>2, <2>3 DEF Typed
<1>6. AppInv
    BY <1>1 DEF AppInv, Service, Plain, Upgraded, HeadComes, HeadCame, Upgrading, Tunneling
<1>7. \A kinds : Of(<<>>, kinds) = {}
    BY DEF Of
<1>8. Frames(<<>>) = {} /\ \A p : ~Has(<<>>, p)
    BY DEF Frames, Has
<1>9. DeviceInv
  <2>1. Ending
      BY <1>1, <1>7, <1>8 DEF Ending
  <2>2. Waiting
      BY <1>1, <1>7 DEF Waiting, AtMostOne
  <2>3. Handled
      BY <1>1 DEF Handled, Handling, Upgrading
  <2>4. Bodies
      BY <1>1, <1>7 DEF Bodies, AtMostOne
  <2> QED BY <2>1, <2>2, <2>3, <2>4 DEF DeviceInv
<1>10. TunnelInv
  <2>1. ~Switched
      BY <1>1, <1>8 DEF Switched
  <2>2. Whole
      BY <1>1 DEF Whole, Tunneling
  <2> QED BY <2>1, <2>2 DEF TunnelInv, Flows, Ended
<1> QED BY <1>5, <1>6, <1>9, <1>10 DEF Inv

LEMMA StepInv ==
    ASSUME Inv, [Next]_vars
    PROVE  Inv'
<1>1. Typed' /\ AppInv' /\ DeviceInv'
    BY StepTyped, StepAppInv, StepDeviceInv DEF Inv
<1>2. Flows' /\ Whole' /\ Ended'
    BY StepFlows, StepWhole, StepEnded DEF Inv, AppInv, DeviceInv, TunnelInv
<1> QED BY <1>1, <1>2 DEF Inv, TunnelInv

\* The requests, the upgrade and the tunnel of a stream keep the invariant.
THEOREM SpecInv == Spec => []Inv
<1>1. Init => Inv
    BY InitInv
<1>2. Inv /\ [Next]_vars => Inv'
    BY StepInv
<1> QED BY <1>1, <1>2, PTL DEF Spec

\* Every variable of a stream has its type, and what goes to the device has a
\* status that is one, whatever the app answers.
THEOREM SpecTyped == Spec => []TypeOK
<1>1. Inv => TypeOK
  <2> SUFFICES ASSUME Inv
               PROVE  TypeOK
      OBVIOUS
  <2>1. Typed
      BY DEF Inv
  <2> DEFINE P == [kind : Asks \cup {"body", "part", "frame", "end", "eof"}, n : 0..MaxFrames]
                  \cup [kind : {"status"}, n : 100..999]
  <2>2. 0 \in 0..MaxFrames /\ 1..MaxFrames \subseteq 0..MaxFrames
      BY NumberAssumption
  <2>3. UpPiece \subseteq P /\ DownPiece \subseteq P /\ OutPiece \subseteq P
      BY <2>2 DEF UpPiece, DownPiece, OutPiece, FramePiece
  <2>4. Wire = Seq(P)
      BY DEF Wire
  <2> HIDE DEF P
  <2>5. up \in Wire /\ down \in Wire /\ out \in Wire
      BY <2>1, <2>3, <2>4, SeqMonotonic DEF Typed
  <2>6. client \in ClientState /\ service \in ServiceState /\ app \in AppState
      BY <2>1 DEF Typed
  <2> QED BY <2>5, <2>6 DEF TypeOK, ClientState, ServiceState, AppState, Handling, Upgrading,
            Tunneling, Awaiting
<1> QED BY <1>1, SpecInv, PTL

\* A tunnel neither loses, reorders nor repeats what either side sends, and if
\* it ended because both had finished, all of it has arrived or is on its way
\* to the one it is for.
THEOREM SpecTunnelIsWhole == Spec => []TunnelIsWhole
<1>1. Inv => TunnelIsWhole
  <2> SUFFICES ASSUME Inv, client.tunnel
               PROVE  /\ IsPrefix(client.got, UpTo(app.sent)) /\ IsPrefix(app.got, UpTo(client.sent))
                      /\ service.done = Ways /\ ~Left =>
                            /\ Carries(down, Len(client.got), app.sent)
                            /\ Carries(out, Len(app.got), client.sent)
      BY DEF TunnelIsWhole
  <2>1. Typed /\ Service /\ Flows /\ Whole /\ Ended
      BY DEF Inv, AppInv, TunnelInv
  <2>2. /\ client.sent \in Nat /\ app.sent \in Nat
        /\ Len(client.got) \in Nat /\ Len(app.got) \in Nat
        /\ down \in Seq(Pieces) /\ out \in Seq(Pieces)
    <3>1. client \in ClientState /\ app \in AppState
        BY <2>1 DEF Typed
    <3> QED BY <2>1, <3>1, LenProperties, TypedWires DEF ClientState, AppState
  <2>3. Switched
      BY DEF Switched
  <2>4. /\ service.at \in Tunneling \cup {"closed"}
        /\ client.got = UpTo(Len(client.got)) /\ Len(client.got) <= app.sent
        /\ app.got = UpTo(Len(app.got)) /\ Len(app.got) <= client.sent
      BY <2>1, <2>3 DEF Flows
  <2>5. /\ IsPrefix(UpTo(Len(client.got)), UpTo(app.sent))
        /\ IsPrefix(UpTo(Len(app.got)), UpTo(client.sent))
      BY <2>2, <2>4, UpToPrefix
  <2>6. ASSUME service.done = Ways, ~Left
        PROVE  /\ Carries(down, Len(client.got), app.sent)
               /\ Carries(out, Len(app.got), client.sent)
    <3>1. CASE service.at = "closed"
        BY <2>1, <2>3, <2>6, <3>1 DEF Ended
    <3>2. CASE service.at # "closed"
      <4>1. service.at = "copying"
          BY <2>1, <2>6, <3>2 DEF Service, Ways
      <4>2. /\ Carries((down \o service.rest) \o back, Len(client.got), app.sent)
            /\ Carries(out \o up, Len(app.got), client.sent)
            /\ back = <<>> /\ up = <<>> /\ service.rest = <<>>
          BY <2>1, <2>6, <4>1 DEF Whole, Tunneling, Ways, Service
      <4>3. down \o <<>> = down /\ out \o <<>> = out
          BY <2>2, ConcatEmptySeq
      <4> QED BY <4>2, <4>3
    <3> QED BY <3>1, <3>2
  <2> QED BY <2>4, <2>5, <2>6
<1> QED BY <1>1, SpecInv, PTL
=============================================================================
