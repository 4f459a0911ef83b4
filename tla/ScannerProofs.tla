----------------------------- MODULE ScannerProofs -----------------------------
(***************************************************************************)
(* What a round leaves behind, for a disk of any size cut into segments of *)
(* any size, whatever it meets and whenever it is stopped or dies.         *)
(***************************************************************************)
EXTENDS Scanner, WellFoundedInduction, TLAPS

-----------------------------------------------------------------------------
(* Segments and their blocks.                                              *)

LEMMA Division ==
  ASSUME NEW n \in Nat, NEW d \in Nat \ {0}
  PROVE  /\ n \div d \in Nat
         /\ (n \div d) * d <= n /\ n < (n \div d) * d + d
  OBVIOUS

LEMMA Monotone ==
  ASSUME NEW a \in Nat, NEW b \in Nat, NEW d \in Nat, a <= b
  PROVE  a * d <= b * d
  OBVIOUS

LEMMA Quotient ==
  ASSUME NEW s \in Nat, NEW n \in Nat, NEW d \in Nat \ {0}, s * d <= n, n < s * d + d
  PROVE  n \div d = s
  BY Division

LEMMA SegCountFacts ==
  /\ SegCount \in Nat /\ SegCount # 0 /\ Blocks <= SegCount * PerSeg
  /\ \A s \in Nat : s \in Seg <=> s * PerSeg < Blocks
<1> DEFINE n == Blocks + PerSeg - 1
<1>1. n \in Nat /\ Blocks \in Nat /\ PerSeg \in Nat \ {0}
  BY ScannerAssumption
<1>2. /\ SegCount \in Nat /\ SegCount * PerSeg <= n /\ n < SegCount * PerSeg + PerSeg
  BY <1>1, Division DEF SegCount
<1>3. SegCount * PerSeg \in Nat
  BY <1>1, <1>2
<1>4. Blocks <= SegCount * PerSeg
  BY <1>1, <1>2, <1>3
<1>5. SegCount # 0
  BY <1>1, <1>2, <1>4, ScannerAssumption
<1>6. ASSUME NEW s \in Nat, s < SegCount PROVE s * PerSeg < Blocks
  <2>1. (s + 1) * PerSeg <= SegCount * PerSeg
    BY <1>1, <1>2, <1>6, Monotone
  <2>2. (s + 1) * PerSeg = s * PerSeg + PerSeg /\ s * PerSeg \in Nat
    BY <1>1
  <2> QED
    BY <1>1, <1>2, <1>3, <2>1, <2>2
<1>7. ASSUME NEW s \in Nat, s >= SegCount PROVE s * PerSeg >= Blocks
  <2>1. SegCount * PerSeg <= s * PerSeg /\ s * PerSeg \in Nat
    BY <1>1, <1>2, <1>7, Monotone
  <2> QED
    BY <1>1, <1>3, <1>4, <2>1
<1>8. ASSUME NEW s \in Nat PROVE s \in Seg <=> s * PerSeg < Blocks
  <2>1. s \in Seg <=> s < SegCount
    BY <1>2 DEF Seg
  <2>2. s * PerSeg \in Nat
    BY <1>1
  <2> QED
    BY <1>1, <1>2, <1>6, <1>7, <2>1, <2>2
<1> QED
  BY <1>2, <1>4, <1>5, <1>8

LEMMA BlockFacts ==
  ASSUME NEW s \in Seg
  PROVE  /\ First(s) \in Nat /\ Last(s) \in Nat /\ First(s) < Last(s) /\ Last(s) <= Blocks
         /\ First(s) \in BlocksOf(s) /\ BlocksOf(s) \subseteq Block
         /\ \A b \in BlocksOf(s) : b \div PerSeg = s
<1>1. s \in Nat /\ Blocks \in Nat /\ PerSeg \in Nat \ {0}
  BY ScannerAssumption, SegCountFacts DEF Seg
<1>2. First(s) \in Nat /\ First(s) < Blocks
  BY <1>1, SegCountFacts DEF First
<1>3. /\ Last(s) \in Nat /\ First(s) < Last(s) /\ Last(s) <= Blocks
      /\ Last(s) <= First(s) + PerSeg
  BY <1>1, <1>2 DEF Last
<1>4. \A b \in BlocksOf(s) : b \in Nat /\ s * PerSeg <= b /\ b < s * PerSeg + PerSeg
  BY <1>1, <1>2, <1>3 DEF BlocksOf, First
<1>5. \A b \in BlocksOf(s) : b \div PerSeg = s
  BY <1>1, <1>4, Quotient
<1>6. First(s) \in BlocksOf(s) /\ BlocksOf(s) \subseteq Block
  BY <1>1, <1>2, <1>3 DEF BlocksOf, Block
<1> QED
  BY <1>2, <1>3, <1>5, <1>6

\* Every block is in a segment.
LEMMA SegOfBlock ==
  ASSUME NEW b \in Block
  PROVE  b \div PerSeg \in Seg /\ b \in BlocksOf(b \div PerSeg)
<1> DEFINE q == b \div PerSeg
<1>1. b \in Nat /\ b < Blocks /\ Blocks \in Nat /\ PerSeg \in Nat \ {0}
  BY ScannerAssumption DEF Block
<1>2. q \in Nat /\ q * PerSeg <= b /\ b < q * PerSeg + PerSeg
  BY <1>1, Division
<1> HIDE DEF q
<1>3. q * PerSeg \in Nat
  BY <1>1, <1>2
<1>4. q \in Seg
  BY <1>1, <1>2, <1>3, SegCountFacts
<1>5. b \in BlocksOf(q)
  BY <1>1, <1>2, <1>3 DEF BlocksOf, First, Last
<1> QED
  BY <1>4, <1>5 DEF q

-----------------------------------------------------------------------------
(* The invariant of a round.                                               *)

Active == rd.pc \notin {"off", "idle"}

\* A segment the round has finished with was read whole, or is owed.
SweptSoFar ==
  Active => \A s \in Seg \ rd.left : s \in rd.again \/ BlocksOf(s) \subseteq rd.lat

\* The segment that is being read is still to be finished with, and it has been
\* read as far as the block the round is at.
InSegment ==
  At("segment") => /\ Here \in rd.left /\ rd.at \in BlocksOf(Here)
                   /\ \A b \in BlocksOf(Here) : b < rd.at => b \in rd.lat

\* A round that met nothing defers nothing, and goes on to its re-probe when the
\* sweep is through.
CleanSoFar ==
  Active /\ rd.out = "clean" =>
    /\ ~rd.stopped /\ (~rd.media => rd.again = {})
    /\ rd.pc \in {"probe", "rewrite", "finish"} => rd.left = {}

RoundInv == TypeOK /\ SweptSoFar /\ InSegment /\ CleanSoFar

LEMMA WrappedType == ASSUME NEW s \in Nat PROVE Wrapped(s) \in Seg
<1>1. 0 \in Seg
  BY SegCountFacts, ScannerAssumption DEF Seg
<1>2. s * PerSeg \in Nat /\ Blocks \in Nat
  BY ScannerAssumption
<1> QED
  BY <1>1, <1>2, SegCountFacts DEF Wrapped

LEMMA NextCursorType ==
  ASSUME TypeOK, NEW out, NEW reached \in 0 .. Blocks
  PROVE  NextCursor(out, reached) \in Seg
<1>1. cursor \in Nat /\ reached \in Nat /\ PerSeg \in Nat \ {0}
  BY ScannerAssumption, SegCountFacts DEF TypeOK, Seg
<1>2. reached \div PerSeg + 1 \in Nat
  BY <1>1, Division
<1> QED
  BY <1>1, <1>2, WrappedType DEF NextCursor

-----------------------------------------------------------------------------
(* The rotation of a round, and its next segment.                          *)

\* s is before t in a rotation of n that begins at c.
Rotated(s, c, n) == IF s < c THEN s + n - c ELSE s - c

LEMMA Modulo ==
  ASSUME NEW a \in Nat, NEW n \in Nat \ {0}, a < 2 * n
  PROVE  a % n = IF a < n THEN a ELSE a - n
  OBVIOUS

LEMMA Rotation ==
  ASSUME NEW s \in Seg, NEW c \in Seg
  PROVE  /\ (s + SegCount - c) % SegCount = Rotated(s, c, SegCount)
         /\ Rotated(s, c, SegCount) \in Nat
<1>1. /\ s \in Nat /\ c \in Nat /\ SegCount \in Nat \ {0}
      /\ s < SegCount /\ c < SegCount
  BY SegCountFacts DEF Seg
<1>2. s + SegCount - c \in Nat /\ s + SegCount - c < 2 * SegCount
  BY <1>1
<1> DEFINE a == s + SegCount - c
<1>3. a \in Nat /\ a < 2 * SegCount /\ SegCount \in Nat \ {0}
  BY <1>1, <1>2
<1>4. /\ a < SegCount <=> s < c
      /\ a - SegCount = s - c /\ a \in Nat /\ (~(s < c) => s - c \in Nat)
  BY <1>1, <1>2
<1> HIDE DEF a
<1>5. a % SegCount = IF a < SegCount THEN a ELSE a - SegCount
  BY <1>3, Modulo
<1>6. a % SegCount = IF s < c THEN a ELSE s - c
  BY <1>4, <1>5
<1> QED
  BY <1>4, <1>6 DEF a, Rotated

LEMMA LeastNumber ==
  ASSUME NEW T, T \in SUBSET Nat, T # {}
  PROVE  \E x \in T : \A y \in T : x <= y
<1> DEFINE R == OpToRel(<, Nat)
<1>1. IsWellFoundedOn(R, Nat)
  BY NatLessThanWellFounded
<1>2. \A x, y \in Nat : <<y, x>> \in R <=> y < x
  BY DEF OpToRel
<1> HIDE DEF R
<1>3. PICK x \in T : \A y \in T : ~(<<y, x>> \in R)
  BY <1>1, WFMin
<1>4. \A y \in T : ~(y < x)
  BY <1>2, <1>3
<1> QED
  BY <1>4

LEMMA NextExists ==
  ASSUME TypeOK, NEW left, left \subseteq Seg, left # {}
  PROVE  \E s \in left : IsNext(s, left)
<1>1. CASE left \cap owed # {}
  <2>1. left \cap owed \in SUBSET Nat
    <3>1. \A s \in Seg : s \in Nat
      BY SegCountFacts DEF Seg
    <3> QED
      BY <3>1
  <2>2. PICK s \in left \cap owed : \A t \in left \cap owed : s <= t
    BY <1>1, <2>1, LeastNumber
  <2> QED
    BY <2>2 DEF IsNext
<1>2. CASE left \cap owed = {}
  <2> DEFINE T == {Distance(t) : t \in left}
  <2>1. T \in SUBSET Nat /\ T # {}
    BY Rotation DEF TypeOK, Distance
  <2>2. PICK d \in T : \A e \in T : d <= e
    BY <2>1, LeastNumber
  <2>3. PICK s \in left : d = Distance(s)
    BY <2>2
  <2>4. \A t \in left : Distance(s) <= Distance(t)
    BY <2>2, <2>3
  <2> QED
    BY <1>2, <2>4 DEF IsNext
<1> QED
  BY <1>1, <1>2

LEMMA ResumedType ==
  ASSUME TypeOK, NEW r \in Round
  PROVE  /\ Resumed(r) \in Seg
         /\ Interrupted(r) =>
              \E s \in r.left : IsNext(s, r.left) /\ Resumed(r) = IF s \in owed THEN cursor ELSE s
<1>1. r.left \subseteq Seg /\ r.reached \in 0 .. Blocks /\ cursor \in Seg
  BY DEF Round, TypeOK
<1>2. CASE ~Interrupted(r)
  BY <1>1, <1>2, NextCursorType DEF Resumed
<1>3. CASE Interrupted(r)
  <2> DEFINE s == CHOOSE s \in r.left : IsNext(s, r.left)
  <2>1. s \in r.left /\ IsNext(s, r.left)
    BY <1>1, <1>3, NextExists DEF Interrupted
  <2>2. Resumed(r) = IF s \in owed THEN cursor ELSE s
    BY <1>3 DEF Resumed
  <2> HIDE DEF s
  <2> QED
    BY <1>1, <2>1, <2>2
<1> QED
  BY <1>2, <1>3

-----------------------------------------------------------------------------
(* One step of a round.                                                    *)

LEMMA RoundFields ==
  ASSUME TypeOK
  PROVE  /\ rd.left \subseteq Seg /\ rd.at \in 0 .. Blocks /\ rd.reached \in 0 .. Blocks
         /\ rd.lat \subseteq Block /\ rd.again \subseteq Seg /\ rd.out \in Outcome
         /\ rd.stopped \in BOOLEAN /\ rd.media \in BOOLEAN
         /\ rd.slow \in Nat /\ rd.danger \in Nat /\ cursor \in Seg /\ Blocks \in Nat \ {0}
         /\ First(cursor) \in 0 .. Blocks
<1>1. cursor \in Seg /\ rd \in Round
  BY DEF TypeOK
<1>2. First(cursor) \in 0 .. Blocks
  BY <1>1, BlockFacts, ScannerAssumption
<1> QED
  BY <1>1, <1>2, ScannerAssumption DEF Round

LEMMA BeginRound == RoundInv /\ Begin => RoundInv'
<1> SUFFICES ASSUME RoundInv, Begin PROVE RoundInv'
  OBVIOUS
<1>1. rd' = NewRound /\ UNCHANGED Stored
  BY DEF Begin, Go
<1>2. First(cursor) \in 0 .. Blocks
  BY RoundFields DEF RoundInv
<1>3. TypeOK'
  BY <1>1, <1>2, ScannerAssumption DEF RoundInv, TypeOK, Stored, Round, NewRound, Outcome
<1> QED
  BY <1>1, <1>3
  DEF RoundInv, SweptSoFar, InSegment, CleanSoFar, Active, At, NewRound

LEMMA WarmupRound == RoundInv /\ Warmup => RoundInv'
<1> SUFFICES ASSUME RoundInv, Warmup PROVE RoundInv'
  OBVIOUS
<1> USE DEF RoundInv
<1>1. 0 \in Seg
  BY SegCountFacts DEF Seg
<1>2. cursor' \in Seg /\ owed' \subseteq Seg /\ calm' \in BOOLEAN
  BY <1>1 DEF TypeOK, Warmup, Stored
<1>3. rd' \in Round
  <2>1. rd \in Round /\ {"dropout", "cancelled"} \subseteq Outcome
    BY DEF TypeOK, Outcome
  <2>2. \/ rd' = [rd EXCEPT !.pc = "sweep"]
        \/ rd' = [rd EXCEPT !.pc = "idle", !.out = "dropout"]
        \/ rd' = [rd EXCEPT !.pc = "idle", !.out = "cancelled"]
    BY DEF Warmup, Go
  <2> QED
    BY <2>1, <2>2 DEF Round
<1>4. CASE rd' = [rd EXCEPT !.pc = "sweep"]
  BY <1>2, <1>3, <1>4
  DEF TypeOK, SweptSoFar, InSegment, CleanSoFar, Active, At, Round, Warmup
<1>5. CASE rd'.pc = "idle"
  BY <1>2, <1>3, <1>5 DEF TypeOK, SweptSoFar, InSegment, CleanSoFar, Active, At
<1> QED
  BY <1>4, <1>5 DEF Warmup, Go, TypeOK, Round

\* What is read stays read and what is deferred stays deferred: a segment that is
\* finished with must be one or the other.
LEMMA SweptGrows ==
  ASSUME RoundInv, Active, rd.lat \subseteq rd'.lat, rd.again \subseteq rd'.again,
         \A s \in rd.left \ rd'.left : s \in rd'.again \/ BlocksOf(s) \subseteq rd'.lat
  PROVE  SweptSoFar'
<1>1. \A s \in Seg : BlocksOf(s)' = BlocksOf(s) /\ Seg' = Seg
  OBVIOUS
<1> QED
  BY <1>1 DEF RoundInv, SweptSoFar

LEMMA NextSegmentRound == RoundInv /\ NextSegment => RoundInv'
<1> SUFFICES ASSUME RoundInv, NextSegment PROVE RoundInv'
  OBVIOUS
<1> USE DEF RoundInv
<1>1. UNCHANGED Stored /\ Active /\ rd.pc = "sweep" /\ rd \in Round
  BY DEF NextSegment, Active, At, TypeOK
<1>2. ASSUME NEW pc \in {"probe"}, NEW out \in Outcome \ {"clean"}, NEW st \in BOOLEAN,
             rd' = [rd EXCEPT !.pc = pc, !.out = out, !.stopped = st]
      PROVE  RoundInv'
  <2>1. rd' \in Round
    BY <1>1, <1>2 DEF Round
  <2>2. SweptSoFar'
    BY <1>1, <1>2, SweptGrows DEF Round
  <2> QED
    BY <1>1, <1>2, <2>1, <2>2 DEF TypeOK, Stored, InSegment, CleanSoFar, At, Round
<1>3. ASSUME NEW s \in rd.left, IsNext(s, rd.left),
             rd' = [rd EXCEPT !.pc = "segment", !.at = First(s)]
      PROVE  RoundInv'
  <2>1. s \in Seg
    BY <1>1 DEF Round
  <2>2. /\ First(s) \in 0 .. Blocks /\ First(s) \div PerSeg = s /\ First(s) \in BlocksOf(s)
        /\ \A b \in BlocksOf(s) : ~(b < First(s))
    BY <2>1, BlockFacts, ScannerAssumption DEF BlocksOf
  <2>3. rd' \in Round
    BY <1>1, <1>3, <2>2 DEF Round
  <2>4. SweptSoFar'
    BY <1>1, <1>3, SweptGrows DEF Round
  <2>5. rd'.at = First(s) /\ rd'.left = rd.left /\ Here' = s
    BY <1>1, <1>3, <2>2 DEF Round, Here
  <2>6. InSegment'
    BY <2>2, <2>5 DEF InSegment
  <2>7. CleanSoFar'
    BY <1>1, <1>3 DEF CleanSoFar, Active, Round
  <2> QED
    BY <1>1, <2>3, <2>4, <2>6, <2>7 DEF TypeOK, Stored
<1>4. CASE Go(Cancelled(rd))
  <2>1. rd' = [rd EXCEPT !.pc = "probe", !.out = "cancelled", !.stopped = TRUE]
    BY <1>4 DEF Go, Cancelled
  <2> QED
    BY <1>2, <2>1 DEF Outcome
<1>5. CASE Go([rd EXCEPT !.pc = "probe", !.out = "external"])
  <2>1. rd' = [rd EXCEPT !.pc = "probe", !.out = "external", !.stopped = rd.stopped]
    BY <1>1, <1>5 DEF Go, Round
  <2>2. rd.stopped \in BOOLEAN
    BY <1>1 DEF Round
  <2> QED
    BY <1>2, <2>1, <2>2 DEF Outcome
<1> QED
  BY <1>3, <1>4, <1>5 DEF NextSegment, Go

LEMMA SweepEndsRound == RoundInv /\ SweepEnds => RoundInv'
<1> SUFFICES ASSUME RoundInv, SweepEnds PROVE RoundInv'
  OBVIOUS
<1> USE DEF RoundInv
<1>1. UNCHANGED Stored /\ Active /\ rd \in Round /\ rd.left = {}
  BY DEF SweepEnds, Active, At, TypeOK
<1>2. rd' = [rd EXCEPT !.pc = "probe"]
  BY DEF SweepEnds, Go
<1>3. rd' \in Round
  BY <1>1, <1>2 DEF Round
<1>4. SweptSoFar'
  BY <1>1, <1>2, SweptGrows DEF Round
<1> QED
  BY <1>1, <1>2, <1>3, <1>4
  DEF TypeOK, Stored, InSegment, CleanSoFar, Active, At, Round

LEMMA MarkedFacts ==
  ASSUME NEW s \in Seg, NEW n \in Nat
  PROVE  Marked(s, n) \subseteq Seg /\ s \in Marked(s, n)
BY SegCountFacts DEF Marked, Seg

\* Where the round stands in its segment, and what one more block makes of it.
LEMMA Standing ==
  ASSUME RoundInv, At("segment")
  PROVE  /\ rd \in Round /\ Active /\ Here \in rd.left /\ Here \in Seg
         /\ rd.at \in Block /\ rd.at + 1 \in 0 .. Blocks
         /\ rd.at + 1 = Last(Here) => BlocksOf(Here) \subseteq rd.lat \cup {rd.at}
         /\ rd.at + 1 < Last(Here) =>
              /\ rd.at + 1 \in BlocksOf(Here) /\ (rd.at + 1) \div PerSeg = Here
              /\ \A b \in BlocksOf(Here) : b < rd.at + 1 => b \in rd.lat \cup {rd.at}
<1>1. /\ rd \in Round /\ Active /\ Here \in rd.left /\ rd.at \in BlocksOf(Here)
      /\ \A b \in BlocksOf(Here) : b < rd.at => b \in rd.lat
  BY DEF RoundInv, TypeOK, InSegment, Active, At
<1>2. Here \in Seg
  BY <1>1 DEF Round
<1> DEFINE h == Here
<1>3. /\ First(h) \in Nat /\ Last(h) \in Nat /\ Last(h) <= Blocks
      /\ BlocksOf(h) \subseteq Block /\ \A b \in BlocksOf(h) : b \div PerSeg = h
      /\ Blocks \in Nat /\ h \in rd.left /\ rd.at \in BlocksOf(h)
      /\ \A b \in BlocksOf(h) : b < rd.at => b \in rd.lat
  BY <1>1, <1>2, BlockFacts, ScannerAssumption
<1> HIDE DEF h
<1>4. rd.at \in Block /\ rd.at + 1 \in 0 .. Blocks
  BY <1>3 DEF Block
<1>5. rd.at + 1 = Last(h) => BlocksOf(h) \subseteq rd.lat \cup {rd.at}
  BY <1>3 DEF BlocksOf
<1>6. rd.at + 1 < Last(h) => rd.at + 1 \in BlocksOf(h)
  BY <1>3 DEF BlocksOf
<1>7. \A b \in BlocksOf(h) : b < rd.at + 1 => b \in rd.lat \cup {rd.at}
  BY <1>3 DEF BlocksOf
<1> QED
  BY <1>1, <1>2, <1>3, <1>4, <1>5, <1>6, <1>7 DEF h

\* Steps of a segment that end the round, all of them with an outcome to show.
LEMMA SegmentCut ==
  ASSUME RoundInv, At("segment"), UNCHANGED Stored, rd' \in Round,
         rd'.pc \in {"probe", "idle"}, rd'.out # "clean", rd'.left = rd.left,
         rd.lat \subseteq rd'.lat, rd.again \subseteq rd'.again
  PROVE  RoundInv'
<1>1. Active
  BY Standing
<1>2. SweptSoFar'
  BY <1>1, SweptGrows
<1> QED
  BY <1>2 DEF RoundInv, TypeOK, Stored, InSegment, CleanSoFar, At

\* Steps that leave a segment which is owed, or was read whole.
LEMMA SegmentLeft ==
  ASSUME RoundInv, At("segment"), UNCHANGED Stored, rd' \in Round,
         rd'.pc = "sweep", rd'.left = rd.left \ {Here},
         rd.lat \subseteq rd'.lat, rd.again \subseteq rd'.again,
         Here \in rd'.again \/ BlocksOf(Here) \subseteq rd'.lat,
         \/ rd'.out # "clean"
         \/ /\ rd'.out = rd.out /\ rd'.stopped = rd.stopped
            /\ rd'.media \/ (rd'.media = rd.media /\ rd'.again = rd.again)
  PROVE  RoundInv'
<1>1. Active
  BY Standing
<1>2. SweptSoFar'
  BY <1>1, SweptGrows
<1>3. CleanSoFar'
  BY <1>1 DEF RoundInv, CleanSoFar
<1> QED
  BY <1>2, <1>3 DEF RoundInv, TypeOK, Stored, InSegment, At

LEMMA ReadFineRound == RoundInv /\ ReadFine => RoundInv'
<1> SUFFICES ASSUME RoundInv, ReadFine PROVE RoundInv'
  OBVIOUS
<1> DEFINE r == ReadIt(rd)
<1>1. At("segment") /\ UNCHANGED Stored
  BY DEF ReadFine
<1>2. /\ rd \in Round /\ Active /\ Here \in Seg /\ Here \in rd.left
      /\ rd.at \in Block /\ rd.at + 1 \in 0 .. Blocks
  BY <1>1, Standing
<1>3. /\ r = [rd EXCEPT !.lat = @ \cup {rd.at}, !.reached = rd.at + 1]
      /\ r \in Round
  BY <1>2 DEF ReadIt, Round
<1>4. CASE Go(Cancelled(r))
  <2>1. rd' = [r EXCEPT !.pc = "probe", !.out = "cancelled", !.stopped = TRUE]
    BY <1>4 DEF Go, Cancelled
  <2> HIDE DEF r
  <2>2. rd' \in Round
    BY <1>2, <1>3, <2>1 DEF Round, Outcome
  <2>3. /\ rd'.pc = "probe" /\ rd'.out # "clean" /\ rd'.left = rd.left
        /\ rd.lat \subseteq rd'.lat /\ rd.again \subseteq rd'.again
    BY <1>2, <1>3, <2>1 DEF Round
  <2> QED
    BY <1>1, <2>2, <2>3, SegmentCut
<1>5. CASE rd.at + 1 < Last(Here) /\ Go([r EXCEPT !.at = @ + 1])
  <2>1. rd' = [r EXCEPT !.at = rd.at + 1]
    BY <1>2, <1>3, <1>5 DEF Go, Round
  <2> HIDE DEF r
  <2>2. rd' \in Round
    BY <1>2, <1>3, <2>1 DEF Round
  <2>3. /\ rd'.pc = "segment" /\ rd'.at = rd.at + 1 /\ rd'.left = rd.left
        /\ rd'.lat = rd.lat \cup {rd.at} /\ rd'.again = rd.again /\ rd'.out = rd.out
        /\ rd'.stopped = rd.stopped /\ rd'.media = rd.media
    BY <1>1, <1>2, <1>3, <2>1 DEF Round, At
  <2>4. Here' = Here
    BY <1>1, <1>5, <2>3, Standing DEF Here
  <2>5. InSegment'
    BY <1>1, <1>2, <1>5, <2>3, <2>4, Standing DEF InSegment
  <2>6. SweptSoFar'
    BY <1>2, <2>3, SweptGrows
  <2>7. CleanSoFar'
    BY <1>1, <1>2, <2>3 DEF RoundInv, CleanSoFar
  <2> QED
    BY <1>1, <2>2, <2>5, <2>6, <2>7 DEF RoundInv, TypeOK, Stored
<1>6. CASE rd.at + 1 = Last(Here) /\ Go([r EXCEPT !.pc = "probe", !.out = "slow"])
  <2>1. rd' = [r EXCEPT !.pc = "probe", !.out = "slow"]
    BY <1>6 DEF Go
  <2> HIDE DEF r
  <2>2. rd' \in Round
    BY <1>2, <1>3, <2>1 DEF Round, Outcome
  <2>3. /\ rd'.pc = "probe" /\ rd'.out # "clean" /\ rd'.left = rd.left
        /\ rd.lat \subseteq rd'.lat /\ rd.again \subseteq rd'.again
    BY <1>2, <1>3, <2>1 DEF Round
  <2> QED
    BY <1>1, <2>2, <2>3, SegmentCut
<1>7. CASE rd.at + 1 = Last(Here) /\ Go(Leave(r))
  <2>1. rd' = [r EXCEPT !.pc = "sweep", !.left = @ \ {Here}]
    BY <1>7 DEF Go, Leave
  <2> HIDE DEF r
  <2>2. rd' \in Round
    BY <1>2, <1>3, <2>1 DEF Round
  <2>3. /\ rd'.pc = "sweep" /\ rd'.left = rd.left \ {Here}
        /\ rd'.lat = rd.lat \cup {rd.at} /\ rd'.again = rd.again
        /\ rd'.out = rd.out /\ rd'.stopped = rd.stopped /\ rd'.media = rd.media
    BY <1>2, <1>3, <2>1 DEF Round
  <2>4. BlocksOf(Here) \subseteq rd'.lat
    BY <1>1, <1>7, <2>3, Standing
  <2>5. rd.lat \subseteq rd'.lat /\ rd.again \subseteq rd'.again
    BY <2>3
  <2> QED
    BY <1>1, <2>2, <2>3, <2>4, <2>5, SegmentLeft
<1> QED
  BY <1>4, <1>5, <1>6, <1>7 DEF ReadFine

LEMMA ReadMediaRound == RoundInv /\ ReadMedia => RoundInv'
<1> SUFFICES ASSUME RoundInv, ReadMedia PROVE RoundInv'
  OBVIOUS
<1>1. At("segment") /\ UNCHANGED Stored
  BY DEF ReadMedia
<1>2. rd \in Round /\ Here \in Seg
  BY <1>1, Standing
<1>3. rd' = [rd EXCEPT !.media = TRUE, !.again = rd.again \cup {Here},
                       !.pc = "sweep", !.left = rd.left \ {Here}]
  BY <1>2 DEF ReadMedia, Go, Leave, Round
<1>4. rd' \in Round
  BY <1>2, <1>3 DEF Round
<1>5. /\ rd'.pc = "sweep" /\ rd'.left = rd.left \ {Here} /\ rd'.media
      /\ rd'.lat = rd.lat /\ rd'.again = rd.again \cup {Here}
      /\ rd'.out = rd.out /\ rd'.stopped = rd.stopped
  BY <1>2, <1>3 DEF Round
<1>6. rd.lat \subseteq rd'.lat /\ rd.again \subseteq rd'.again /\ Here \in rd'.again
  BY <1>5
<1> QED
  BY <1>1, <1>4, <1>5, <1>6, SegmentLeft

\* A block that was slow or near a hang defers segments, its own the first of them.
LEMMA Deferring ==
  ASSUME RoundInv, At("segment"), UNCHANGED Stored, NEW n \in Nat,
         NEW r \in Round, r.left = rd.left, r.out # "clean",
         rd.lat \subseteq r.lat, r.again = rd.again \cup Marked(Here, n),
         \/ rd' = Leave(r)
         \/ rd' = Cancelled(r)
         \/ rd' = [r EXCEPT !.pc = "probe", !.out = "near_hang"]
  PROVE  RoundInv'
<1>1. Here \in Marked(Here, n)
  BY Standing, MarkedFacts
<1>2. rd.lat \subseteq r.lat /\ rd.again \subseteq r.again /\ Here \in r.again
  BY <1>1
<1>3. CASE rd' = Leave(r)
  <2>1. rd' = [r EXCEPT !.pc = "sweep", !.left = rd.left \ {Here}]
    BY <1>3 DEF Leave, Round
  <2>2. rd' \in Round
    BY <2>1 DEF Round
  <2>3. /\ rd'.pc = "sweep" /\ rd'.left = rd.left \ {Here} /\ rd'.lat = r.lat
        /\ rd'.again = r.again /\ rd'.out = r.out
    BY <2>1 DEF Round
  <2> QED
    BY <1>2, <2>2, <2>3, SegmentLeft
<1>4. ASSUME NEW out \in {"cancelled", "near_hang"}, NEW st \in BOOLEAN,
             rd' = [r EXCEPT !.pc = "probe", !.out = out, !.stopped = st]
      PROVE  RoundInv'
  <2>1. rd' \in Round
    BY <1>4 DEF Round, Outcome
  <2>2. /\ rd'.pc = "probe" /\ rd'.left = rd.left /\ rd'.lat = r.lat
        /\ rd'.again = r.again /\ rd'.out # "clean"
    BY <1>4 DEF Round
  <2> QED
    BY <1>2, <2>1, <2>2, SegmentCut
<1>5. CASE rd' = Cancelled(r)
  BY <1>4, <1>5 DEF Cancelled
<1>6. CASE rd' = [r EXCEPT !.pc = "probe", !.out = "near_hang"]
  <2>1. /\ rd' = [r EXCEPT !.pc = "probe", !.out = "near_hang", !.stopped = r.stopped]
        /\ r.stopped \in BOOLEAN
    BY <1>6 DEF Round
  <2> QED
    BY <1>4, <2>1
<1> QED
  BY <1>3, <1>5, <1>6

LEMMA ReadSlowRound == RoundInv /\ ReadSlow => RoundInv'
<1> SUFFICES ASSUME RoundInv, ReadSlow PROVE RoundInv'
  OBVIOUS
<1>1. At("segment") /\ UNCHANGED Stored
  BY DEF ReadSlow
<1>2. rd \in Round /\ Here \in Seg /\ rd.at \in Block /\ rd.at + 1 \in 0 .. Blocks
  BY <1>1, Standing
<1>3. SlowSkip \in Nat /\ Marked(Here, SlowSkip) \subseteq Seg
  BY <1>2, MarkedFacts, ScannerAssumption
<1> DEFINE r == Worse(SlowAgain([ReadIt(rd) EXCEPT !.slow = @ + 1]))
<1>4. r = [rd EXCEPT !.lat = rd.lat \cup {rd.at}, !.reached = rd.at + 1,
                     !.slow = rd.slow + 1, !.again = rd.again \cup Marked(Here, SlowSkip),
                     !.out = IF rd.out = "clean" THEN "slow" ELSE rd.out]
  BY <1>2 DEF ReadIt, SlowAgain, Worse, Round
<1>5. rd' = Leave(r) \/ rd' = Cancelled(r)
  BY DEF ReadSlow, Go
<1> HIDE DEF r
<1>6. r \in Round
  <2> DEFINE out == IF rd.out = "clean" THEN "slow" ELSE rd.out
  <2>1. /\ rd.lat \cup {rd.at} \in SUBSET Block /\ rd.slow + 1 \in Nat /\ rd.danger + 1 \in Nat
        /\ rd.again \cup Marked(Here, SlowSkip) \in SUBSET Seg /\ out \in Outcome
    BY <1>2, <1>3 DEF Round, Outcome
  <2> HIDE DEF out
  <2>2. r = [rd EXCEPT !.lat = rd.lat \cup {rd.at}, !.reached = rd.at + 1,
                       !.slow = rd.slow + 1, !.again = rd.again \cup Marked(Here, SlowSkip),
                       !.out = out]
    BY <1>4 DEF out
  <2> QED
    BY <1>2, <2>1, <2>2 DEF Round
<1>7. /\ r.left = rd.left /\ r.out # "clean" /\ rd.lat \subseteq r.lat
      /\ r.again = rd.again \cup Marked(Here, SlowSkip)
  BY <1>2, <1>4 DEF Round
<1> QED
  BY <1>1, <1>3, <1>5, <1>6, <1>7, Deferring

LEMMA ReadDangerRound == RoundInv /\ ReadDanger => RoundInv'
<1> SUFFICES ASSUME RoundInv, ReadDanger PROVE RoundInv'
  OBVIOUS
<1>1. At("segment") /\ UNCHANGED Stored
  BY DEF ReadDanger
<1>2. rd \in Round /\ Here \in Seg /\ rd.at \in Block /\ rd.at + 1 \in 0 .. Blocks
  BY <1>1, Standing
<1>3. DangerSkip \in Nat /\ Marked(Here, DangerSkip) \subseteq Seg
  BY <1>2, MarkedFacts, ScannerAssumption
<1> DEFINE r == Worse([ReadIt(rd) EXCEPT !.danger = @ + 1,
                                         !.again = @ \cup Marked(Here, DangerSkip)])
<1>4. r = [rd EXCEPT !.lat = rd.lat \cup {rd.at}, !.reached = rd.at + 1,
                     !.danger = rd.danger + 1,
                     !.again = rd.again \cup Marked(Here, DangerSkip),
                     !.out = IF rd.out = "clean" THEN "slow" ELSE rd.out]
  BY <1>2 DEF ReadIt, Worse, Round
<1>5. \/ rd' = Leave(r)
      \/ rd' = Cancelled(r)
      \/ rd' = [r EXCEPT !.pc = "probe", !.out = "near_hang"]
  BY DEF ReadDanger, Go
<1> HIDE DEF r
<1>6. r \in Round
  <2> DEFINE out == IF rd.out = "clean" THEN "slow" ELSE rd.out
  <2>1. /\ rd.lat \cup {rd.at} \in SUBSET Block /\ rd.slow + 1 \in Nat /\ rd.danger + 1 \in Nat
        /\ rd.again \cup Marked(Here, DangerSkip) \in SUBSET Seg /\ out \in Outcome
    BY <1>2, <1>3 DEF Round, Outcome
  <2> HIDE DEF out
  <2>2. r = [rd EXCEPT !.lat = rd.lat \cup {rd.at}, !.reached = rd.at + 1,
                       !.danger = rd.danger + 1, !.again = rd.again \cup Marked(Here, DangerSkip),
                       !.out = out]
    BY <1>4 DEF out
  <2> QED
    BY <1>2, <2>1, <2>2 DEF Round
<1>7. /\ r.left = rd.left /\ r.out # "clean" /\ rd.lat \subseteq r.lat
      /\ r.again = rd.again \cup Marked(Here, DangerSkip)
  BY <1>2, <1>4 DEF Round
<1> QED
  BY <1>1, <1>3, <1>5, <1>6, <1>7, Deferring

LEMMA ReadEndsRound == RoundInv /\ ReadEnds => RoundInv'
<1> SUFFICES ASSUME RoundInv, ReadEnds PROVE RoundInv'
  OBVIOUS
<1>1. At("segment") /\ UNCHANGED Stored
  BY DEF ReadEnds
<1>2. rd \in Round
  BY <1>1, Standing
<1>3. ASSUME NEW pc \in {"probe", "idle"}, NEW out \in {"dropout", "cancelled"},
             NEW st \in BOOLEAN,
             rd' = [rd EXCEPT !.pc = pc, !.out = out, !.stopped = st]
      PROVE  RoundInv'
  <2>1. rd' \in Round
    BY <1>2, <1>3 DEF Round, Outcome
  <2>2. /\ rd'.pc \in {"probe", "idle"} /\ rd'.left = rd.left /\ rd'.lat = rd.lat
        /\ rd'.again = rd.again /\ rd'.out # "clean"
    BY <1>2, <1>3 DEF Round
  <2> QED
    BY <1>1, <2>1, <2>2, SegmentCut
<1>4. ASSUME NEW pc \in {"probe", "idle"}, NEW out \in {"dropout", "cancelled"},
             rd' = [rd EXCEPT !.pc = pc, !.out = out]
      PROVE  RoundInv'
  <2>1. /\ rd.stopped \in BOOLEAN
        /\ rd' = [rd EXCEPT !.pc = pc, !.out = out, !.stopped = rd.stopped]
    BY <1>2, <1>4 DEF Round
  <2> QED
    BY <1>3, <2>1
<1>5. CASE rd' = [rd EXCEPT !.pc = "probe", !.out = "cancelled", !.stopped = TRUE]
  BY <1>3, <1>5
<1> QED
  BY <1>4, <1>5 DEF ReadEnds, Go, Cancelled

\* What is left of the round changes nothing of what it read, deferred or left.
LEMMA Winding ==
  ASSUME RoundInv, Active, ~At("warmup"), UNCHANGED Stored, rd' \in Round,
         rd'.pc \in {"rewrite", "finish"}, rd'.left = rd.left,
         rd'.lat = rd.lat, rd'.again = rd.again,
         \/ rd'.out # "clean"
         \/ /\ rd.pc \in {"probe", "rewrite"} /\ rd'.out = rd.out
            /\ rd'.stopped = rd.stopped /\ rd'.media = rd.media
  PROVE  RoundInv'
<1>1. SweptSoFar'
  BY SweptGrows
<1>2. CleanSoFar'
  BY DEF RoundInv, CleanSoFar
<1> QED
  BY <1>1, <1>2 DEF RoundInv, TypeOK, Stored, InSegment, At

LEMMA ProbeRound == RoundInv /\ Probe => RoundInv'
<1> SUFFICES ASSUME RoundInv, Probe PROVE RoundInv'
  OBVIOUS
<1>1. /\ rd.pc = "probe" /\ UNCHANGED Stored /\ rd \in Round
      /\ rd' = [rd EXCEPT !.pc = IF rd.out \in {"dropout", "cancelled", "external"}
                                 THEN "finish" ELSE "rewrite"]
  BY DEF Probe, At, Go, RoundInv, TypeOK
<1>2. rd' \in Round
  BY <1>1 DEF Round
<1>3. /\ rd'.pc \in {"rewrite", "finish"} /\ rd'.left = rd.left /\ rd'.lat = rd.lat
      /\ rd'.again = rd.again /\ rd'.out = rd.out /\ rd'.stopped = rd.stopped
      /\ rd'.media = rd.media
  BY <1>1 DEF Round
<1> QED
  BY <1>1, <1>2, <1>3, Winding DEF Active, At

LEMMA RewriteRound == RoundInv /\ Rewrite => RoundInv'
<1> SUFFICES ASSUME RoundInv, Rewrite PROVE RoundInv'
  OBVIOUS
<1>1. rd.pc = "rewrite" /\ UNCHANGED Stored /\ rd \in Round
  BY DEF Rewrite, At, RoundInv, TypeOK
<1>2. \/ rd' = [rd EXCEPT !.pc = "finish"]
      \/ rd' = [rd EXCEPT !.pc = "finish", !.out = "dropout"]
  BY DEF Rewrite, Go
<1>3. rd' \in Round
  BY <1>1, <1>2 DEF Round, Outcome
<1>4. /\ rd'.pc = "finish" /\ rd'.left = rd.left /\ rd'.lat = rd.lat
      /\ rd'.again = rd.again /\ rd'.stopped = rd.stopped /\ rd'.media = rd.media
      /\ rd'.out = rd.out \/ rd'.out = "dropout"
  BY <1>1, <1>2 DEF Round
<1> QED
  BY <1>1, <1>3, <1>4, Winding DEF Active, At

LEMMA FinishRound == RoundInv /\ Finish => RoundInv'
<1> SUFFICES ASSUME RoundInv, Finish PROVE RoundInv'
  OBVIOUS
<1>1. rd \in Round /\ owed \subseteq Seg /\ cursor \in Seg /\ calm' \in BOOLEAN
  BY DEF RoundInv, TypeOK, Finish
<1>2. Remaining(rd) \subseteq Seg /\ Resumed(rd) \in Seg /\ Final(rd) \in Outcome
  BY <1>1, ResumedType DEF Remaining, Round, Final, Outcome, RoundInv
<1>3. cursor' \in Seg /\ owed' \subseteq Seg
  BY <1>1, <1>2 DEF Finish
<1>4. \/ rd' = [rd EXCEPT !.pc = "idle", !.out = Final(rd)]
      \/ rd' = [rd EXCEPT !.pc = "off", !.out = Final(rd)]
  BY DEF Finish, Go
<1>5. rd' \in Round /\ rd'.pc \in {"off", "idle"}
  BY <1>1, <1>2, <1>4 DEF Round
<1> QED
  BY <1>1, <1>3, <1>5
  DEF RoundInv, TypeOK, SweptSoFar, InSegment, CleanSoFar, Active, At

LEMMA DiesRound == RoundInv /\ Dies => RoundInv'
<1> SUFFICES ASSUME RoundInv, Dies PROVE RoundInv'
  OBVIOUS
<1>1. rd \in Round /\ rd' = [rd EXCEPT !.pc = "off"] /\ UNCHANGED Stored
  BY DEF RoundInv, TypeOK, Dies, Go
<1>2. rd' \in Round /\ rd'.pc = "off"
  BY <1>1 DEF Round
<1> QED
  BY <1>1, <1>2
  DEF RoundInv, TypeOK, Stored, SweptSoFar, InSegment, CleanSoFar, Active, At

LEMMA RoundStep == RoundInv /\ [Next]_vars => RoundInv'
<1> SUFFICES ASSUME RoundInv, [Next]_vars PROVE RoundInv'
  OBVIOUS
<1>1. CASE CalmsDown
  BY <1>1 DEF CalmsDown, RoundInv, TypeOK, SweptSoFar, InSegment, CleanSoFar, Active, At, Here
<1>2. CASE UNCHANGED vars
  BY <1>2 DEF vars, RoundInv, TypeOK, SweptSoFar, InSegment, CleanSoFar, Active, At, Here
<1> QED
  BY <1>1, <1>2, BeginRound, WarmupRound, NextSegmentRound, SweepEndsRound, ReadFineRound,
     ReadSlowRound, ReadDangerRound, ReadMediaRound, ReadEndsRound, ProbeRound, RewriteRound,
     FinishRound, DiesRound
  DEF Next, Step, Sweep

LEMMA RoundStart == Init => RoundInv
<1> SUFFICES ASSUME Init PROVE RoundInv
  OBVIOUS
<1>1. 0 \in Seg /\ 0 \in 0 .. Blocks
  BY SegCountFacts, ScannerAssumption DEF Seg
<1>2. TypeOK
  BY <1>1 DEF Init, TypeOK, NoRound, Round, Outcome
<1> QED
  BY <1>2 DEF Init, RoundInv, NoRound, SweptSoFar, InSegment, CleanSoFar, Active, At

LEMMA RoundAlways == Spec => []RoundInv
BY RoundStart, RoundStep, PTL DEF Spec

-----------------------------------------------------------------------------
(* What the rounds leave.                                                  *)

\* Every value the scanner holds has its type: among them the next cursor, a
\* quotient of what was reached, is a segment of the disk.
THEOREM ScannerTypes == Spec => []TypeOK
<1>1. RoundInv => TypeOK
  BY DEF RoundInv
<1> QED
  BY <1>1, RoundAlways, PTL

\* The debt changes in a step from finish only to what the round leaves of it.
LEMMA DebtStep ==
  ASSUME RoundInv, At("finish"), [Next]_vars
  PROVE  /\ owed' = owed \/ owed' = Remaining(rd)
         /\ Recording => /\ owed' = Remaining(rd) /\ cursor' = Resumed(rd)
                         /\ rd' = [rd EXCEPT !.pc = "idle", !.out = Final(rd)]
<1>1. Finish \/ Dies \/ CalmsDown \/ UNCHANGED vars
  BY DEF At, Next, Step, Sweep, Begin, Warmup, NextSegment, SweepEnds, ReadFine, ReadSlow,
         ReadDanger, ReadMedia, ReadEnds, Probe, Rewrite
<1>2. CASE Finish
  <2>1. owed' = owed \/ owed' = Remaining(rd)
    BY <1>2 DEF Finish
  <2>2. ASSUME Recording
        PROVE  /\ owed' = Remaining(rd) /\ cursor' = Resumed(rd)
               /\ rd' = [rd EXCEPT !.pc = "idle", !.out = Final(rd)]
    <3>1. ~Go([rd EXCEPT !.pc = "off", !.out = Final(rd)])
      BY <2>2 DEF Recording, Go, RoundInv, TypeOK, Round
    <3>2. Recorded(rd)
      BY <2>2 DEF Recording
    <3> QED
      BY <1>2, <3>1, <3>2 DEF Finish, Go
  <2> QED
    BY <2>1, <2>2
<1>3. CASE Dies
  <2>1. rd'.pc # "idle"
    BY <1>3 DEF Dies, Go, RoundInv, TypeOK, Round
  <2> QED
    BY <1>3, <2>1 DEF Dies, Stored, Recording
<1>4. CASE CalmsDown \/ UNCHANGED vars
  BY <1>4 DEF CalmsDown, vars, Recording, At
<1> QED
  BY <1>1, <1>2, <1>3, <1>4

\* "Skipped segments are deferred and drained first next pass, so nothing is
\* dropped" (README.md:64-66): of what was owed before a round that was swept to
\* its end or interrupted, everything was visited or is owed still, on a disk of
\* any size and with any skip.
THEOREM DebtIsHonoured == Spec => DebtHonoured
<1> DEFINE Honoured == At("finish") /\ (rd.left = {} \/ rd.stopped) =>
                         \A s \in owed : Attempted(s) \/ s \in owed'
<1>1. RoundInv /\ [Next]_vars => [Honoured]_vars
  <2> SUFFICES ASSUME RoundInv, [Next]_vars, At("finish"), rd.left = {} \/ rd.stopped,
                      NEW s \in owed, s \notin owed'
               PROVE  Attempted(s)
    OBVIOUS
  <2>1. s \in Seg /\ Active
    BY DEF RoundInv, TypeOK, Active, At
  <2>2. owed' = Remaining(rd)
    BY DebtStep
  <2>3. s \notin rd.left /\ s \notin rd.again
    BY <2>2 DEF Remaining, Interrupted
  <2>4. BlocksOf(s) \subseteq rd.lat
    BY <2>1, <2>3 DEF RoundInv, SweptSoFar
  <2>5. First(s) \in BlocksOf(s)
    BY <2>1, BlockFacts
  <2> QED
    BY <2>4, <2>5 DEF Attempted
<1> QED
  BY <1>1, RoundAlways, PTL DEF Spec, DebtHonoured

\* A round that swept the disk has read every block or owes its segment, and one
\* that says the disk is clean has read every block and owes nothing: whatever
\* was skipped, stopped or tripped on the way.
THEOREM SweptOrIsOwed == Spec => SweptOrOwed
<1> DEFINE Swept == Recording =>
              /\ rd.left = {} => \A s \in Seg : s \in owed' \/ BlocksOf(s) \subseteq rd.lat
              /\ rd'.out = "clean" => rd.lat = Block /\ owed' = {}
<1>1. RoundInv /\ [Next]_vars => [Swept]_vars
  <2> SUFFICES ASSUME RoundInv, [Next]_vars, Recording PROVE Swept
    OBVIOUS
  <2>1. /\ At("finish") /\ Active /\ rd \in Round
        /\ owed' = Remaining(rd) /\ rd'.out = Final(rd)
    BY DebtStep DEF Recording, Active, At, RoundInv, TypeOK, Round
  <2>2. ASSUME rd.left = {}, NEW s \in Seg
        PROVE  s \in owed' \/ BlocksOf(s) \subseteq rd.lat
    BY <2>1, <2>2 DEF RoundInv, SweptSoFar, Remaining, Interrupted
  <2>3. ASSUME rd'.out = "clean" PROVE rd.lat = Block /\ owed' = {}
    <3>1. rd.out = "clean" /\ ~rd.media
      BY <2>1, <2>3 DEF Final
    <3>2. rd.left = {} /\ rd.again = {} /\ ~rd.stopped
      BY <2>1, <3>1 DEF RoundInv, CleanSoFar, At
    <3>3. owed' = {}
      BY <2>1, <3>2 DEF Remaining, Interrupted
    <3>4. \A b \in Block : b \in rd.lat
      BY <2>1, <3>2, SegOfBlock DEF RoundInv, SweptSoFar
    <3> QED
      BY <2>1, <3>3, <3>4 DEF Round
  <2> QED
    BY <2>2, <2>3
<1> QED
  BY <1>1, RoundAlways, PTL DEF Spec, SweptOrOwed

-----------------------------------------------------------------------------
(* The next round goes on where an interrupted one stopped.                *)

\* What the round has finished with, but for the debt, is behind everything it
\* has left but for the debt; and none of that is visited before the debt is paid.
Behind ==
  \A t \in Seg \ (rd.left \cup owed) :
    /\ rd.left \cap owed = {}
    /\ \A s \in rd.left : Distance(t) < Distance(s)
Ordered ==
  Active => /\ Behind
            /\ At("segment") => IsNext(Here, rd.left)

OrderInv == RoundInv /\ Ordered

LEMMA DistanceFacts ==
  ASSUME TypeOK, NEW s \in Seg, NEW t \in Seg
  PROVE  /\ Distance(s) \in Nat
         /\ s # t => Distance(s) # Distance(t)
<1>1. /\ s \in Nat /\ t \in Nat /\ cursor \in Nat /\ SegCount \in Nat
      /\ s < SegCount /\ t < SegCount /\ cursor < SegCount
  BY SegCountFacts DEF TypeOK, Seg
<1>2. /\ Distance(s) = Rotated(s, cursor, SegCount) /\ Distance(s) \in Nat
      /\ Distance(t) = Rotated(t, cursor, SegCount)
  BY Rotation DEF TypeOK, Distance
<1>3. s # t => Rotated(s, cursor, SegCount) # Rotated(t, cursor, SegCount)
  BY <1>1 DEF Rotated
<1> QED
  BY <1>2, <1>3

\* Nothing is finished with, or the one segment that was next.
LEMMA OrderKept ==
  ASSUME OrderInv, Active, UNCHANGED <<cursor, owed>>,
         rd'.left = rd.left \/ (At("segment") /\ rd'.left = rd.left \ {Here}),
         \/ ~At("segment")'
         \/ At("segment") /\ Here' = Here /\ rd'.left = rd.left
         \/ rd'.left = rd.left /\ IsNext(Here', rd'.left)
  PROVE  Ordered'
<1>1. TypeOK /\ RoundInv /\ Behind /\ (At("segment") => IsNext(Here, rd.left))
  BY DEF OrderInv, RoundInv, Ordered
<1>2. /\ \A s : Distance(s)' = Distance(s)
      /\ Seg' = Seg /\ owed' = owed
  BY DEF Distance
<1>3. CASE rd'.left = rd.left
  <2>1. Behind'
    BY <1>1, <1>2, <1>3 DEF Behind
  <2>2. At("segment")' => IsNext(Here', rd'.left)
    BY <1>1, <1>3
  <2>3. At("segment")' => IsNext(Here, rd.left)'
    BY <2>2 DEF IsNext, Distance
  <2> QED
    BY <2>1, <2>3 DEF Ordered
<1>4. CASE At("segment") /\ rd'.left = rd.left \ {Here} /\ rd'.left # rd.left
  <2>1. IsNext(Here, rd.left) /\ Here \in Seg /\ Here \in rd.left /\ rd.left \subseteq Seg
    BY <1>1, <1>4, Standing, RoundFields
  <2>2. ASSUME NEW t \in Seg \ (rd'.left \cup owed)
        PROVE  /\ rd'.left \cap owed = {}
               /\ \A s \in rd'.left : Distance(t) < Distance(s)
    <3>1. CASE t \notin rd.left
      BY <1>1, <1>4, <2>2, <3>1 DEF Behind
    <3>2. CASE t \in rd.left
      <4>1. t = Here /\ Here \notin owed
        BY <1>4, <2>2, <3>2
      <4>2. rd.left \cap owed = {} /\ \A s \in rd.left : Distance(t) <= Distance(s)
        BY <2>1, <4>1 DEF IsNext
      <4>3. ASSUME NEW s \in rd'.left PROVE Distance(t) < Distance(s)
        <5>1. s \in rd.left /\ s \in Seg /\ s # t /\ t \in Seg
          BY <1>4, <2>1, <4>1, <4>3
        <5>2. Distance(s) \in Nat /\ Distance(t) \in Nat /\ Distance(s) # Distance(t)
          BY <1>1, <5>1, DistanceFacts
        <5> QED
          BY <4>2, <5>1, <5>2
      <4> QED
        BY <1>4, <4>2, <4>3
    <3> QED
      BY <3>1, <3>2
  <2>3. Behind'
    BY <1>2, <2>2 DEF Behind
  <2>4. ~At("segment")'
    BY <1>4
  <2> QED
    BY <2>3, <2>4 DEF Ordered
<1> QED
  BY <1>3, <1>4

LEMMA OrderStep == OrderInv /\ [Next]_vars => OrderInv'
<1> SUFFICES ASSUME OrderInv, [Next]_vars PROVE Ordered'
  BY RoundStep DEF OrderInv
<1>1. RoundInv /\ rd \in Round
  BY DEF OrderInv, RoundInv, TypeOK
<1>2. CASE Begin
  BY <1>2 DEF Begin, Go, NewRound, Ordered, Behind, At
<1>3. CASE Warmup
  <2>1. CASE rd' = [rd EXCEPT !.pc = "sweep"] /\ UNCHANGED Stored
    <3>1. Active /\ rd'.left = rd.left /\ ~At("segment")'
      BY <1>1, <1>3, <2>1 DEF Warmup, Active, At, Round
    <3> QED
      BY <2>1, <3>1, OrderKept DEF Stored
  <2>2. CASE rd'.pc = "idle"
    BY <2>2 DEF Ordered, Active
  <2> QED
    BY <1>1, <1>3, <2>1, <2>2 DEF Warmup, Go, Round
<1>4. CASE NextSegment
  <2>1. Active /\ UNCHANGED <<cursor, owed>>
    BY <1>4 DEF NextSegment, Active, At, Stored
  <2>2. CASE rd'.pc = "probe" /\ rd'.left = rd.left
    BY <2>1, <2>2, OrderKept DEF At
  <2>3. ASSUME NEW s \in rd.left, IsNext(s, rd.left),
               rd' = [rd EXCEPT !.pc = "segment", !.at = First(s)]
        PROVE  Ordered'
    <3>1. s \in Seg /\ rd'.left = rd.left /\ rd'.at = First(s)
      BY <1>1, <2>3 DEF Round
    <3>2. Here' = s
      BY <3>1, BlockFacts DEF Here
    <3> QED
      BY <2>1, <2>3, <3>1, <3>2, OrderKept
  <2> QED
    BY <1>1, <1>4, <2>2, <2>3 DEF NextSegment, Go, Cancelled, Round
<1>5. CASE SweepEnds \/ Probe \/ Rewrite
  <2>1. /\ Active /\ UNCHANGED <<cursor, owed>>
        /\ rd'.left = rd.left /\ ~At("segment")'
    BY <1>1, <1>5 DEF SweepEnds, Probe, Rewrite, Active, At, Stored, Go, Round
  <2> QED
    BY <2>1, OrderKept
<1>6. CASE ReadFine \/ ReadSlow \/ ReadDanger \/ ReadMedia \/ ReadEnds
  <2>1. Active /\ At("segment") /\ UNCHANGED <<cursor, owed>>
    BY <1>6 DEF ReadFine, ReadSlow, ReadDanger, ReadMedia, ReadEnds, Active, At, Stored
  <2>2. CASE ReadFine
    <3>1. \/ ~At("segment")' /\ rd'.left \in {rd.left, rd.left \ {Here}}
          \/ /\ rd'.left = rd.left /\ rd'.at = rd.at + 1
             /\ rd.at + 1 < Last(Here)
      BY <1>1, <2>2 DEF ReadFine, ReadIt, Leave, Cancelled, Go, At, Round
    <3>2. rd'.at = rd.at + 1 /\ rd.at + 1 < Last(Here) => Here' = Here
      BY <1>1, <2>1, Standing DEF Here
    <3> QED
      BY <2>1, <3>1, <3>2, OrderKept
  <2>3. CASE ReadSlow
    <3>1. ~At("segment")' /\ rd'.left \in {rd.left, rd.left \ {Here}}
      BY <1>1, <2>3 DEF ReadSlow, ReadIt, SlowAgain, Worse, Leave, Cancelled, Go, At, Round
    <3> QED
      BY <2>1, <3>1, OrderKept
  <2>4. CASE ReadDanger
    <3>1. ~At("segment")' /\ rd'.left \in {rd.left, rd.left \ {Here}}
      BY <1>1, <2>4 DEF ReadDanger, ReadIt, Worse, Leave, Cancelled, Go, At, Round
    <3> QED
      BY <2>1, <3>1, OrderKept
  <2>5. CASE ReadMedia \/ ReadEnds
    <3>1. ~At("segment")' /\ rd'.left \in {rd.left, rd.left \ {Here}}
      BY <1>1, <2>5 DEF ReadMedia, ReadEnds, Leave, Cancelled, Go, At, Round
    <3> QED
      BY <2>1, <3>1, OrderKept
  <2> QED
    BY <1>6, <2>2, <2>3, <2>4, <2>5
<1>7. CASE Finish \/ Dies
  BY <1>1, <1>7 DEF Finish, Dies, Go, Ordered, Active, Round
<1>8. CASE CalmsDown \/ UNCHANGED vars
  BY <1>8 DEF CalmsDown, vars, OrderInv, Ordered, Active, Behind, At, IsNext, Distance, Here
<1> QED
  BY <1>2, <1>3, <1>4, <1>5, <1>6, <1>7, <1>8 DEF Next, Step, Sweep

\* Seen from the first of what an interrupted round left, the rest of it comes
\* before all that the round had finished with.
LEMMA Around ==
  ASSUME NEW n \in Nat, NEW c \in Nat, NEW f \in Nat, NEW s \in Nat, NEW t \in Nat,
         c < n, f < n, s < n, t < n,
         Rotated(t, c, n) < Rotated(f, c, n), Rotated(f, c, n) <= Rotated(s, c, n)
  PROVE  Rotated(s, f, n) < Rotated(t, f, n)
BY DEF Rotated

\* The round after an interrupted one reads what that one left before it reads
\* again what it finished (resumeInterrupted), wherever in a disk of any size it
\* was stopped and whatever it owed.
THEOREM InterruptedResumes == Spec => ResumesWhereStopped
<1> DEFINE Resumes == Recording /\ rd.stopped =>
       \A s \in rd.left, t \in Seg \ (rd.left \cup owed) : {s, t} \cap owed' = {} => Ahead(s, t)
<1>1. OrderInv /\ [Next]_vars => [Resumes]_vars
  <2> SUFFICES ASSUME OrderInv, [Next]_vars, Recording, rd.stopped,
                      NEW s \in rd.left, NEW t \in Seg \ (rd.left \cup owed),
                      {s, t} \cap owed' = {}
               PROVE  Ahead(s, t)
    OBVIOUS
  <2>1. RoundInv /\ TypeOK /\ rd \in Round /\ Active /\ Behind /\ At("finish")
    BY DEF OrderInv, RoundInv, TypeOK, Ordered, Active, At, Recording
  <2>2. owed' = Remaining(rd) /\ cursor' = Resumed(rd)
    BY <2>1, DebtStep
  <2>3. Interrupted(rd) /\ rd.left \subseteq Seg
    BY <2>1 DEF Interrupted, Round
  <2>4. /\ rd.left \cap owed = {}
        /\ \A u \in rd.left : Distance(t) < Distance(u)
    BY <2>1 DEF Behind
  <2>5. PICK f \in rd.left : IsNext(f, rd.left) /\ Resumed(rd) = IF f \in owed THEN cursor ELSE f
    BY <2>1, <2>3, ResumedType
  <2>6. cursor' = f /\ Distance(f) <= Distance(s) /\ Distance(t) < Distance(f)
    BY <2>2, <2>4, <2>5 DEF IsNext
  <2>7. /\ Distance(s) = Rotated(s, cursor, SegCount)
        /\ Distance(t) = Rotated(t, cursor, SegCount)
        /\ Distance(f) = Rotated(f, cursor, SegCount)
    BY <2>1, <2>3, Rotation DEF TypeOK, Distance
  <2>8. /\ SegCount \in Nat /\ cursor \in Nat /\ f \in Nat /\ s \in Nat /\ t \in Nat
        /\ cursor < SegCount /\ f < SegCount /\ s < SegCount /\ t < SegCount
    BY <2>1, <2>3, SegCountFacts DEF TypeOK, Seg
  <2>9. Rotated(s, f, SegCount) < Rotated(t, f, SegCount)
    BY <2>6, <2>7, <2>8, Around
  <2>10. /\ (s + SegCount - f) % SegCount = Rotated(s, f, SegCount)
         /\ (t + SegCount - f) % SegCount = Rotated(t, f, SegCount)
    BY <2>3, Rotation
  <2> QED
    BY <2>6, <2>9, <2>10 DEF Ahead
<1>2. Init => OrderInv
  <2>1. Init => RoundInv
    BY RoundStart
  <2> QED
    BY <2>1 DEF OrderInv, Ordered, Active, Init, NoRound
<1> QED
  BY <1>1, <1>2, OrderStep, PTL DEF Spec, ResumesWhereStopped
=============================================================================
