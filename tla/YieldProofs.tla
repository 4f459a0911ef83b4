----------------------------- MODULE YieldProofs -----------------------------
(***************************************************************************)
(* For every value of the limits and windows: the round never yields to    *)
(* itself, a block that was slow alone keeps its bad reading, one called   *)
(* slow has evidence, and a round is given up only on sustained use.       *)
(***************************************************************************)
EXTENDS Yield, TLAPS

USE DEF None

(***************************************************************************)
(* Helpers.                                                                *)
(***************************************************************************)

LEMMA SmallerNat == \A a, b \in Nat : Smaller(a, b) \in Nat /\ Smaller(a, b) <= a /\ Smaller(a, b) <= b
BY DEF Smaller

LEMMA OlderNat == \A a, b \in Nat : Older(a, b) \in Nat /\ Older(a, b) <= b /\ (Older(a, b) = a + 1 \/ Older(a, b) = b)
BY DEF Older, Smaller

\* A look at the counters is a record of counters.
LEMMA LookType == \A ok \in BOOLEAN : Look(ok) \in Counters
BY DEF Look, Counters

LEMMA LookFields ==
  \A ok \in BOOLEAN : /\ Look(ok).ok = ok /\ Look(ok).reads = 0 /\ Look(ok).writes = 0
                      /\ Look(ok).age = 0 /\ Look(ok).reset = FALSE
BY DEF Look

\* What was done is added to a look, and only to its counts.
LEMMA PlusFields ==
  ASSUME NEW l \in Counters, NEW r \in Nat, NEW w \in Nat, NEW cap \in Nat \ {0}
  PROVE  /\ Plus(l, r, w, cap) \in Counters
         /\ Plus(l, r, w, cap).ok = l.ok
         /\ Plus(l, r, w, cap).age = l.age
         /\ Plus(l, r, w, cap).reset = l.reset
         /\ l.ok => (Plus(l, r, w, cap).reads > 0 <=> l.reads + r > 0)
         /\ l.ok => (Plus(l, r, w, cap).writes > 0 <=> l.writes + w > 0)
<1> DEFINE p == Plus(l, r, w, cap)
           a == Smaller(l.reads + r, cap)
           b == Smaller(l.writes + w, cap)
<1>1. /\ l = [ok |-> l.ok, reads |-> l.reads, writes |-> l.writes, age |-> l.age, reset |-> l.reset]
      /\ l.ok \in BOOLEAN /\ l.reads \in Nat /\ l.writes \in Nat /\ l.age \in Nat /\ l.reset \in BOOLEAN
  BY DEF Counters
<1>2. a \in Nat /\ b \in Nat /\ (a > 0 <=> l.reads + r > 0) /\ (b > 0 <=> l.writes + w > 0)
  BY <1>1 DEF Smaller
<1>3. CASE l.ok
  <2>1. p = [l EXCEPT !.reads = a, !.writes = b]
    BY <1>3 DEF Plus
  <2> HIDE DEF p, a, b
  <2>2. /\ p.ok = l.ok /\ p.reads = a /\ p.writes = b /\ p.age = l.age /\ p.reset = l.reset
        /\ p \in Counters
    BY <2>1, <1>1, <1>2 DEF Counters
  <2> QED BY <2>2, <1>2 DEF p
<1>4. CASE ~l.ok
  BY <1>4 DEF Plus
<1> QED BY <1>3, <1>4

\* A reset leaves the age and whether there was a look.
LEMMA AgainFields ==
  ASSUME NEW l \in Counters
  PROVE  /\ Again(l) \in Counters /\ Again(l).ok = l.ok /\ Again(l).age = l.age
         /\ Again(l).reads = 0 /\ Again(l).writes = 0 /\ Again(l).reset = l.ok
BY DEF Again, Look, Counters

\* A look over either limit has counted something.
LEMMA OverCounts ==
  ASSUME NEW l \in Counters, Over(l)
  PROVE  l.reads > 0 \/ l.writes > 0
<1>1. \A a, b \in Nat : a * b \in Nat
  OBVIOUS
<1>2. ReadRate * l.age \in Nat /\ WriteRate * l.age \in Nat /\ l.reads \in Nat /\ l.writes \in Nat
  BY <1>1, YieldAssumption DEF Counters
<1> DEFINE x == ReadRate * l.age
           y == WriteRate * l.age
<1>3. l.reads > x \/ l.writes > y
  BY DEF Over
<1> HIDE DEF x, y
<1>4. x \in Nat /\ y \in Nat
  BY <1>2 DEF x, y
<1> QED BY <1>2, <1>3, <1>4

LEMMA OverNothing ==
  ASSUME NEW l \in Counters, l.reads = 0, l.writes = 0
  PROVE  ~Over(l)
BY OverCounts

(***************************************************************************)
(* What the actions have in common.                                        *)
(***************************************************************************)

LEMMA CountedFields ==
  ASSUME TypeOK, NEW r \in Nat, NEW w \in Nat, Counted(r, w)
  PROVE  /\ since' \in Counters /\ win' \in Counters
         /\ since'.ok = since.ok /\ win'.ok = win.ok
         /\ win'.age = win.age /\ win'.reset = win.reset
         /\ since.ok => (since'.reads > 0 <=> since.reads + r > 0)
         /\ since.ok => (since'.writes > 0 <=> since.writes + w > 0)
         /\ win.ok => (win'.reads > 0 <=> win.reads + r > 0)
         /\ win.ok => (win'.writes > 0 <=> win.writes + w > 0)
<1>1. /\ since' = Plus(since, r, w, MaxCount) /\ win' = Plus(win, r, w, 1)
      /\ since \in Counters /\ win \in Counters /\ MaxCount \in Nat \ {0} /\ 1 \in Nat \ {0}
  BY YieldAssumption DEF Counted, TypeOK
<1>2. /\ since' \in Counters /\ since'.ok = since.ok /\ since'.age = since.age /\ since'.reset = since.reset
      /\ since.ok => (since'.reads > 0 <=> since.reads + r > 0)
      /\ since.ok => (since'.writes > 0 <=> since.writes + w > 0)
  <2> DEFINE p == Plus(since, r, w, MaxCount)
  <2>1. p = since' /\ p \in Counters
    BY <1>1, PlusFields
  <2>2. p.ok = since.ok
    BY <1>1 DEF Plus, Counters
  <2>3. p.age = since.age
    BY <1>1 DEF Plus, Counters
  <2>4. p.reset = since.reset
    BY <1>1 DEF Plus, Counters
  <2>5. since.ok => (p.reads > 0 <=> since.reads + r > 0)
    BY <1>1, PlusFields
  <2>6. since.ok => (p.writes > 0 <=> since.writes + w > 0)
    BY <1>1, PlusFields
  <2> HIDE DEF p
  <2> QED BY <2>1, <2>2, <2>3, <2>4, <2>5, <2>6
<1>3. /\ win' \in Counters /\ win'.ok = win.ok /\ win'.age = win.age /\ win'.reset = win.reset
      /\ win.ok => (win'.reads > 0 <=> win.reads + r > 0)
      /\ win.ok => (win'.writes > 0 <=> win.writes + w > 0)
  <2> DEFINE p == Plus(win, r, w, 1)
  <2>1. p = win' /\ p \in Counters
    BY <1>1, PlusFields
  <2>2. p.ok = win.ok
    BY <1>1 DEF Plus, Counters
  <2>3. p.age = win.age
    BY <1>1 DEF Plus, Counters
  <2>4. p.reset = win.reset
    BY <1>1 DEF Plus, Counters
  <2>5. win.ok => (p.reads > 0 <=> win.reads + r > 0)
    BY <1>1, PlusFields
  <2>6. win.ok => (p.writes > 0 <=> win.writes + w > 0)
    BY <1>1, PlusFields
  <2> HIDE DEF p
  <2> QED BY <2>1, <2>2, <2>3, <2>4, <2>5, <2>6
<1> QED BY <1>2, <1>3

LEMMA SampledFields ==
  ASSUME TypeOK, NEW busy, Sampled(busy)
  PROVE  /\ busy \in BOOLEAN /\ since' \in Counters
         /\ since'.reads = 0 /\ since'.writes = 0
         /\ truth' = [truth EXCEPT !.cause = FALSE, !.quiet = IF busy THEN @ ELSE 0]
         /\ busy => since.ok /\ (since.reads > 0 \/ since.writes > 0)
<1>1. busy \in {since.ok /\ Over(since), FALSE} /\ since' = Look(TRUE)
  BY DEF Sampled, Readings
<1>2. (since.ok /\ Over(since)) \in BOOLEAN
  BY DEF Over
<1>3. since \in Counters
  BY DEF TypeOK
<1>4. busy => since.ok /\ (since.reads > 0 \/ since.writes > 0)
  BY <1>1, <1>3, OverCounts
<1> QED BY <1>1, <1>2, <1>4, LookType, LookFields DEF Sampled

LEMMA ClosedFields ==
  ASSUME TypeOK, Closed
  PROVE  /\ win' \in Counters /\ win'.reads = 0 /\ win'.writes = 0 /\ win'.age = 0 /\ win'.reset = FALSE
         /\ win'.ok => win.ok
BY LookType, LookFields DEF Closed, TypeOK, Counters

\* A sample that finds the disk quiet and one that cannot be read go on; a busy
\* one backs off.
LEMMA BackOffFields ==
  ASSUME NEW y \in [step : Nat, for : Nat \cup {None}], BackOff(y)
  PROVE  /\ pc' \in {"gaveup", "waiting"} /\ left' \in Nat
         /\ yield' \in [step : Nat, for : Nat \cup {None}]
         /\ yield'.for = y.for
         /\ pc' = "gaveup" => y.for > YieldGiveUp
<1> DEFINE z == [y EXCEPT !.step = 2 * @]
<1>0. y.step \in Nat /\ y.for \in Nat \cup {None} /\ 2 * y.step \in Nat
  OBVIOUS
<1>1. z \in [step : Nat, for : Nat \cup {None}] /\ z.for = y.for
  BY <1>0
<1>2. Smaller(y.step, YieldMax) \in Nat
  BY <1>0, SmallerNat, YieldAssumption
<1> HIDE DEF z
<1>3. yield' \in {y, z}
  BY DEF BackOff, z
<1>4. pc' \in {"gaveup", "waiting"} /\ left' \in Nat /\ (pc' = "gaveup" => y.for > YieldGiveUp)
  BY <1>2 DEF BackOff
<1> QED BY <1>1, <1>3, <1>4

\* The three outcomes of a look at the counters by WaitIfBusy.
LEMMA LookedFields ==
  ASSUME TypeOK, Unreadable \/ Quiet \/ FoundBusy \/ StillBusy
  PROVE  /\ pc' \in {"ready", "gaveup", "waiting"} /\ left' \in Nat
         /\ since' \in Counters
         /\ yield' \in [step : Nat, for : Nat \cup {None}]
         /\ truth' \in [cause : BOOLEAN, age : Nat, near : BOOLEAN, during : BOOLEAN, quiet : Nat]
         /\ truth'.age = truth.age
         /\ \/ since' = since /\ truth' = truth /\ yield' = yield
            \/ since'.reads = 0 /\ since'.writes = 0
         /\ yield.for <= truth.quiet => yield'.for <= truth'.quiet
         /\ yield.for <= truth.quiet /\ pc' = "gaveup" => truth'.quiet > YieldGiveUp
         /\ pc' = "waiting" => since.ok /\ (since.reads > 0 \/ since.writes > 0)
<1> DEFINE Ys == [step : Nat, for : Nat \cup {None}]
           Ts == [cause : BOOLEAN, age : Nat, near : BOOLEAN, during : BOOLEAN, quiet : Nat]
<1>1. /\ truth \in Ts /\ yield \in Ys /\ since \in Counters /\ YieldGiveUp \in Nat
      /\ truth.quiet \in Nat /\ yield.for \in Nat \cup {None}
  BY YieldAssumption DEF TypeOK
<1>2. CASE Unreadable
  BY <1>1, <1>2 DEF Unreadable, Proceed
<1>3. CASE Quiet
  <2>1. /\ since' \in Counters /\ since'.reads = 0 /\ since'.writes = 0
        /\ truth' = [truth EXCEPT !.cause = FALSE, !.quiet = 0]
    BY <1>3, SampledFields DEF Quiet
  <2>2. truth' \in Ts /\ truth'.quiet = 0 /\ truth'.age = truth.age
    BY <2>1, <1>1
  <2>3. pc' = "ready" /\ left' = 0 /\ yield' \in Ys /\ yield'.for = None
    BY <1>3 DEF Quiet, Proceed, Patient
  <2> QED BY <2>1, <2>2, <2>3
<1>4. ASSUME NEW y \in Ys, Sampled(TRUE), BackOff(y), y.for = yield.for \/ y.for = 0
      PROVE  /\ pc' \in {"gaveup", "waiting"} /\ left' \in Nat
             /\ since' \in Counters /\ yield' \in Ys /\ truth' \in Ts
             /\ since'.reads = 0 /\ since'.writes = 0 /\ truth'.age = truth.age
             /\ yield.for <= truth.quiet => yield'.for <= truth'.quiet
             /\ yield.for <= truth.quiet /\ pc' = "gaveup" => truth'.quiet > YieldGiveUp
             /\ since.ok /\ (since.reads > 0 \/ since.writes > 0)
  <2>1. /\ since' \in Counters /\ since'.reads = 0 /\ since'.writes = 0
        /\ truth' = [truth EXCEPT !.cause = FALSE, !.quiet = truth.quiet]
        /\ since.ok /\ (since.reads > 0 \/ since.writes > 0)
    BY <1>4, SampledFields
  <2>2. truth' \in Ts /\ truth'.quiet = truth.quiet /\ truth'.age = truth.age
    BY <2>1, <1>1
  <2>3. /\ pc' \in {"gaveup", "waiting"} /\ left' \in Nat /\ yield' \in Ys /\ yield'.for = y.for
        /\ pc' = "gaveup" => y.for > YieldGiveUp
    BY <1>4, BackOffFields
  <2>4. yield.for <= truth.quiet => y.for <= truth.quiet
    BY <1>1, <1>4
  <2> QED BY <2>1, <2>2, <2>3, <2>4, <1>1
<1>5. CASE StillBusy
  BY <1>1, <1>4, <1>5 DEF StillBusy
<1>6. CASE FoundBusy
  <2> DEFINE y == IF yield.for = None THEN [yield EXCEPT !.for = 0] ELSE yield
  <2>1. y \in Ys /\ (y.for = yield.for \/ y.for = 0)
    BY <1>1
  <2>2. Sampled(TRUE) /\ BackOff(y)
    BY <1>6 DEF FoundBusy
  <2> HIDE DEF y
  <2> QED BY <1>4, <2>1, <2>2
<1> QED BY <1>2, <1>3, <1>5, <1>6

(***************************************************************************)
(* Types.                                                                  *)
(***************************************************************************)

Blocks ==
  [try : 0 .. ContentionRetries, slow : BOOLEAN,
   verdict : {"none", "slow", "fast", "contended"},
   alone : BOOLEAN, unshared : BOOLEAN, blind : BOOLEAN]
Truths == [cause : BOOLEAN, age : Nat, near : BOOLEAN, during : BOOLEAN, quiet : Nat]
Yields == [step : Nat, for : Nat \cup {None}]

LEMMA TypeParts ==
  TypeOK <=>
    /\ pc \in {"ready", "waiting", "gaveup", "reading", "ending", "failed", "settling", "resting"}
    /\ phase \in {"sweep", "rewrite", "probe"}
    /\ left \in Nat /\ since \in Counters /\ win \in Counters
    /\ yield \in Yields /\ blk \in Blocks /\ truth \in Truths
BY DEF TypeOK, Yields, Blocks, Truths

LEMMA NewTypes ==
  NoBlock \in Blocks /\ Patient \in Yields /\ NoTruth \in Truths
BY YieldAssumption DEF NoBlock, Blocks, Patient, Yields, NoTruth, Truths

LEMMA EndTypes ==
  ASSUME TypeOK, End
  PROVE  blk' \in Blocks /\ left' \in Nat /\ pc' \in {"settling", "ready"}
<1>1. PICK shared \in (IF win'.ok THEN Shared ELSE {FALSE}) :
        LET judged == Judged(shared)
            seen == [blk EXCEPT !.blind = @ \/ win.reset \/ ~win'.ok,
                                !.alone = @ \/ (blk.slow /\ ~truth.near),
                                !.unshared = @ \/ (blk.slow /\ ~truth.during)]
        IN IF judged = "settle"
           THEN pc' = "settling" /\ left' = ContentionSettle /\ blk' = [seen EXCEPT !.try = @ + 1]
           ELSE pc' = "ready" /\ left' = 0 /\ blk' = [seen EXCEPT !.verdict = judged]
  BY DEF End
<1> DEFINE b1 == blk.blind \/ win.reset \/ ~win'.ok
           b2 == blk.alone \/ (blk.slow /\ ~truth.near)
           b3 == blk.unshared \/ (blk.slow /\ ~truth.during)
           seen == [blk EXCEPT !.blind = b1, !.alone = b2, !.unshared = b3]
<1>2. b1 \in BOOLEAN /\ b2 \in BOOLEAN /\ b3 \in BOOLEAN
  OBVIOUS
<1>3. blk \in Blocks
  BY DEF TypeOK, Blocks
<1> HIDE DEF b1, b2, b3
<1>4. seen \in Blocks /\ seen.try = blk.try
  BY <1>2, <1>3 DEF Blocks
<1>5. /\ Judged(shared) = "settle" => blk.try < ContentionRetries
      /\ Judged(shared) \in {"settle", "contended", "slow", "fast"}
  BY DEF Judged
<1>6. ContentionRetries \in Nat /\ ContentionSettle \in Nat /\ blk.try \in 0 .. ContentionRetries
  BY YieldAssumption, <1>3 DEF Blocks
<1>7. IF Judged(shared) = "settle"
      THEN pc' = "settling" /\ left' = ContentionSettle /\ blk' = [seen EXCEPT !.try = @ + 1]
      ELSE pc' = "ready" /\ left' = 0 /\ blk' = [seen EXCEPT !.verdict = Judged(shared)]
  BY <1>1 DEF b1, b2, b3
<1> HIDE DEF seen
<1>8. CASE Judged(shared) = "settle"
  <2>1. blk.try + 1 \in 0 .. ContentionRetries
    BY <1>5, <1>6, <1>8
  <2> QED BY <2>1, <1>4, <1>6, <1>7, <1>8 DEF Blocks
<1>9. CASE Judged(shared) # "settle"
  <2>1. Judged(shared) \in {"contended", "slow", "fast"}
    BY <1>5, <1>9
  <2> QED BY <2>1, <1>4, <1>7, <1>9 DEF Blocks
<1> QED BY <1>8, <1>9

LEMMA TypeStep ==
  ASSUME TypeOK, Next
  PROVE  TypeOK'
<1> USE DEF Blocks, Truths, Yields
<1>0. /\ pc \in {"ready", "waiting", "gaveup", "reading", "ending", "failed", "settling", "resting"}
      /\ phase \in {"sweep", "rewrite", "probe"}
      /\ left \in Nat /\ since \in Counters /\ win \in Counters
      /\ yield \in Yields /\ blk \in Blocks /\ truth \in Truths
  BY TypeParts
<1> HIDE DEF Blocks, Truths, Yields
<1> SUFFICES
      /\ pc' \in {"ready", "waiting", "gaveup", "reading", "ending", "failed", "settling", "resting"}
      /\ phase' \in {"sweep", "rewrite", "probe"}
      /\ left' \in Nat /\ since' \in Counters /\ win' \in Counters
      /\ yield' \in Yields /\ blk' \in Blocks /\ truth' \in Truths
  BY DEF TypeOK, Yields, Blocks, Truths
<1>1. CASE WaitIfBusy
  <2>1. Unreadable \/ Quiet \/ FoundBusy
    BY <1>1 DEF WaitIfBusy
  <2>2. /\ phase' \in {phase, "rewrite"} /\ blk' = NoBlock /\ win' = win
    BY <1>1 DEF WaitIfBusy
  <2> QED BY <1>0, <2>1, <2>2, LookedFields, NewTypes DEF Truths, Yields
<1>2. CASE Wakes
  <2>1. Unreadable \/ Quiet \/ StillBusy
    BY <1>2 DEF Wakes
  <2>2. UNCHANGED <<phase, win, blk>>
    BY <1>2 DEF Wakes
  <2> QED BY <1>0, <2>1, <2>2, LookedFields DEF Truths, Yields
<1>3. CASE StopsYielding
  BY <1>0, <1>3, YieldAssumption DEF StopsYielding, Rests
<1>4. CASE Probes
  BY <1>0, <1>4 DEF Probes
<1>5. CASE Begin
  <2>1. win' = win \/ \E ok \in BOOLEAN : win' = Look(ok)
    BY <1>5 DEF Begin, Opened
  <2>2. win' \in Counters
    BY <2>1, <1>0, LookType
  <2>3. truth' \in Truths
    <3> DEFINE n == truth.age < WindowReuse
    <3>1. truth' = [truth EXCEPT !.near = n, !.during = FALSE] /\ n \in BOOLEAN
      BY <1>5 DEF Begin
    <3> HIDE DEF n
    <3> QED BY <3>1, <1>0 DEF Truths
  <2> QED BY <2>2, <2>3, <1>0, <1>5, NewTypes DEF Begin
<1>6. CASE Read
  <2>1. PICK result \in {"fast", "slow", "failed"} :
          /\ Counted(0, 0) \/ (result = "failed" /\ Counted(1, 0))
          /\ pc' = IF result = "failed" THEN "failed" ELSE "ending"
          /\ blk' = [blk EXCEPT !.slow = (result = "slow")]
          /\ truth' = [truth EXCEPT !.cause = @ \/ result = "failed"]
    BY <1>6 DEF Read
  <2>2. since' \in Counters /\ win' \in Counters
    BY <2>1, CountedFields
  <2>3. blk' \in Blocks
    <3> DEFINE n == result = "slow"
    <3>1. blk' = [blk EXCEPT !.slow = n] /\ n \in BOOLEAN
      BY <2>1
    <3> HIDE DEF n
    <3> QED BY <3>1, <1>0 DEF Blocks
  <2>4. truth' \in Truths
    <3> DEFINE n == truth.cause \/ result = "failed"
    <3>1. truth' = [truth EXCEPT !.cause = n] /\ n \in BOOLEAN
      BY <2>1
    <3> HIDE DEF n
    <3> QED BY <3>1, <1>0 DEF Truths
  <2> QED BY <2>1, <2>2, <2>3, <2>4, <1>0, <1>6 DEF Read
<1>7. CASE End
  <2>1. win' \in Counters
    BY <1>7, ClosedFields DEF End
  <2> QED BY <2>1, <1>0, <1>7, EndTypes DEF End
<1>8. CASE EndFailed
  <2>1. win' \in Counters
    BY <1>8, ClosedFields DEF EndFailed
  <2> QED BY <2>1, <1>0, <1>8, NewTypes DEF EndFailed
<1>9. CASE WriteBack
  <2>1. win' \in Counters
    BY <1>0, <1>9, PlusFields DEF WriteBack, Written
  <2> QED BY <2>1, <1>0, <1>9 DEF WriteBack, Written
<1>10. CASE SkipBack
  <2>1. since' \in Counters /\ win' \in Counters
    BY <1>10, CountedFields DEF SkipBack
  <2>2. truth' \in Truths
    BY <1>0, <1>10 DEF SkipBack, Truths
  <2> QED BY <2>1, <2>2, <1>0, <1>10 DEF SkipBack
<1>11. CASE RoundEnds
  BY <1>0, <1>11, LookType, NewTypes DEF RoundEnds
<1>12. CASE Tick
  <2>1. /\ MaxCount \in Nat /\ WindowReuse \in Nat /\ YieldGiveUp + 1 \in Nat
        /\ since.age \in Nat /\ win.age \in Nat /\ truth.age \in Nat /\ truth.quiet \in Nat
        /\ yield.for \in Nat \cup {None}
    BY YieldAssumption, <1>0 DEF Counters, Truths, Yields
  <2>2. Older(since.age, MaxCount) \in Nat /\ Older(win.age, WindowReuse) \in Nat
    BY <2>1, OlderNat
  <2>3. Older(truth.age, WindowReuse) \in Nat /\ Older(truth.quiet, YieldGiveUp + 1) \in Nat
    BY <2>1, OlderNat
  <2>4. (IF yield.for = None THEN None ELSE Older(yield.for, YieldGiveUp + 1)) \in Nat \cup {None}
    BY <2>1, OlderNat
  <2>5. since' \in Counters /\ win' \in Counters
    BY <2>2, <1>0, <1>12 DEF Tick, Counters
  <2>6. truth' \in Truths
    BY <2>3, <1>0, <1>12 DEF Tick, Truths
  <2>7. yield' \in Yields
    BY <2>4, <1>0, <1>12 DEF Tick, Yields
  <2>8. left' \in Nat
    BY <1>0, <1>12 DEF Tick
  <2> QED BY <2>5, <2>6, <2>7, <2>8, <1>0, <1>12 DEF Tick
<1>13. CASE Others
  <2>1. PICK r \in 0 .. 1, w \in 0 .. 1 : Counted(r, w)
    BY <1>13 DEF Others
  <2>2. since' \in Counters /\ win' \in Counters
    BY <2>1, CountedFields
  <2>3. truth' \in Truths
    <3>1. truth' = [truth EXCEPT !.cause = TRUE, !.age = 0, !.near = InRead, !.during = InRead] /\ InRead \in BOOLEAN
      BY <1>13 DEF Others, InRead
    <3> QED BY <3>1, <1>0 DEF Truths
  <2> QED BY <2>2, <2>3, <1>0, <1>13 DEF Others
<1>14. CASE Reset
  <2>1. since' \in Counters /\ win' \in Counters
    BY <1>0, <1>14, AgainFields DEF Reset
  <2> QED BY <2>1, <1>0, <1>14 DEF Reset
<1> QED BY <1>1, <1>2, <1>3, <1>4, <1>5, <1>6, <1>7, <1>8, <1>9, <1>10, <1>11, <1>12, <1>13, <1>14
        DEF Next, Program

\* Every variable is a record of what the monitor and readSettled keep.
THEOREM YieldTypes == Spec => []TypeOK
<1>1. Init => TypeOK
  <2> SUFFICES ASSUME Init PROVE TypeOK
    OBVIOUS
  <2>1. /\ since \in Counters /\ win \in Counters /\ left = 0 /\ pc = "ready" /\ phase = "sweep"
        /\ yield \in Yields /\ blk \in Blocks /\ truth \in Truths
    BY LookType, NewTypes DEF Init
  <2> QED BY <2>1, TypeParts
<1>2. TypeOK /\ [Next]_vars => TypeOK'
  BY TypeStep DEF vars, TypeOK
<1> QED BY <1>1, <1>2, PTL DEF Spec

(***************************************************************************)
(* A sample that says busy is about others: whatever is counted since the  *)
(* last sample and not recorded was done by them, or is a failed read.     *)
(***************************************************************************)

Caused == since.ok /\ (since.reads > 0 \/ since.writes > 0) => truth.cause

LEMMA CausedStep ==
  ASSUME TypeOK, TypeOK', Caused, Next
  PROVE  Caused'
<1>0. since \in Counters /\ since' \in Counters /\ truth \in Truths /\ truth' \in Truths
  BY DEF TypeOK, Truths
<1>a. ASSUME UNCHANGED <<since, truth>> PROVE Caused'
  BY <1>a DEF Caused
<1>b. ASSUME since' = since, truth'.cause = truth.cause PROVE Caused'
  BY <1>b DEF Caused
<1>c. ASSUME since'.reads = 0, since'.writes = 0 PROVE Caused'
  BY <1>c DEF Caused
<1>d. ASSUME truth'.cause = TRUE PROVE Caused'
  BY <1>d DEF Caused
<1>1. CASE WaitIfBusy \/ Wakes
  <2>1. Unreadable \/ Quiet \/ FoundBusy \/ StillBusy
    BY <1>1 DEF WaitIfBusy, Wakes
  <2>2. (since' = since /\ truth' = truth) \/ (since'.reads = 0 /\ since'.writes = 0)
    BY <2>1, LookedFields
  <2> QED BY <2>2, <1>a, <1>c
<1>2. CASE StopsYielding \/ Probes \/ End \/ EndFailed \/ WriteBack
  BY <1>2, <1>a DEF StopsYielding, Rests, Probes, End, EndFailed, WriteBack, Written
<1>3. CASE Begin
  <2>1. since' = since
    BY <1>3 DEF Begin
  <2> DEFINE n == truth.age < WindowReuse
  <2>2. truth' = [truth EXCEPT !.near = n, !.during = FALSE]
    BY <1>3 DEF Begin
  <2> HIDE DEF n
  <2>3. truth'.cause = truth.cause
    BY <2>2, <1>0 DEF Truths
  <2> QED BY <2>1, <2>3, <1>b
<1>4. CASE Read
  <2>1. PICK result \in {"fast", "slow", "failed"} :
          /\ Counted(0, 0) \/ (result = "failed" /\ Counted(1, 0))
          /\ truth' = [truth EXCEPT !.cause = @ \/ result = "failed"]
    BY <1>4 DEF Read
  <2> DEFINE n == truth.cause \/ result = "failed"
  <2>2. truth' = [truth EXCEPT !.cause = n]
    BY <2>1
  <2>3. truth'.cause = n
    <3> HIDE DEF n
    <3> QED BY <2>2, <1>0 DEF Truths
  <2>4. CASE result = "failed"
    BY <2>3, <2>4, <1>d
  <2>5. CASE result # "failed"
    <3>1. Counted(0, 0)
      BY <2>1, <2>5
    <3>2. /\ since'.ok = since.ok
          /\ since.ok => (since'.reads > 0 <=> since.reads + 0 > 0)
          /\ since.ok => (since'.writes > 0 <=> since.writes + 0 > 0)
      BY <3>1, CountedFields
    <3>3. since.reads \in Nat /\ since.writes \in Nat
      BY <1>0 DEF Counters
    <3>4. since.reads + 0 = since.reads /\ since.writes + 0 = since.writes
      BY <3>3
    <3> QED BY <3>2, <3>4, <2>3 DEF Caused
  <2> QED BY <2>4, <2>5
<1>5. CASE SkipBack
  <2>1. truth'.cause = TRUE
    BY <1>0, <1>5 DEF SkipBack, Truths
  <2> QED BY <2>1, <1>d
<1>6. CASE RoundEnds \/ Reset
  <2>1. since'.reads = 0 /\ since'.writes = 0
    BY <1>0, <1>6, LookFields, AgainFields DEF RoundEnds, Reset
  <2> QED BY <2>1, <1>c
<1>7. CASE Tick
  <2>1. since' = [since EXCEPT !.age = Older(@, MaxCount)]
    BY <1>7 DEF Tick
  <2>2. since'.ok = since.ok
    BY <2>1, <1>0 DEF Counters
  <2>3. since'.reads = since.reads /\ since'.writes = since.writes
    BY <2>1, <1>0 DEF Counters
  <2>4. truth'.cause = truth.cause
    BY <1>7, <1>0 DEF Tick, Truths
  <2> QED BY <2>2, <2>3, <2>4 DEF Caused
<1>8. CASE Others
  <2>1. truth'.cause = TRUE
    BY <1>0, <1>8 DEF Others, Truths
  <2> QED BY <2>1, <1>d
<1> QED BY <1>1, <1>2, <1>3, <1>4, <1>5, <1>6, <1>7, <1>8 DEF Next, Program

LEMMA CausedInvariant == Spec => []Caused
<1>1. Init => Caused
  BY LookFields DEF Init, Caused
<1>2. TypeOK /\ TypeOK' /\ Caused /\ [Next]_vars => Caused'
  BY CausedStep DEF vars, Caused
<1> QED BY <1>1, <1>2, YieldTypes, PTL DEF Spec

LEMMA YieldsToOthers ==
  ASSUME TypeOK, TypeOK', Caused, [Next]_vars
  PROVE  pc' = "waiting" /\ left' > left => truth.cause
<1> SUFFICES ASSUME pc' = "waiting", left' > left PROVE truth.cause
  OBVIOUS
<1>0. left \in Nat /\ left' \in Nat
  BY DEF TypeOK
<1>1. CASE WaitIfBusy \/ Wakes
  <2>1. Unreadable \/ Quiet \/ FoundBusy \/ StillBusy
    BY <1>1 DEF WaitIfBusy, Wakes
  <2>2. since.ok /\ (since.reads > 0 \/ since.writes > 0)
    BY <2>1, LookedFields
  <2> QED BY <2>2 DEF Caused
<1>2. ASSUME left' = left PROVE FALSE
  BY <1>2, <1>0
<1>3. CASE Tick
  <2>1. left' <= left
    BY <1>0, <1>3 DEF Tick
  <2> QED BY <2>1, <1>0
<1>4. CASE Others \/ Reset \/ UNCHANGED vars \/ WriteBack \/ SkipBack \/ Probes
  BY <1>2, <1>4 DEF Others, Reset, vars, WriteBack, SkipBack, Probes
<1>5. CASE Begin \/ Read \/ EndFailed \/ RoundEnds \/ StopsYielding
  BY <1>5 DEF Begin, Read, EndFailed, RoundEnds, StopsYielding, Rests
<1>6. CASE End
  BY <1>6, EndTypes
<1> QED BY <1>1, <1>3, <1>4, <1>5, <1>6 DEF Next, Program

\* The round never begins to wait because of I/O that was its own and done.
THEOREM RoundYieldsOnlyToOthers == Spec => NeverYieldsToItself
<1>1. TypeOK /\ TypeOK' /\ Caused /\ [Next]_vars
        => [pc' = "waiting" /\ left' > left => truth.cause]_vars
  BY YieldsToOthers
<1> QED BY <1>1, YieldTypes, CausedInvariant, PTL DEF Spec, NeverYieldsToItself

(***************************************************************************)
(* The spell of busy samples is no longer than the time since a sample     *)
(* that found the disk quiet.                                              *)
(***************************************************************************)

Patience ==
  /\ yield.for <= truth.quiet
  /\ pc = "gaveup" => truth.quiet > YieldGiveUp

LEMMA PatienceStep ==
  ASSUME TypeOK, TypeOK', Patience, Next
  PROVE  Patience'
<1>0. /\ truth \in Truths /\ truth' \in Truths /\ yield \in Yields /\ yield' \in Yields
      /\ YieldGiveUp \in Nat
  BY YieldAssumption DEF TypeOK, Truths, Yields
<1>a. ASSUME yield' = yield, truth'.quiet = truth.quiet, pc' = pc \/ pc' # "gaveup" PROVE Patience'
  BY <1>a DEF Patience
<1>1. CASE WaitIfBusy \/ Wakes
  <2>1. Unreadable \/ Quiet \/ FoundBusy \/ StillBusy
    BY <1>1 DEF WaitIfBusy, Wakes
  <2> QED BY <2>1, LookedFields DEF Patience
<1>2. CASE StopsYielding \/ Probes \/ EndFailed \/ WriteBack \/ Reset
  BY <1>2, <1>a DEF StopsYielding, Rests, Probes, EndFailed, WriteBack, Written, Reset
<1>3. CASE End
  BY <1>3, <1>a, EndTypes DEF End
<1>4. CASE Begin \/ Read \/ SkipBack \/ Others
  <2>1. yield' = yield /\ (pc' = pc \/ pc' # "gaveup")
    BY <1>4 DEF Begin, Read, SkipBack, Others
  <2>2. truth'.quiet = truth.quiet
    BY <1>0, <1>4 DEF Begin, Read, SkipBack, Others, Truths
  <2> QED BY <2>1, <2>2, <1>a
<1>5. CASE RoundEnds
  BY <1>5 DEF RoundEnds, Patience, Patient, NoTruth
<1>6. CASE Tick
  <2> DEFINE f == IF yield.for = None THEN None ELSE Older(yield.for, YieldGiveUp + 1)
             q == Older(truth.quiet, YieldGiveUp + 1)
  <2>1. yield' = [yield EXCEPT !.for = f] /\ pc' = pc
    BY <1>6 DEF Tick
  <2>2. truth' = [truth EXCEPT !.age = Older(@, WindowReuse), !.quiet = q]
    BY <1>6 DEF Tick
  <2>3. yield.for \in Nat \cup {None} /\ truth.quiet \in Nat
    BY <1>0 DEF Yields, Truths
  <2>4. f <= q /\ (truth.quiet > YieldGiveUp => q > YieldGiveUp)
    BY <2>3, <1>0 DEF Older, Smaller, Patience
  <2> HIDE DEF f, q
  <2>5. yield'.for = f /\ truth'.quiet = q
    BY <2>1, <2>2, <1>0 DEF Yields, Truths
  <2> QED BY <2>1, <2>4, <2>5 DEF Patience
<1> QED BY <1>1, <1>2, <1>3, <1>4, <1>5, <1>6 DEF Next, Program

LEMMA PatienceInvariant == Spec => []Patience
<1>1. Init => Patience
  BY DEF Init, Patience, Patient, NoTruth
<1>2. TypeOK /\ TypeOK' /\ Patience /\ [Next]_vars => Patience'
  BY PatienceStep DEF vars, Patience
<1> QED BY <1>1, <1>2, YieldTypes, PTL DEF Spec

\* A round is given up to the others only when every sample for longer than
\* YieldGiveUp found them at work.
THEOREM RoundGivesUpOnSustainedUse == Spec => GivesUpOnlyOnSustainedUse
<1>1. TypeOK /\ TypeOK' /\ Patience /\ [Next]_vars => [pc' = "gaveup" => truth.quiet > YieldGiveUp]_vars
  <2> SUFFICES ASSUME TypeOK, TypeOK', Patience, Next, pc' = "gaveup" PROVE truth.quiet > YieldGiveUp
    OBVIOUS
  <2>1. CASE pc = "gaveup"
    BY <2>1 DEF Patience
  <2>2. CASE pc # "gaveup"
    <3>1. WaitIfBusy \/ Wakes
      <4>1. ~End
        BY EndTypes
      <4> QED BY <2>2, <4>1 DEF Next, Program, StopsYielding, Rests, Probes, Begin, Read, EndFailed,
                                WriteBack, SkipBack, RoundEnds, Tick, Others, Reset
    <3>2. Unreadable \/ Quiet \/ FoundBusy \/ StillBusy
      BY <3>1 DEF WaitIfBusy, Wakes
    <3>3. truth'.quiet = truth.quiet \/ pc' = "ready"
      <4>1. truth \in Truths
        BY DEF TypeOK, Truths
      <4>2. CASE Unreadable \/ Quiet
        BY <4>2 DEF Unreadable, Quiet, Proceed
      <4>3. CASE FoundBusy \/ StillBusy
        <5>1. Sampled(TRUE)
          BY <4>3 DEF FoundBusy, StillBusy
        <5> QED BY <5>1, <4>1 DEF Sampled, Truths
      <4> QED BY <3>2, <4>2, <4>3
    <3> QED BY <3>2, <3>3, LookedFields DEF Patience
  <2> QED BY <2>1, <2>2
<1> QED BY <1>1, YieldTypes, PatienceInvariant, PTL DEF Spec, GivesUpOnlyOnSustainedUse

(***************************************************************************)
(* What the window of a read shows.  Active: it counted something.         *)
(***************************************************************************)

Active == win.ok /\ (win.reads > 0 \/ win.writes > 0)

\* What a window counted that is still fresh was done no longer ago than it
\* began, unless the round is writing; when the round goes back to reading, the
\* window of its writes has grown stale.
Dated == Active /\ pc # "failed" => truth.age <= win.age \/ phase = "rewrite" \/ win.age >= WindowReuse
Rested == pc = "resting" /\ phase = "rewrite" => left + win.age >= WindowReuse

\* During a read, a window that counted something had others near it, and one
\* that others used while it was open counted it.
NearIfActive == InRead /\ Active => truth.near
ActiveIfDuring == InRead /\ truth.during /\ win.ok /\ ~win.reset => Active

\* A block that is still being read has no verdict and was not slow alone.
Open == pc \in {"settling", "reading", "ending", "failed"} => blk.verdict = "none" /\ ~blk.alone
Evidence == blk.verdict = "slow" => blk.unshared \/ blk.blind \/ blk.try = ContentionRetries

WindowInv ==
  /\ Dated /\ Rested /\ NearIfActive /\ ActiveIfDuring
  /\ Open /\ SlowAloneStands /\ Evidence

LEMMA DatedStep ==
  ASSUME TypeOK, TypeOK', Dated, Rested, Next
  PROVE  Dated'
<1>0. /\ win \in Counters /\ win' \in Counters /\ truth \in Truths /\ truth' \in Truths
      /\ win.age \in Nat /\ truth.age \in Nat /\ win'.age \in Nat /\ truth'.age \in Nat
      /\ win.reads \in Nat /\ win.writes \in Nat
      /\ left \in Nat /\ WindowReuse \in Nat
  BY YieldAssumption DEF TypeOK, Counters, Truths
<1>a. ASSUME win' = win, truth'.age = truth.age, pc # "failed" \/ pc' = "failed",
             phase' = phase \/ phase' = "rewrite"
      PROVE  Dated'
  BY <1>a DEF Dated, Active
<1>b. ASSUME ~Active' PROVE Dated'
  BY <1>b DEF Dated
<1>c. ASSUME phase' = "rewrite" PROVE Dated'
  BY <1>c DEF Dated
<1>1. CASE WaitIfBusy \/ Wakes
  <2>1. Unreadable \/ Quiet \/ FoundBusy \/ StillBusy
    BY <1>1 DEF WaitIfBusy, Wakes
  <2>2. truth'.age = truth.age
    BY <2>1, LookedFields
  <2>3. win' = win /\ pc # "failed" /\ (phase' = phase \/ phase' = "rewrite")
    BY <1>1 DEF WaitIfBusy, Wakes
  <2> QED BY <2>2, <2>3, <1>a
<1>2. CASE StopsYielding
  BY <1>2, <1>a DEF StopsYielding, Rests
<1>3. CASE Probes
  <2>1. win' = win /\ truth' = truth /\ pc = "resting" /\ left = 0
    BY <1>3 DEF Probes
  <2>2. CASE phase = "rewrite"
    <3>1. win.age >= WindowReuse
      BY <2>1, <2>2, <1>0 DEF Rested
    <3> QED BY <3>1, <2>1 DEF Dated
  <2>3. CASE phase # "rewrite"
    BY <2>1, <2>3 DEF Dated, Active
  <2> QED BY <2>2, <2>3
<1>4. CASE Begin
  <2> DEFINE n == truth.age < WindowReuse
  <2>1. truth' = [truth EXCEPT !.near = n, !.during = FALSE]
    BY <1>4 DEF Begin
  <2> HIDE DEF n
  <2>2. truth'.age = truth.age
    BY <2>1, <1>0 DEF Truths
  <2>3. win' = win \/ ~Active'
    BY <1>4, LookFields DEF Begin, Opened, Active
  <2>4. pc # "failed" /\ phase' = phase
    BY <1>4 DEF Begin
  <2> QED BY <2>2, <2>3, <2>4, <1>a, <1>b
<1>5. CASE Read
  <2>1. PICK result \in {"fast", "slow", "failed"} :
          /\ Counted(0, 0) \/ (result = "failed" /\ Counted(1, 0))
          /\ pc' = IF result = "failed" THEN "failed" ELSE "ending"
          /\ truth' = [truth EXCEPT !.cause = @ \/ result = "failed"]
    BY <1>5 DEF Read
  <2>2. CASE result = "failed"
    BY <2>1, <2>2 DEF Dated
  <2>3. CASE result # "failed"
    <3>1. /\ win'.ok = win.ok /\ win'.age = win.age
          /\ win.ok => (win'.reads > 0 <=> win.reads + 0 > 0)
          /\ win.ok => (win'.writes > 0 <=> win.writes + 0 > 0)
      BY <2>1, <2>3, CountedFields
    <3>2. win.reads + 0 = win.reads /\ win.writes + 0 = win.writes
      BY <1>0
    <3> DEFINE n == truth.cause \/ result = "failed"
    <3>3. truth' = [truth EXCEPT !.cause = n]
      BY <2>1
    <3> HIDE DEF n
    <3>4. truth'.age = truth.age
      BY <3>3, <1>0 DEF Truths
    <3>5. phase' = phase /\ pc # "failed"
      BY <1>5 DEF Read
    <3>6. Active' => Active
      BY <3>1, <3>2 DEF Active
    <3>7. win'.age = win.age
      BY <3>1
    <3> QED BY <3>4, <3>5, <3>6, <3>7 DEF Dated
  <2> QED BY <2>2, <2>3
<1>6. CASE End \/ EndFailed
  <2>1. win'.reads = 0 /\ win'.writes = 0
    BY <1>6, ClosedFields DEF End, EndFailed
  <2> QED BY <2>1, <1>b DEF Active
<1>7. CASE WriteBack \/ SkipBack
  BY <1>7, <1>c DEF WriteBack, SkipBack
<1>8. CASE RoundEnds \/ Reset
  <2>1. win'.reads = 0 /\ win'.writes = 0
    BY <1>0, <1>8, LookFields, AgainFields DEF RoundEnds, Reset
  <2> QED BY <2>1, <1>b DEF Active
<1>9. CASE Tick
  <2> DEFINE a == Older(win.age, WindowReuse)
             b == Older(truth.age, WindowReuse)
  <2>1. win' = [win EXCEPT !.age = a] /\ phase' = phase /\ pc' = pc
    BY <1>9 DEF Tick
  <2>2. truth' = [truth EXCEPT !.age = b, !.quiet = Older(@, YieldGiveUp + 1)]
    BY <1>9 DEF Tick
  <2>3. /\ truth.age <= win.age => b <= a
        /\ win.age >= WindowReuse => a >= WindowReuse
    BY <1>0 DEF Older, Smaller
  <2> HIDE DEF a, b
  <2>4. win'.age = a /\ truth'.age = b
    BY <2>1, <2>2, <1>0 DEF Counters, Truths
  <2>5. Active' => Active
    <3>1. win'.ok = win.ok
      BY <2>1, <1>0 DEF Counters
    <3>2. win'.reads = win.reads /\ win'.writes = win.writes
      BY <2>1, <1>0 DEF Counters
    <3> QED BY <3>1, <3>2 DEF Active
  <2> QED BY <2>1, <2>3, <2>4, <2>5 DEF Dated
<1>10. CASE Others
  <2>1. truth'.age = 0
    BY <1>0, <1>10 DEF Others, Truths
  <2> QED BY <2>1, <1>0 DEF Dated
<1> QED BY <1>1, <1>2, <1>3, <1>4, <1>5, <1>6, <1>7, <1>8, <1>9, <1>10 DEF Next, Program

LEMMA RestedStep ==
  ASSUME TypeOK, TypeOK', Rested, Next
  PROVE  Rested'
<1>0. /\ win \in Counters /\ win.age \in Nat /\ win'.age \in Nat /\ left \in Nat /\ WindowReuse \in Nat \ {0}
  BY YieldAssumption DEF TypeOK, Counters
<1>a. ASSUME pc' # "resting" PROVE Rested'
  BY <1>a DEF Rested
<1>1. CASE WaitIfBusy \/ Wakes
  <2>1. Unreadable \/ Quiet \/ FoundBusy \/ StillBusy
    BY <1>1 DEF WaitIfBusy, Wakes
  <2>2. pc' # "resting"
    BY <2>1, LookedFields
  <2> QED BY <2>2, <1>a
<1>2. CASE StopsYielding
  <2>1. phase' = phase /\ win' = win /\ (phase = "rewrite" => left' = WindowReuse)
    BY <1>2 DEF StopsYielding, Rests
  <2> QED BY <2>1, <1>0 DEF Rested
<1>3. CASE End
  BY <1>3, <1>a, EndTypes
<1>4. CASE Probes \/ Begin \/ Read \/ EndFailed \/ WriteBack \/ SkipBack \/ RoundEnds
  BY <1>4, <1>a DEF Probes, Begin, Read, EndFailed, WriteBack, SkipBack, RoundEnds
<1>5. CASE Tick
  <2> DEFINE a == Older(win.age, WindowReuse)
             l == IF left = 0 THEN 0 ELSE left - 1
  <2>1. win' = [win EXCEPT !.age = a] /\ phase' = phase /\ pc' = pc /\ left' = l
    BY <1>5 DEF Tick
  <2>2. left + win.age >= WindowReuse => l + a >= WindowReuse
    BY <1>0 DEF Older, Smaller
  <2> HIDE DEF a, l
  <2>3. win'.age = a
    BY <2>1, <1>0 DEF Counters
  <2> QED BY <2>1, <2>2, <2>3 DEF Rested
<1>6. CASE Others \/ Reset
  <2>1. win'.age = win.age
    <3>1. CASE Others
      <4>1. PICK r \in 0 .. 1, w \in 0 .. 1 : Counted(r, w)
        BY <3>1 DEF Others
      <4> QED BY <4>1, CountedFields
    <3>2. CASE Reset
      BY <3>2, <1>0, AgainFields DEF Reset
    <3> QED BY <1>6, <3>1, <3>2
  <2>2. UNCHANGED <<pc, phase, left>>
    BY <1>6 DEF Others, Reset
  <2> QED BY <2>1, <2>2 DEF Rested
<1> QED BY <1>1, <1>2, <1>3, <1>4, <1>5, <1>6 DEF Next, Program

\* The steps of the program that end outside a read.
LEMMA OutsideStep ==
  ASSUME TypeOK, WaitIfBusy \/ Wakes \/ StopsYielding \/ Probes \/ End \/ EndFailed
                   \/ WriteBack \/ SkipBack \/ RoundEnds
  PROVE  ~InRead'
<1>1. CASE WaitIfBusy \/ Wakes
  <2>1. Unreadable \/ Quiet \/ FoundBusy \/ StillBusy
    BY <1>1 DEF WaitIfBusy, Wakes
  <2> QED BY <2>1, LookedFields DEF InRead
<1>2. CASE End
  BY <1>2, EndTypes DEF InRead
<1>3. CASE StopsYielding \/ Probes \/ EndFailed \/ WriteBack \/ SkipBack \/ RoundEnds
  BY <1>3 DEF StopsYielding, Rests, Probes, EndFailed, WriteBack, SkipBack, RoundEnds, InRead
<1> QED BY <1>1, <1>2, <1>3

\* A read leaves the window, what was near it and what was during it alone.
LEMMA ReadFields ==
  ASSUME TypeOK, Read, InRead'
  PROVE  /\ pc = "reading" /\ (Active' <=> Active)
         /\ win'.ok = win.ok /\ win'.reset = win.reset
         /\ truth'.near = truth.near /\ truth'.during = truth.during
<1>0. win \in Counters /\ truth \in Truths /\ win.reads \in Nat /\ win.writes \in Nat
  BY DEF TypeOK, Counters, Truths
<1>1. PICK result \in {"fast", "slow", "failed"} :
        /\ Counted(0, 0) \/ (result = "failed" /\ Counted(1, 0))
        /\ pc' = IF result = "failed" THEN "failed" ELSE "ending"
        /\ truth' = [truth EXCEPT !.cause = @ \/ result = "failed"]
  BY DEF Read
<1>2. Counted(0, 0)
  BY <1>1 DEF InRead
<1>3. /\ win'.ok = win.ok /\ win'.reset = win.reset
      /\ win.ok => (win'.reads > 0 <=> win.reads + 0 > 0)
      /\ win.ok => (win'.writes > 0 <=> win.writes + 0 > 0)
  BY <1>2, CountedFields
<1>4. win.reads + 0 = win.reads /\ win.writes + 0 = win.writes
  BY <1>0
<1> DEFINE n == truth.cause \/ result = "failed"
<1>5. truth' = [truth EXCEPT !.cause = n]
  BY <1>1
<1> HIDE DEF n
<1>6. truth'.near = truth.near
  BY <1>5, <1>0 DEF Truths
<1>7. truth'.during = truth.during
  BY <1>5, <1>0 DEF Truths
<1>8. pc = "reading"
  BY DEF Read
<1>9. Active' <=> Active
  BY <1>3, <1>4 DEF Active
<1> QED BY <1>3, <1>6, <1>7, <1>8, <1>9

LEMMA NearStep ==
  ASSUME TypeOK, TypeOK', Dated, NearIfActive, Next
  PROVE  NearIfActive'
<1>0. /\ win \in Counters /\ truth \in Truths /\ win.age \in Nat /\ truth.age \in Nat
      /\ WindowReuse \in Nat
  BY YieldAssumption DEF TypeOK, Counters, Truths
<1>1. CASE WaitIfBusy \/ Wakes \/ StopsYielding \/ Probes \/ End \/ EndFailed
             \/ WriteBack \/ SkipBack \/ RoundEnds
  BY <1>1, OutsideStep DEF NearIfActive
<1>2. CASE Begin
  <2> DEFINE n == truth.age < WindowReuse
  <2>1. truth' = [truth EXCEPT !.near = n, !.during = FALSE]
    BY <1>2 DEF Begin
  <2>2. Active' => win' = win /\ Fresh
    BY <1>2, LookFields DEF Begin, Opened, Active
  <2>3. Active' => n
    <3>1. SUFFICES ASSUME Active' PROVE n
      OBVIOUS
    <3>2. Active /\ win.age < WindowReuse
      BY <2>2, <3>1 DEF Active, Fresh
    <3>3. pc # "failed" /\ phase # "rewrite"
      BY <1>2 DEF Begin
    <3> QED BY <3>2, <3>3, <1>0 DEF Dated
  <2> HIDE DEF n
  <2>4. truth'.near = n
    BY <2>1, <1>0 DEF Truths
  <2> QED BY <2>3, <2>4 DEF NearIfActive
<1>3. CASE Read
  <2>1. SUFFICES ASSUME InRead', Active' PROVE truth'.near
    BY DEF NearIfActive
  <2>2. InRead
    BY <2>1, <1>3, ReadFields DEF InRead
  <2> QED BY <2>1, <2>2, <1>3, ReadFields DEF NearIfActive
<1>4. CASE Tick
  <2>1. win' = [win EXCEPT !.age = Older(@, WindowReuse)] /\ pc' = pc
    BY <1>4 DEF Tick
  <2>2. truth' = [truth EXCEPT !.age = Older(@, WindowReuse), !.quiet = Older(@, YieldGiveUp + 1)]
    BY <1>4 DEF Tick
  <2>3. truth'.near = truth.near
    BY <2>2, <1>0 DEF Truths
  <2>4. win'.ok = win.ok
    BY <2>1, <1>0 DEF Counters
  <2>5. win'.reads = win.reads /\ win'.writes = win.writes
    BY <2>1, <1>0 DEF Counters
  <2> QED BY <2>1, <2>3, <2>4, <2>5 DEF NearIfActive, Active, InRead
<1>5. CASE Others
  <2>1. pc' = pc /\ truth' = [truth EXCEPT !.cause = TRUE, !.age = 0, !.near = InRead, !.during = InRead]
    BY <1>5 DEF Others
  <2> DEFINE n == InRead
  <2>2. truth' = [truth EXCEPT !.cause = TRUE, !.age = 0, !.near = n, !.during = n]
    BY <2>1
  <2> HIDE DEF n
  <2>3. truth'.near = n
    BY <2>2, <1>0 DEF Truths
  <2>4. InRead' <=> InRead
    BY <2>1 DEF InRead
  <2> QED BY <2>3, <2>4 DEF NearIfActive, n
<1>6. CASE Reset
  <2>1. win'.reads = 0 /\ win'.writes = 0
    BY <1>0, <1>6, AgainFields DEF Reset
  <2> QED BY <2>1 DEF NearIfActive, Active
<1> QED BY <1>1, <1>2, <1>3, <1>4, <1>5, <1>6 DEF Next, Program

LEMMA DuringStep ==
  ASSUME TypeOK, TypeOK', ActiveIfDuring, Next
  PROVE  ActiveIfDuring'
<1>0. /\ win \in Counters /\ truth \in Truths /\ win.reads \in Nat /\ win.writes \in Nat
  BY DEF TypeOK, Counters, Truths
<1>1. CASE WaitIfBusy \/ Wakes \/ StopsYielding \/ Probes \/ End \/ EndFailed
             \/ WriteBack \/ SkipBack \/ RoundEnds
  BY <1>1, OutsideStep DEF ActiveIfDuring
<1>2. CASE Begin
  <2> DEFINE n == truth.age < WindowReuse
  <2>1. truth' = [truth EXCEPT !.near = n, !.during = FALSE]
    BY <1>2 DEF Begin
  <2> HIDE DEF n
  <2>2. truth'.during = FALSE
    BY <2>1, <1>0 DEF Truths
  <2> QED BY <2>2 DEF ActiveIfDuring
<1>3. CASE Read
  <2>1. SUFFICES ASSUME InRead', truth'.during, win'.ok, ~win'.reset PROVE Active'
    BY DEF ActiveIfDuring
  <2>2. InRead /\ truth.during /\ win.ok /\ ~win.reset
    BY <2>1, <1>3, ReadFields DEF InRead
  <2> QED BY <2>1, <2>2, <1>3, ReadFields DEF ActiveIfDuring
<1>4. CASE Tick
  <2>1. win' = [win EXCEPT !.age = Older(@, WindowReuse)] /\ pc' = pc
    BY <1>4 DEF Tick
  <2>2. truth' = [truth EXCEPT !.age = Older(@, WindowReuse), !.quiet = Older(@, YieldGiveUp + 1)]
    BY <1>4 DEF Tick
  <2>3. truth'.during = truth.during
    BY <2>2, <1>0 DEF Truths
  <2>4. win'.ok = win.ok
    BY <2>1, <1>0 DEF Counters
  <2>5. win'.reset = win.reset
    BY <2>1, <1>0 DEF Counters
  <2>6. win'.reads = win.reads /\ win'.writes = win.writes
    BY <2>1, <1>0 DEF Counters
  <2> QED BY <2>1, <2>3, <2>4, <2>5, <2>6 DEF ActiveIfDuring, Active, InRead
<1>5. CASE Others
  <2>1. PICK r \in 0 .. 1, w \in 0 .. 1 : r + w = 1 /\ Counted(r, w)
    BY <1>5 DEF Others
  <2>2. /\ win'.ok = win.ok
        /\ win.ok => (win'.reads > 0 <=> win.reads + r > 0)
        /\ win.ok => (win'.writes > 0 <=> win.writes + w > 0)
    BY <2>1, CountedFields
  <2>3. r = 1 \/ w = 1
    BY <2>1
  <2>4. win.reads + r > 0 \/ win.writes + w > 0
    BY <2>1, <2>3, <1>0
  <2> QED BY <2>2, <2>4 DEF ActiveIfDuring, Active
<1>6. CASE Reset
  <2>1. win'.ok = win'.reset
    BY <1>0, <1>6, AgainFields DEF Reset
  <2> QED BY <2>1 DEF ActiveIfDuring
<1> QED BY <1>1, <1>2, <1>3, <1>4, <1>5, <1>6 DEF Next, Program

LEMMA VerdictStep ==
  ASSUME TypeOK, TypeOK', NearIfActive, ActiveIfDuring, Open, SlowAloneStands, Evidence, Next
  PROVE  Open' /\ SlowAloneStands' /\ Evidence'
<1>0. blk \in Blocks /\ blk' \in Blocks /\ win \in Counters /\ ContentionRetries \in Nat
  BY YieldAssumption DEF TypeOK, Blocks
<1>a. ASSUME blk' = blk, pc' = pc \/ pc' \notin {"settling", "reading", "ending", "failed"}
      PROVE  Open' /\ SlowAloneStands' /\ Evidence'
  BY <1>a DEF Open, SlowAloneStands, Evidence
<1>b. ASSUME blk' = NoBlock PROVE Open' /\ SlowAloneStands' /\ Evidence'
  BY <1>b DEF NoBlock, Open, SlowAloneStands, Evidence
<1>1. CASE WaitIfBusy \/ EndFailed \/ RoundEnds
  BY <1>1, <1>b DEF WaitIfBusy, EndFailed, RoundEnds
<1>2. CASE Wakes
  <2>1. Unreadable \/ Quiet \/ FoundBusy \/ StillBusy
    BY <1>2 DEF Wakes
  <2>2. pc' \in {"ready", "gaveup", "waiting"} /\ blk' = blk
    BY <2>1, <1>2, LookedFields DEF Wakes
  <2> QED BY <2>2, <1>a
<1>3. CASE StopsYielding \/ Probes \/ WriteBack \/ SkipBack \/ Tick \/ Others \/ Reset
  BY <1>3, <1>a DEF StopsYielding, Rests, Probes, WriteBack, SkipBack, Tick, Others, Reset
<1>4. CASE Begin
  BY <1>4, <1>b DEF Begin, Open, SlowAloneStands, Evidence
<1>5. CASE Read
  <2>1. PICK result \in {"fast", "slow", "failed"} : blk' = [blk EXCEPT !.slow = (result = "slow")]
    BY <1>5 DEF Read
  <2> DEFINE n == result = "slow"
  <2>2. blk' = [blk EXCEPT !.slow = n]
    BY <2>1
  <2> HIDE DEF n
  <2>3. blk'.verdict = blk.verdict /\ blk'.try = blk.try
    BY <2>2, <1>0 DEF Blocks
  <2>4. blk'.alone = blk.alone
    BY <2>2, <1>0 DEF Blocks
  <2>5. blk'.unshared = blk.unshared
    BY <2>2, <1>0 DEF Blocks
  <2>6. blk'.blind = blk.blind
    BY <2>2, <1>0 DEF Blocks
  <2>7. pc = "reading"
    BY <1>5 DEF Read
  <2> QED BY <2>3, <2>4, <2>5, <2>6, <2>7 DEF Open, SlowAloneStands, Evidence
<1>6. CASE End
  <2>1. PICK shared \in (IF win'.ok THEN Shared ELSE {FALSE}) :
          LET judged == Judged(shared)
              seen == [blk EXCEPT !.blind = @ \/ win.reset \/ ~win'.ok,
                                  !.alone = @ \/ (blk.slow /\ ~truth.near),
                                  !.unshared = @ \/ (blk.slow /\ ~truth.during)]
          IN IF judged = "settle"
             THEN pc' = "settling" /\ left' = ContentionSettle /\ blk' = [seen EXCEPT !.try = @ + 1]
             ELSE pc' = "ready" /\ left' = 0 /\ blk' = [seen EXCEPT !.verdict = judged]
    BY <1>6 DEF End
  <2> DEFINE b1 == blk.blind \/ win.reset \/ ~win'.ok
             b2 == blk.alone \/ (blk.slow /\ ~truth.near)
             b3 == blk.unshared \/ (blk.slow /\ ~truth.during)
             seen == [blk EXCEPT !.blind = b1, !.alone = b2, !.unshared = b3]
             j == Judged(shared)
  <2>2. IF j = "settle"
        THEN pc' = "settling" /\ left' = ContentionSettle /\ blk' = [seen EXCEPT !.try = @ + 1]
        ELSE pc' = "ready" /\ left' = 0 /\ blk' = [seen EXCEPT !.verdict = j]
    BY <2>1
  <2>3. InRead /\ blk.verdict = "none" /\ ~blk.alone /\ pc = "ending"
    BY <1>6 DEF End, InRead, Open
  <2>4. win'.ok => win.ok
    BY <1>6, ClosedFields DEF End
  <2>5. shared => win.ok /\ win.reads + win.writes > 0
    BY <2>1, <2>4 DEF Shared
  <2>6. shared => Active
    BY <2>5, <1>0 DEF Active, Counters
  <2>7. shared => truth.near
    BY <2>6, <2>3 DEF NearIfActive
  <2>8. ~shared => win.reset \/ ~win'.ok \/ ~truth.during
    <3> SUFFICES ASSUME ~shared, ~win.reset, win'.ok, truth.during PROVE FALSE
      OBVIOUS
    <3>1. Active
      BY <2>3, <2>4 DEF ActiveIfDuring
    <3>2. win.reads + win.writes > 0
      BY <3>1, <1>0 DEF Active, Counters
    <3>3. shared = (win.ok /\ win.reads + win.writes > 0)
      BY <2>1 DEF Shared
    <3> QED BY <3>2, <3>3, <2>4
  <2>9. /\ j = "settle" => blk.slow /\ shared
        /\ j = "contended" => ~blk.slow
        /\ j = "slow" => blk.slow /\ (shared => ~(blk.try < ContentionRetries))
    BY DEF Judged
  <2>10. /\ j = "settle" => ~b2
         /\ j = "contended" => ~b2
         /\ j = "slow" => b3 \/ b1 \/ blk.try = ContentionRetries
    <3>1. blk.try \in 0 .. ContentionRetries
      BY <1>0 DEF Blocks
    <3>2. ~(blk.try < ContentionRetries) => blk.try = ContentionRetries
      BY <3>1, <1>0
    <3> HIDE DEF j
    <3> QED BY <2>3, <2>7, <2>8, <2>9, <3>2
  <2>11. b1 \in BOOLEAN /\ b2 \in BOOLEAN /\ b3 \in BOOLEAN
    OBVIOUS
  <2> HIDE DEF b1, b2, b3, j
  <2>12. /\ seen \in Blocks /\ seen.try = blk.try /\ seen.verdict = "none"
    BY <2>3, <2>11, <1>0 DEF Blocks
  <2>13. seen.alone = b2
    BY <2>11, <1>0 DEF Blocks
  <2>14. seen.unshared = b3
    BY <2>11, <1>0 DEF Blocks
  <2>15. seen.blind = b1
    BY <2>11, <1>0 DEF Blocks
  <2> HIDE DEF seen
  <2>16. CASE j = "settle"
    <3>1. blk'.verdict = "none"
      BY <2>2, <2>12, <2>16 DEF Blocks
    <3>2. blk'.alone = b2
      BY <2>2, <2>12, <2>13, <2>16 DEF Blocks
    <3> QED BY <3>1, <3>2, <2>10, <2>16 DEF Open, SlowAloneStands, Evidence
  <2>17. CASE j # "settle"
    <3>1. pc' = "ready" /\ blk' = [seen EXCEPT !.verdict = j]
      BY <2>2, <2>17
    <3>2. blk'.verdict = j /\ blk'.try = blk.try
      BY <3>1, <2>12 DEF Blocks
    <3>3. blk'.alone = b2
      BY <3>1, <2>12, <2>13 DEF Blocks
    <3>4. blk'.unshared = b3
      BY <3>1, <2>12, <2>14 DEF Blocks
    <3>5. blk'.blind = b1
      BY <3>1, <2>12, <2>15 DEF Blocks
    <3> QED BY <3>1, <3>2, <3>3, <3>4, <3>5, <2>10 DEF Open, SlowAloneStands, Evidence
  <2> QED BY <2>16, <2>17
<1> QED BY <1>1, <1>2, <1>3, <1>4, <1>5, <1>6 DEF Next, Program

LEMMA WindowInvariant == Spec => []WindowInv
<1>1. Init => WindowInv
  <2> SUFFICES ASSUME Init PROVE WindowInv
    OBVIOUS
  <2>1. win.reads = 0 /\ win.writes = 0 /\ pc = "ready" /\ blk = NoBlock
    BY LookFields DEF Init
  <2>2. ~Active /\ ~InRead
    BY <2>1 DEF Active, InRead
  <2>3. Dated /\ Rested /\ NearIfActive /\ ActiveIfDuring
    BY <2>1, <2>2 DEF Dated, Rested, NearIfActive, ActiveIfDuring
  <2>4. Open /\ SlowAloneStands /\ Evidence
    BY <2>1 DEF NoBlock, Open, SlowAloneStands, Evidence
  <2> QED BY <2>3, <2>4 DEF WindowInv
<1>2. TypeOK /\ TypeOK' /\ WindowInv /\ [Next]_vars => WindowInv'
  <2> SUFFICES ASSUME TypeOK, TypeOK', WindowInv, [Next]_vars PROVE WindowInv'
    OBVIOUS
  <2>1. CASE Next
    BY <2>1, DatedStep, RestedStep, NearStep, DuringStep, VerdictStep DEF WindowInv
  <2>2. CASE UNCHANGED vars
    BY <2>2 DEF vars, WindowInv, Dated, Active, Rested, NearIfActive, ActiveIfDuring, InRead,
                Open, SlowAloneStands, Evidence
  <2> QED BY <2>1, <2>2
<1> QED BY <1>1, <1>2, YieldTypes, PTL DEF Spec

\* A block that was slow with nobody else near it keeps its bad reading.
THEOREM SlowAloneIsNeverExcused == Spec => []SlowAloneStands
<1>1. WindowInv => SlowAloneStands
  BY DEF WindowInv
<1> QED BY <1>1, WindowInvariant, PTL

\* A block is called slow on a reading it had to itself, on retries that ran
\* out, or where the counters could not tell.
THEOREM SlowIsCalledOnEvidence == Spec => []SlowHasEvidence
<1>1. WindowInv => SlowHasEvidence
  BY DEF WindowInv, Evidence, SlowHasEvidence
<1> QED BY <1>1, WindowInvariant, PTL
=============================================================================
