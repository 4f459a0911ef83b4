----------------------------- MODULE StreamProofs -----------------------------
(* Theorems about Stream, for any disk, channel and bounds.                *)
EXTENDS Stream, TLAPS

\* What a frame is numbered with is a round that has begun, and a frame that
\* has been counted.
Counts ==
  /\ past <= round.begun
  /\ Scanning => past < round.begun
  /\ pend.n <= round.frames
  /\ pend.has => pend.seq # 0

TypeInv == TypeOK /\ Counts

USE StreamAssumption DEF Seq0

-----------------------------------------------------------------------------
(* The helpers keep to their types.                                        *)

\* Laying one map over another gives a map.
LEMMA OverType ==
  ASSUME NEW f \in Values, NEW g \in Values
  PROVE  Over(f, g) \in Values
BY DEF Over, Values

LEMMA NothingType == Nothing \in Values /\ NoMap \in Map
BY DEF Nothing, NoMap, Values, Map

\* Publish appends a frame or an event, or leaves the queue alone.
LEMMA PublishType ==
  ASSUME TypeOK
  PROVE  /\ \A f \in Progress : PublishProgress(f) => inbox' \in Seq(Progress \cup Event)
         /\ \A ev \in {"start", "end"} : PublishEvent(ev) => inbox' \in Seq(Progress \cup Event)
<1> DEFINE All == Progress \cup Event
<1>1. inbox \in Seq(All) BY DEF TypeOK
<1>2. \A x \in All : Append(inbox, x) \in Seq(All) BY <1>1
<1>3. \A ev \in {"start", "end", "resync"} : [ev |-> ev] \in All BY DEF Event
<1>4. \A f \in Progress : f \in All OBVIOUS
<1> HIDE DEF All
<1>5. \A f \in Progress : PublishProgress(f) => inbox' \in {inbox, Append(inbox, f)}
  BY DEF PublishProgress
<1>6. \A ev \in {"start", "end"} : PublishEvent(ev) =>
        inbox' \in {inbox, Append(inbox, [ev |-> ev]), Append(inbox, [ev |-> "resync"])}
  BY DEF PublishEvent
<1>7. \A f \in Progress : PublishProgress(f) => inbox' \in Seq(All)
  BY <1>1, <1>2, <1>4, <1>5
<1>8. \A ev \in {"start", "end"} : PublishEvent(ev) => inbox' \in Seq(All)
  BY <1>1, <1>2, <1>3, <1>6
<1> QED BY <1>7, <1>8 DEF All

\* What the page's loop hands on is what its stream has still to deliver.
LEMMA ArrivesType ==
  ASSUME TypeOK, NEW ev, Arrives(ev)
  PROVE  /\ inbox' \in Seq(Progress \cup Event)
         /\ ev = "progress" => Head(inbox) \in Progress
<1>1. inbox \in Seq(Progress \cup Event) /\ inbox # <<>> BY DEF TypeOK, Arrives
<1>2. Head(inbox) \in Progress \cup Event BY <1>1
<1> QED BY <1>1, <1>2 DEF Arrives, Event

\* Another refresh joins those under way.
LEMMA RefreshType ==
  ASSUME TypeOK, NEW r \in Refresh
  PROVE  Append(refresh, r) \in Seq(Refresh)
BY DEF TypeOK

LEMMA AskingType ==
  /\ \A hard \in BOOLEAN : Asking(hard) \in Refresh
  /\ AskingAtEnd \in Refresh
  /\ NoDetail \in Detail
  /\ NoLoad \in Load
BY NothingType DEF Asking, AskingAtEnd, Refresh, NoDetail, Detail, NoLoad, Load

\* The refresh that is answered stays a refresh, and the others wait.
LEMMA BecameType ==
  ASSUME TypeOK, refresh # <<>>, NEW r \in Refresh, Became(r)
  PROVE  refresh' \in Seq(Refresh)
<1>1. refresh \in Seq(Refresh) /\ Tail(refresh) \in Seq(Refresh) BY DEF TypeOK
<1>2. <<r>> \in Seq(Refresh) OBVIOUS
<1>3. refresh' = <<r>> \o Tail(refresh) BY DEF Became
<1> QED BY <1>1, <1>2, <1>3

LEMMA LoadLiveType ==
  ASSUME NEW l \in Load, NEW s \in Seq0
  PROVE  LoadLive(l, s) \in Load
BY AskingType, NothingType DEF LoadLive, Load, NoLoad

LEMMA DropLiveType ==
  ASSUME NEW p \in Page
  PROVE  DropLive(p) \in Page
<1>1. NoMap \in Map /\ Nothing \in Values /\ 0 \in 0 .. MaxFrames BY NothingType
<1>2. DropLive(p) = [p EXCEPT !.map = NoMap, !.queue = Nothing, !.frameN = 0] BY DEF DropLive
<1> QED BY <1>1, <1>2 DEF Page

-----------------------------------------------------------------------------
(* Type correctness, one lemma for each actor.                             *)

\* The flags that are kept about a round's end and its course are flags.
LEMMA HistoryTypes ==
  ASSUME TypeOK, [Next]_vars
  PROVE  ender' \in {"none", "ended", "dropped"} /\ {stale, raced}' \subseteq BOOLEAN
<1> USE DEF TypeOK
<1>1. CASE RoundStep
  <2>1. CASE ScanStart BY <2>1 DEF ScanStart
  <2>2. CASE OpenRound BY <2>2 DEF OpenRound, Finish, history
  <2>3. ASSUME NEW b \in Block, OnBlock(b)
        PROVE  ender' \in {"none", "ended", "dropped"} /\ {stale, raced}' \subseteq BOOLEAN
    BY <2>3 DEF OnBlock, history
  <2>4. CASE OnLive \/ DropPending BY <2>4 DEF OnLive, DropPending, history
  <2>5. CASE EndRound BY <2>5 DEF EndRound, Finish
  <2>6. CASE ScanEnd BY <2>6 DEF ScanEnd
  <2> QED BY <1>1, <2>1, <2>2, <2>3, <2>4, <2>5, <2>6 DEF RoundStep
<1>2. CASE Publisher
  BY <1>2 DEF Publisher, Drain, SendFrame, PublishProgress, Unheard, Races, history
<1>3. CASE Subscribe \/ Disconnect \/ Restart
  <2>0. Deaf \in BOOLEAN BY DEF Deaf
  <2>1. CASE Subscribe BY <2>0, <2>1 DEF Subscribe, server
  <2>2. CASE Disconnect BY <2>2 DEF Disconnect, Unheard, Races, server
  <2>3. CASE Restart BY <2>0, <2>3 DEF Restart
  <2> QED BY <1>3, <2>1, <2>2, <2>3
<1>4. CASE PageStep
  BY <1>4 DEF PageStep, Open, OnHello, OnState, OnResync, OnProgress, ListReturns, DetailReturns,
    ProfilesReturn, LoadReturns, Races, server, history
<1>5. CASE Answer BY <1>5 DEF Answer, DetailAnswered, LoadAnswered, server, history
<1>6. CASE UNCHANGED vars BY <1>6 DEF vars, server, history
<1> QED BY <1>1, <1>2, <1>3, <1>4, <1>5, <1>6 DEF Next

LEMMA RoundTypes == ASSUME TypeInv, RoundStep PROVE TypeInv'
<1> USE DEF TypeInv
<1>h. ender' \in {"none", "ended", "dropped"} /\ {stale, raced}' \subseteq BOOLEAN
  BY HistoryTypes DEF Next
<1> DEFINE B == round.begun  W == round.writes  F == round.frames
<1>0. /\ round \in Round
      /\ B \in 0 .. MaxRounds /\ W \in 0 .. MaxWrites /\ F \in 0 .. MaxFrames
      /\ past \in Nat /\ past <= B
  BY DEF TypeOK, Round, Counts
<1>1. CASE ScanStart
  <2>1. inbox' \in Seq(Progress \cup Event) BY <1>1, PublishType DEF ScanStart
  <2>2. round' \in Round
    <3>1. B + 1 \in 0 .. MaxRounds BY <1>0, <1>1 DEF ScanStart
    <3>2. round' = [round EXCEPT !.pc = "open", !.begun = B + 1] BY <1>0, <1>1 DEF ScanStart
    <3> HIDE DEF B
    <3> QED BY <1>0, <3>1, <3>2 DEF Round, RoundPc
  <2>3. TypeOK' BY <1>h, <1>1, <2>1, <2>2 DEF ScanStart, client, TypeOK
  <2>4. Counts' BY <1>0, <1>1 DEF ScanStart, Counts, Scanning, Round
  <2> QED BY <2>3, <2>4
<1>2. CASE OpenRound
  <2>1. round' \in Round BY <1>0, <1>2 DEF OpenRound, Finish, RoundGoes, Round, RoundPc
  <2>2. live' \in Map
    <3>1. past < B BY <1>2 DEF OpenRound, RoundAt, Counts, Scanning
    <3>2. [seq |-> past + 1, vals |-> Nothing] \in Map BY <1>0, <3>1, NothingType DEF Map
    <3> QED BY <1>2, <3>2 DEF OpenRound, TypeOK
  <2>3. TypeOK' BY <1>h, <1>2, <2>1, <2>2 DEF OpenRound, client, TypeOK
  <2>4. Counts' BY <1>0, <1>2 DEF OpenRound, Finish, RoundAt, RoundGoes, Counts, Scanning, Round
  <2> QED BY <2>3, <2>4
<1>3. ASSUME NEW b \in Block, OnBlock(b) PROVE TypeInv'
  <2>1. W + 1 \in 0 .. MaxWrites BY <1>0, <1>3 DEF OnBlock
  <2>2. live' \in Map BY <1>3, <2>1 DEF OnBlock, TypeOK, Map, Values
  <2>3. pend' \in Pending BY <1>3, <2>1 DEF OnBlock, TypeOK, Pending, Values
  <2>4. round' \in Round BY <1>0, <1>3, <2>1 DEF OnBlock, Round
  <2>5. TypeOK' BY <1>h, <1>3, <2>2, <2>3, <2>4 DEF OnBlock, client, TypeOK
  <2>6. Counts' BY <1>0, <1>3 DEF OnBlock, Counts, Scanning, Round, TypeOK, Pending
  <2> QED BY <2>5, <2>6
<1>4. CASE OnLive
  <2>1. past + 1 \in Seq0 /\ past + 1 # 0
    BY <1>0, <1>4 DEF OnLive, RoundAt, Counts, Scanning
  <2>2. pend' \in Pending BY <1>4, <2>1 DEF OnLive, TypeOK, Pending
  <2>3. TypeOK' BY <1>h, <1>4, <2>1, <2>2 DEF OnLive, client, TypeOK
  <2>4. Counts' BY <1>4, <2>1 DEF OnLive, Counts, Scanning, TypeOK, Pending
  <2> QED BY <2>3, <2>4
<1>5. CASE EndRound
  <2>1. past < B /\ past' \in {past, past + 1} BY <1>5 DEF EndRound, RoundAt, Counts, Scanning
  <2>2. past' \in 0 .. MaxRounds /\ past' <= B BY <1>0, <2>1
  <2>3. round' \in Round /\ round'.begun = B /\ round'.frames = F /\ round'.pc = "idle"
    BY <1>0, <1>5 DEF EndRound, Finish, RoundGoes, Round, RoundPc
  <2>4. TypeOK' BY <1>h, <1>5, <2>2, <2>3, NothingType DEF EndRound, client, TypeOK
  <2>5. Counts' BY <1>5, <2>2, <2>3 DEF EndRound, Counts, Scanning
  <2> QED BY <2>4, <2>5
<1>6. CASE DropPending
  <2>1. pend' = NoPending /\ NoPending \in Pending
    BY <1>6, NothingType DEF DropPending, Dropped, NoPending, Pending
  <2>2. round' \in Round BY <1>0, <1>6 DEF DropPending
  <2>3. TypeOK' BY <1>h, <1>6, <2>1, <2>2 DEF DropPending, client, TypeOK
  <2>4. Counts' BY <1>0, <1>6, <2>1 DEF DropPending, RoundGoes, Counts, Scanning, Round, NoPending
  <2> QED BY <2>3, <2>4
<1>7. CASE ScanEnd
  <2>1. inbox' \in Seq(Progress \cup Event) BY <1>7, PublishType DEF ScanEnd
  <2>2. round' \in Round BY <1>0, <1>7 DEF ScanEnd
  <2>3. TypeOK' BY <1>h, <1>7, <2>1, <2>2 DEF ScanEnd, client, TypeOK
  <2>4. Counts' BY <1>0, <1>7 DEF ScanEnd, RoundGoes, Counts, Scanning, Round
  <2> QED BY <2>3, <2>4
<1> QED BY <1>1, <1>2, <1>3, <1>4, <1>5, <1>6, <1>7 DEF RoundStep

LEMMA PublisherTypes == ASSUME TypeInv, Publisher PROVE TypeInv'
<1> USE DEF TypeInv
<1>h. ender' \in {"none", "ended", "dropped"} /\ {stale, raced}' \subseteq BOOLEAN
  BY HistoryTypes DEF Next
<1>1. CASE Drain
  <2>1. /\ pend \in Pending /\ pend.n \in Nat /\ pend.n <= round.frames
        /\ round.frames \in Nat /\ round.frames < MaxFrames /\ pend.seq \in Seq0 \ {0}
    BY <1>1 DEF Drain, TypeOK, Counts, Round, Pending
  <2>2. pend.n + 1 \in 1 .. MaxFrames BY <2>1
  <2>3. pub' \in Progress BY <1>1, <2>1, <2>2 DEF Drain, NextFrame, Progress, Pending
  <2> DEFINE n == pend.n + 1  f == round.frames + 1
  <2>4. pend' \in Pending
    <3>1. n \in 0 .. MaxFrames BY <2>2
    <3>2. pend' = [pend EXCEPT !.n = n, !.blocks = Nothing, !.dirty = FALSE] BY <1>1 DEF Drain
    <3> HIDE DEF n
    <3> QED BY <2>1, <3>1, <3>2, NothingType DEF Pending
  <2>5. round' \in Round
    <3>1. f \in 0 .. MaxFrames BY <2>1
    <3>2. round' = [round EXCEPT !.frames = f] BY <1>1 DEF Drain
    <3> HIDE DEF f
    <3> QED BY <3>1, <3>2 DEF TypeOK, Round
  <2>6. TypeOK' BY <1>h, <1>1, <2>3, <2>4, <2>5 DEF Drain, client, TypeOK
  <2>7. Counts' BY <1>1, <2>1 DEF Drain, TypeOK, Counts, Scanning, Round, Pending
  <2> QED BY <2>6, <2>7
<1>2. CASE SendFrame
  <2>1. pub \in Progress BY <1>2 DEF SendFrame, TypeOK
  <2>2. inbox' \in Seq(Progress \cup Event) BY <1>2, <2>1, PublishType DEF SendFrame
  <2> QED BY <1>h, <1>2, <2>2 DEF SendFrame, client, TypeOK, Counts, Scanning
<1> QED BY <1>1, <1>2 DEF Publisher

LEMMA ConnectionTypes == ASSUME TypeInv, Subscribe \/ Disconnect \/ Restart PROVE TypeInv'
<1> USE DEF TypeInv
<1>h. ender' \in {"none", "ended", "dropped"} /\ {stale, raced}' \subseteq BOOLEAN
  BY HistoryTypes DEF Next
<1>1. CASE Subscribe
  <2>1. inbox' \in Seq(Progress \cup Event)
    <3>1. [ev |-> "hello"] \in Progress \cup Event BY DEF Event
    <3> QED BY <1>1, <3>1 DEF Subscribe
  <2>2. page' \in Page BY <1>1 DEF Subscribe, TypeOK, Page
  <2> QED BY <1>h, <1>1, <2>1, <2>2 DEF Subscribe, server, TypeOK, Counts, Scanning
<1>2. CASE Disconnect
  <2>1. breaks' \in 0 .. MaxBreaks BY <1>2 DEF Disconnect, TypeOK
  <2>2. inbox' \in Seq(Progress \cup Event) BY <1>2 DEF Disconnect
  <2> QED BY <1>h, <1>2, <2>1, <2>2 DEF Disconnect, server, client, TypeOK, Counts, Scanning
<1>3. CASE Restart
  <2>1. breaks' \in 0 .. MaxBreaks BY <1>3 DEF Restart, TypeOK
  <2>2. inbox' \in Seq(Progress \cup Event) BY <1>3 DEF Restart
  <2>3. pend' = NoPending /\ NoPending \in Pending BY <1>3, NothingType DEF Restart, NoPending, Pending
  <2>4. /\ round \in Round /\ round' \in Round
        /\ round'.begun = round.begun /\ round'.frames = round.frames /\ round'.pc = "idle"
    BY <1>3 DEF Restart, TypeOK, Round, RoundPc
  <2>5. TypeOK' BY <1>h, <1>3, <2>1, <2>2, <2>3, <2>4, NothingType DEF Restart, client, TypeOK
  <2>6. Counts' BY <1>3, <2>3, <2>4 DEF Restart, Counts, Scanning, NoPending, Round
  <2> QED BY <2>5, <2>6
<1> QED BY <1>1, <1>2, <1>3

LEMMA PageTypes == ASSUME TypeInv, PageStep PROVE TypeInv'
<1> USE DEF TypeInv
<1>h. ender' \in {"none", "ended", "dropped"} /\ {stale, raced}' \subseteq BOOLEAN
  BY HistoryTypes DEF Next
<1>0. \A i \in {"hello", "start", "end", "resync"} : Arrives(i) => inbox' \in Seq(Progress \cup Event)
  BY ArrivesType
<1>1. CASE Open
  <2>1. Asking(TRUE) \in Refresh BY AskingType
  <2>2. refresh' = <<Asking(TRUE)>> BY <1>1 DEF Open
  <2>3. \A r \in Refresh : <<r>> \in Seq(Refresh) OBVIOUS
  <2>5. refresh' \in Seq(Refresh) BY <1>0, <2>1, <2>2, <2>3
  <2>4. page' \in Page BY <1>1 DEF Open, TypeOK, Page
  <2> QED BY <1>h, <1>1, <2>4, <2>5 DEF Open, server, TypeOK, Counts, Scanning
<1>2. CASE OnHello
  <2>1. refresh' \in Seq(Refresh)
    BY <1>2, AskingType, RefreshType DEF OnHello, HelloRefresh, TypeOK
  <2> QED BY <1>h, <1>0, <1>2, <2>1 DEF OnHello, server, TypeOK, Counts, Scanning, Page
<1>3. CASE OnState
  <2>1. refresh' \in Seq(Refresh) BY <1>3, AskingType, RefreshType DEF OnState
  <2> QED BY <1>h, <1>0, <1>3, <2>1 DEF OnState, server, TypeOK, Counts, Scanning
<1>4. CASE OnResync
  <2>1. refresh' \in Seq(Refresh) BY <1>4, AskingType, RefreshType DEF OnResync
  <2> QED BY <1>h, <1>0, <1>4, <2>1 DEF OnResync, server, TypeOK, Counts, Scanning
<1>5. CASE OnProgress
  <2> DEFINE f == Head(inbox)
             p == [(IF Gap(f) THEN DropLive(page) ELSE page) EXCEPT !.detail.live = f.seq, !.frameN = f.n]
             l == IF Gap(f) THEN Reload(load) ELSE load
  <2>1. f \in Progress /\ inbox' \in Seq(Progress \cup Event)
    BY <1>5, ArrivesType DEF OnProgress
  <2>2. f.seq \in Seq0 /\ f.n \in 0 .. MaxFrames /\ f.blocks \in Values BY <1>0, <2>1 DEF Progress
  <2>3. p \in Page
    <3>1. (IF Gap(f) THEN DropLive(page) ELSE page) \in Page BY DropLiveType DEF TypeOK
    <3> QED BY <2>2, <3>1 DEF Page, Detail
  <2>4. l \in Load BY DEF TypeOK, Load, Reload
  <2>5. LoadLive(l, f.seq) \in Load BY <2>2, <2>4, LoadLiveType
  <2> HIDE DEF f, p, l
  <2>6. [p EXCEPT !.queue = Over(f.blocks, @)] \in Page
    <3>1. Over(f.blocks, p.queue) \in Values BY <2>2, <2>3, OverType DEF Page
    <3> QED BY <2>3, <3>1 DEF Page
  <2>7. [p EXCEPT !.map.vals = Over(f.blocks, @)] \in Page
    <3>1. Over(f.blocks, p.map.vals) \in Values BY <2>2, <2>3, OverType DEF Page, Map
    <3> QED BY <2>3, <3>1 DEF Page, Map
  <2>8. page' \in Page /\ load' \in Load
    BY <1>5, <2>4, <2>5, <2>6, <2>7 DEF OnProgress, f, p, l
  <2> QED BY <1>h, <1>5, <2>1, <2>8 DEF OnProgress, server, TypeOK, Counts, Scanning
<1>6. CASE ListReturns
  <2>1. refresh # <<>> /\ Head(refresh) \in Refresh BY <1>6 DEF ListReturns, RefreshAt, TypeOK
  <2>2. [Head(refresh) EXCEPT !.pc = "detail"] \in Refresh BY <1>0, <2>1 DEF Refresh
  <2>3. refresh' \in Seq(Refresh) BY <1>6, <2>1, <2>2, BecameType DEF ListReturns
  <2>4. page' \in Page BY <1>6, DropLiveType DEF ListReturns, TypeOK
  <2> QED BY <1>h, <1>6, <2>3, <2>4 DEF ListReturns, server, TypeOK, Counts, Scanning
<1>7. CASE DetailReturns
  <2>1. refresh # <<>> /\ Head(refresh) \in Refresh /\ Tail(refresh) \in Seq(Refresh)
    BY <1>7 DEF DetailReturns, RefreshAt, TypeOK
  <2> DEFINE p == [page EXCEPT !.detail = Head(refresh).detail]
  <2>2. p \in Page BY <1>0, <2>1 DEF Page, Refresh, TypeOK
  <2>3. DropLive(p) \in Page BY <2>2, DropLiveType
  <2>4. page' = p \/ page' = [DropLive(p) EXCEPT !.profile = FALSE, !.fetching = TRUE]
    BY <1>7 DEF DetailReturns
  <2> HIDE DEF p
  <2>5. page' \in Page BY <2>2, <2>3, <2>4 DEF Page
  <2> QED BY <1>h, <1>7, <2>1, <2>5 DEF DetailReturns, server, TypeOK, Counts, Scanning
<1>8. CASE ProfilesReturn
  <2>1. page' \in Page
    <3>1. (past > 0) \in BOOLEAN OBVIOUS
    <3>2. page' = [page EXCEPT !.fetching = FALSE, !.profile = past > 0] BY <1>8 DEF ProfilesReturn
    <3> DEFINE some == past > 0
    <3> HIDE DEF some
    <3>3. some \in BOOLEAN BY <3>1 DEF some
    <3>4. page' = [page EXCEPT !.fetching = FALSE, !.profile = some] BY <3>2 DEF some
    <3> QED BY <3>3, <3>4 DEF TypeOK, Page
  <2>2. page.detail.live \in Seq0 BY DEF TypeOK, Page, Detail
  <2>3. load' \in Load BY <1>8, <2>2, LoadLiveType DEF ProfilesReturn, TypeOK
  <2> QED BY <1>h, <1>8, <2>1, <2>3 DEF ProfilesReturn, server, TypeOK, Counts, Scanning
<1>9. CASE LoadReturns
  <2>1. load' \in Load
    BY <1>9, LoadLiveType, AskingType DEF LoadReturns, TypeOK, Load
  <2>2. page' \in Page
    <3>1. Over(page.queue, load.map.vals) \in Values BY OverType DEF TypeOK, Page, Load, Map
    <3>2. [load.map EXCEPT !.vals = Over(page.queue, @)] \in Map BY <3>1 DEF TypeOK, Load, Map
    <3> QED BY <1>9, <3>2, NothingType DEF LoadReturns, TypeOK, Page
  <2> QED BY <1>h, <1>9, <2>1, <2>2 DEF LoadReturns, server, TypeOK, Counts, Scanning
<1> QED BY <1>1, <1>2, <1>3, <1>4, <1>5, <1>6, <1>7, <1>8, <1>9 DEF PageStep

LEMMA AnswerTypes == ASSUME TypeInv, Answer PROVE TypeInv'
<1> USE DEF TypeInv
<1>h. ender' \in {"none", "ended", "dropped"} /\ {stale, raced}' \subseteq BOOLEAN
  BY HistoryTypes DEF Next
<1>1. CASE DetailAnswered
  <2>1. refresh # <<>> /\ Head(refresh) \in Refresh BY <1>1 DEF DetailAnswered, RefreshAt, TypeOK
  <2>2. [scanning |-> Scanning, live |-> snap] \in Detail BY DEF Detail, Scanning, TypeOK
  <2>3. [Head(refresh) EXCEPT !.pc = "answered", !.detail = [scanning |-> Scanning, live |-> snap]] \in Refresh
    BY <2>1, <2>2 DEF Refresh
  <2>4. refresh' \in Seq(Refresh) BY <1>1, <2>1, <2>3, BecameType DEF DetailAnswered
  <2> QED BY <1>h, <1>1, <2>4 DEF DetailAnswered, server, TypeOK, Counts, Scanning
<1>2. CASE LoadAnswered
  BY <1>h, <1>2 DEF LoadAnswered, server, TypeOK, Counts, Scanning, Load
<1> QED BY <1>1, <1>2 DEF Answer

LEMMA TypesNext == TypeInv /\ [Next]_vars => TypeInv'
<1>1. TypeInv /\ UNCHANGED vars => TypeInv'
  BY DEF TypeInv, vars, server, client, history, TypeOK, Counts, Scanning
<1> QED BY <1>1, RoundTypes, PublisherTypes, ConnectionTypes, PageTypes, AnswerTypes DEF Next

LEMMA TypesInit == Init => TypeInv
<1> SUFFICES ASSUME Init PROVE TypeInv OBVIOUS
<1>1. page \in Page BY NothingType, AskingType DEF Init, Page
<1>2. ender \in {"none", "ended", "dropped"} /\ {stale, raced} \subseteq BOOLEAN BY DEF Init
<1> QED BY <1>1, <1>2, NothingType, AskingType DEF Init, TypeInv, TypeOK, Counts, Scanning, Round, RoundPc, Pending, NoPending

\* Every variable of the round, the hub and the page keeps the type the code
\* gives it, for any disk, channel and bounds; in particular every frame is
\* numbered from 1 and names a round that has begun.
THEOREM StreamTypes == Spec => []TypeOK
<1>1. TypeInv => TypeOK BY DEF TypeInv
<1> QED BY <1>1, TypesInit, TypesNext, PTL DEF Spec

-----------------------------------------------------------------------------
(* Nothing of a round comes behind its end.                                *)

LEMMA ClosedEmpty == Closed(<<>>)
BY DEF Closed

\* One event at the end closes whatever is before it.
LEMMA ClosedByEvent ==
  ASSUME NEW q \in Seq(Progress \cup Event), NEW ev \in {"end", "resync"}
  PROVE  Closed(Append(q, [ev |-> ev]))
<1> DEFINE e == [ev |-> ev]
<1>1. e.ev \in {"end", "resync"} OBVIOUS
<1> HIDE DEF e
<1> DEFINE r == Append(q, e)
<1>2. Len(r) = Len(q) + 1 /\ Len(q) \in Nat OBVIOUS
<1>3. r[Len(q) + 1] = e OBVIOUS
<1> HIDE DEF r
<1>4. SUFFICES ASSUME NEW i \in 1 .. Len(r), r[i].ev = "progress"
      PROVE  \E j \in i + 1 .. Len(r) : r[j].ev \in {"end", "resync"}
  BY DEF Closed, r, e
<1>5. i # Len(q) + 1 BY <1>1, <1>3, <1>4
<1>6. Len(q) + 1 \in i + 1 .. Len(r) BY <1>2, <1>5
<1> QED BY <1>1, <1>3, <1>6

\* What has been heard closes nothing that is still to come.
LEMMA ClosedTail ==
  ASSUME NEW q \in Seq(Progress \cup Event), q # <<>>, Closed(q)
  PROVE  Closed(Tail(q))
<1> DEFINE r == Tail(q)
<1>1. /\ Len(q) \in Nat /\ Len(r) = Len(q) - 1
      /\ \A i \in 1 .. Len(r) : r[i] = q[i + 1]
  OBVIOUS
<1> HIDE DEF r
<1>2. SUFFICES ASSUME NEW i \in 1 .. Len(r), r[i].ev = "progress"
      PROVE  \E j \in i + 1 .. Len(r) : r[j].ev \in {"end", "resync"}
  BY DEF Closed, r
<1>3. i + 1 \in 1 .. Len(q) /\ q[i + 1].ev = "progress" BY <1>1, <1>2
<1>4. PICK k \in i + 2 .. Len(q) : q[k].ev \in {"end", "resync"} BY <1>1, <1>3 DEF Closed
<1>5. k - 1 \in i + 1 .. Len(r) /\ k - 1 \in 1 .. Len(r) /\ (k - 1) + 1 = k BY <1>1, <1>4
<1>6. r[k - 1] = q[k] BY <1>1, <1>5
<1> QED BY <1>4, <1>5, <1>6

\* From DropPending on the slot stays empty, unless another round has begun, and a
\* page that has no stream has nothing to hear.
Quiet ==
  /\ QuietAfterEnd
  /\ round.pc = "idle" /\ ender = "dropped" => pend = NoPending
  /\ conn = "down" => inbox = <<>>

QuietInv == TypeInv /\ Quiet

\* What the round's own steps leave.
LEMMA QuietRound ==
  ASSUME QuietInv, RoundStep
  PROVE  Quiet'
<1> USE DEF QuietInv, Quiet
<1>0. inbox \in Seq(Progress \cup Event) /\ round \in Round BY DEF TypeInv, TypeOK
<1>1. ASSUME NEW ev, PublishEvent(ev), conn = "down" PROVE inbox' = inbox
  BY <1>1 DEF PublishEvent, Room, Full
<1>2. CASE ScanStart
  <2>1. round'.pc = "open" /\ UNCHANGED conn BY <1>0, <1>2 DEF ScanStart, Round
  <2>2. conn = "down" => inbox' = inbox BY <1>1, <1>2 DEF ScanStart
  <2> QED BY <2>1, <2>2 DEF QuietAfterEnd, Between
<1>3. CASE OpenRound
  <2>1. (round'.pc = "run" /\ UNCHANGED ender) \/ ender' = "ended"
    BY <1>0, <1>3 DEF OpenRound, Finish, RoundGoes, Round
  <2> QED BY <1>3, <2>1 DEF OpenRound, QuietAfterEnd, Between
<1>4. ASSUME NEW b \in Block, OnBlock(b) PROVE Quiet'
  <2>1. round'.pc = "run" BY <1>0, <1>4 DEF OnBlock, RoundAt, Round
  <2> QED BY <1>4, <2>1 DEF OnBlock, QuietAfterEnd, Between
<1>5. CASE OnLive BY <1>5 DEF OnLive, RoundAt, QuietAfterEnd, Between
<1>6. CASE EndRound BY <1>6 DEF EndRound, Finish, QuietAfterEnd, Between
<1>7. CASE DropPending BY <1>7 DEF DropPending, Dropped, QuietAfterEnd, Between
<1>8. CASE ScanEnd
  <2>1. UNCHANGED <<round, pend, conn>> /\ ender = "dropped" /\ ender' = "none" BY <1>8 DEF ScanEnd
  <2>2. conn = "down" => inbox' = <<>> BY <1>1, <1>8 DEF ScanEnd
  <2>3. ASSUME round.pc = "idle" PROVE stale' \/ Closed(inbox')
    <3>1. CASE conn = "down" BY <2>2, <3>1, ClosedEmpty
    <3>2. CASE conn # "down"
      <4>1. conn = "up" BY <3>2 DEF TypeInv, TypeOK
      <4>2. stale' = (inbox' = inbox) BY <1>8, <2>3, <4>1 DEF ScanEnd
      <4>3. inbox' \in {inbox, Append(inbox, [ev |-> "end"]), Append(inbox, [ev |-> "resync"])}
        BY <1>8 DEF ScanEnd, PublishEvent
      <4> QED BY <1>0, <4>2, <4>3, ClosedByEvent
    <3> QED BY <3>1, <3>2
  <2> QED BY <2>1, <2>2, <2>3 DEF QuietAfterEnd, Between
<1> QED BY <1>2, <1>3, <1>4, <1>5, <1>6, <1>7, <1>8 DEF RoundStep

LEMMA QuietNext ==
  ASSUME QuietInv, [Next]_vars
  PROVE  QuietInv'
<1> SUFFICES Quiet' BY TypesNext DEF QuietInv
<1> USE DEF QuietInv, Quiet
<1>1. inbox \in Seq(Progress \cup Event) /\ round \in Round BY DEF TypeInv, TypeOK
<1>2. CASE RoundStep BY <1>2, QuietRound
<1>3. CASE Drain
  <2>1. pend.has /\ ~NoPending.has BY <1>3 DEF Drain, NoPending
  <2>2. UNCHANGED <<ender, conn, inbox>> /\ round'.pc = round.pc BY <1>1, <1>3 DEF Drain, Round
  <2> QED BY <2>1, <2>2 DEF QuietAfterEnd, Between
<1>4. CASE SendFrame
  <2>1. UNCHANGED <<round, ender, pend, conn>> /\ (Between /\ Room => stale')
    BY <1>4 DEF SendFrame, PublishProgress, Unheard
  <2>2. (~Room => UNCHANGED inbox) /\ stale' = (stale \/ (Between /\ Room))
    BY <1>4 DEF SendFrame, PublishProgress, Unheard
  <2>3. Room => conn # "down" BY DEF Room
  <2> QED BY <2>1, <2>2, <2>3 DEF QuietAfterEnd, Between
<1>5. CASE Subscribe \/ Disconnect \/ Restart
  <2>1. Closed(inbox') /\ (conn' = "down" => inbox' = <<>>)
    <3>1. Closed(<<[ev |-> "hello"]>>) BY DEF Closed
    <3> QED BY <1>5, <3>1, ClosedEmpty DEF Subscribe, Disconnect, Restart
  <2>2. UNCHANGED <<round, ender, pend>> \/ pend' = NoPending
    BY <1>5 DEF Subscribe, Disconnect, Restart, server
  <2> QED BY <2>1, <2>2 DEF QuietAfterEnd, Between
<1>6. CASE PageStep \/ Answer
  <2>1. UNCHANGED <<server, conn, stale>>
    BY <1>6 DEF PageStep, Open, OnHello, OnState, OnResync, OnProgress, ListReturns, DetailReturns,
      ProfilesReturn, LoadReturns, Answer, DetailAnswered, LoadAnswered, history
  <2>2. inbox' = inbox \/ (inbox # <<>> /\ inbox' = Tail(inbox))
    BY <1>6 DEF PageStep, Open, OnHello, OnState, OnResync, OnProgress, ListReturns, DetailReturns,
      ProfilesReturn, LoadReturns, Arrives, Answer, DetailAnswered, LoadAnswered
  <2>3. Closed(inbox) => Closed(inbox') BY <1>1, <2>2, ClosedTail
  <2>4. conn = "down" => inbox' = <<>> BY <2>2
  <2> QED BY <2>1, <2>3, <2>4 DEF server, QuietAfterEnd, Between
<1>7. CASE UNCHANGED vars
  BY <1>7 DEF vars, server, history, QuietAfterEnd, Between, Closed
<1> QED BY <1>2, <1>3, <1>4, <1>5, <1>6, <1>7 DEF Next, Publisher

LEMMA QuietInit == Init => QuietInv
BY TypesInit, ClosedEmpty DEF Init, QuietInv, Quiet, QuietAfterEnd

\* Once a round has said that it is over no frame of it is queued, and each that is
\* on its way to a page is followed by an event that has the page ask again, but for
\* the frame the publisher had in its hand and for a SCAN_END that was lost with its
\* resync (server.go:83-88, sse.go:121-124); for any disk, channel and bounds.
THEOREM FramesEndWithTheRound == Spec => []QuietAfterEnd
<1>1. QuietInv => QuietAfterEnd BY DEF QuietInv, Quiet
<1> QED BY <1>1, QuietInit, QuietNext, PTL DEF Spec

-----------------------------------------------------------------------------
(* Sequences, position by position.                                        *)

All == Progress \cup Event

LEMMA AppendIs ==
  ASSUME NEW S, NEW q \in Seq(S), NEW x \in S
  PROVE  /\ Append(q, x) \in Seq(S) /\ Len(q) \in Nat /\ Len(Append(q, x)) = Len(q) + 1
         /\ \A i \in 1 .. Len(q) : Append(q, x)[i] = q[i]
         /\ Append(q, x)[Len(q) + 1] = x
OBVIOUS

LEMMA TailIs ==
  ASSUME NEW S, NEW q \in Seq(S), q # <<>>
  PROVE  /\ Tail(q) \in Seq(S) /\ Len(q) \in Nat \ {0} /\ Len(Tail(q)) = Len(q) - 1
         /\ \A i \in 1 .. Len(Tail(q)) : Tail(q)[i] = q[i + 1]
         /\ Head(q) = q[1] /\ q[1] \in S
OBVIOUS

LEMMA BecameIs ==
  ASSUME NEW S, NEW q \in Seq(S), q # <<>>, NEW r \in S
  PROVE  /\ Len(q) \in Nat \ {0} /\ Len(<<r>> \o Tail(q)) = Len(q)
         /\ (<<r>> \o Tail(q))[1] = r
         /\ \A i \in 2 .. Len(q) : (<<r>> \o Tail(q))[i] = q[i]
<1>1. Tail(q) \in Seq(S) /\ <<r>> \in Seq(S) /\ Len(<<r>>) = 1 /\ <<r>>[1] = r
  OBVIOUS
<1>2. Len(q) \in Nat \ {0} /\ Len(Tail(q)) = Len(q) - 1
  OBVIOUS
<1>3. \A i \in 2 .. Len(q) : Tail(q)[i - 1] = q[i]
  OBVIOUS
<1> DEFINE t == Tail(q)  u == <<r>>
<1> HIDE DEF t, u
<1>4. /\ Len(u \o t) = Len(u) + Len(t)
      /\ \A i \in 1 .. Len(u) + Len(t) : (u \o t)[i] = IF i <= Len(u) THEN u[i] ELSE t[i - Len(u)]
  BY <1>1 DEF t, u
<1> QED
  BY <1>1, <1>2, <1>3, <1>4 DEF t, u

-----------------------------------------------------------------------------
(* What a page that is not there, or a round that does not run, leaves.    *)

\* The page's copy of the map, emptied.
Blank == page.map = NoMap /\ page.queue = Nothing /\ page.frameN = 0

\* The supervisor has a map and a snapshot only of a round that reads.
Idles == round.pc # "run" => snap = 0 /\ live = NoMap

\* A page that has not opened asks for nothing and hears nothing, and one without a
\* stream has had no hello; of a page's refreshes only the first is answered; and no
\* frame waits for a map before one has been counted.
Hears ==
  /\ page.pc # "on" => conn = "down" /\ ~page.greeted
  /\ page.pc = "closed" => /\ Blank /\ page.detail = NoDetail /\ ~page.fetching
                           /\ refresh = <<>> /\ load.pc = "none"
  /\ \A i \in 2 .. Len(refresh) : refresh[i].pc # "answered"
  /\ load.pc # "none" => load.seq # 0
  /\ page.frameN = 0 => page.queue = Nothing

\* What loadLive asks for.
LEMMA LoadLiveIs ==
  ASSUME NEW l, NEW s
  PROVE  IF l.pc = "none" THEN LoadLive(l, s) = [pc |-> "asked", seq |-> s, again |-> FALSE, map |-> NoMap]
                          ELSE LoadLive(l, s) = l
BY DEF LoadLive, NoLoad

\* A frame the page hears: behind a gap it starts over, one of a round it has no
\* map of waits for the map, and any other goes into the map.
LEMMA ProgressIs ==
  ASSUME TypeInv, OnProgress, NEW f, f = Head(inbox)
  PROVE  /\ f \in Progress /\ inbox # <<>> /\ inbox' = Tail(inbox) /\ UNCHANGED <<server, refresh, conn>>
         /\ page'.frameN = f.n /\ page'.fetching = page.fetching /\ page'.greeted = page.greeted
         /\ page'.pc = page.pc
         /\ Gap(f) =>
              /\ page'.map = NoMap /\ page'.queue = Over(f.blocks, Nothing)
              /\ load'.pc = "answered" => load'.again /\ load.pc = "answered" /\ load'.map = load.map
                                             /\ load'.seq = load.seq
         /\ load'.pc # "none" => load'.seq = f.seq \/ (load.pc # "none" /\ load'.seq = load.seq)
         /\ ~Gap(f) /\ page.map.seq # f.seq =>
              /\ page'.map = page.map /\ page'.queue = Over(f.blocks, page.queue)
              /\ load'.pc = "answered" => load' = load
         /\ ~Gap(f) /\ page.map.seq = f.seq =>
              /\ page'.map = [page.map EXCEPT !.vals = Over(f.blocks, page.map.vals)]
              /\ page'.queue = page.queue /\ load' = load
<1>0. page \in Page /\ load \in Load BY DEF TypeInv, TypeOK
<1>1. f \in Progress /\ inbox # <<>> /\ inbox' = Tail(inbox) /\ UNCHANGED <<server, refresh, conn>>
  BY ArrivesType DEF OnProgress, Arrives, TypeInv
<1>2. f.seq \in Seq0 /\ f.seq # 0 /\ f.n \in 0 .. MaxFrames BY <1>1 DEF Progress
<1> DEFINE s == IF Gap(f) THEN DropLive(page) ELSE page
           p == [s EXCEPT !.detail.live = f.seq, !.frameN = f.n]
           l == IF Gap(f) THEN Reload(load) ELSE load
<1>3. IF p.map.seq # f.seq
      THEN page' = [p EXCEPT !.queue = Over(f.blocks, p.queue)] /\ load' = LoadLive(l, f.seq)
      ELSE page' = [p EXCEPT !.map.vals = Over(f.blocks, p.map.vals)] /\ load' = l
  BY DEF OnProgress
<1>4. s \in Page BY <1>0, DropLiveType
<1>5. s.greeted = page.greeted /\ s.pc = page.pc /\ s.fetching = page.fetching
  BY <1>0 DEF DropLive, Page
<1>6. Gap(f) => s.map = NoMap /\ s.queue = Nothing BY <1>0 DEF DropLive, Page
<1>7. ~Gap(f) => s = page /\ l = load OBVIOUS
<1>8. Gap(f) => l.pc = load.pc /\ l.map = load.map /\ l.seq = load.seq /\ (l.pc # "none" => l.again)
  BY <1>0 DEF Reload, Load
<1> HIDE DEF s, l
<1>9. /\ p \in Page /\ p.frameN = f.n /\ p.map = s.map /\ p.queue = s.queue
      /\ p.greeted = s.greeted /\ p.pc = s.pc /\ p.fetching = s.fetching
  BY <1>2, <1>4 DEF Page, Detail
<1> HIDE DEF p
<1>10. /\ page'.frameN = f.n /\ page'.fetching = p.fetching /\ page'.greeted = p.greeted /\ page'.pc = p.pc
       /\ p.map.seq # f.seq => page'.map = p.map /\ page'.queue = Over(f.blocks, p.queue)
       /\ p.map.seq = f.seq => page'.map = [p.map EXCEPT !.vals = Over(f.blocks, p.map.vals)] /\ page'.queue = p.queue
  BY <1>3, <1>9 DEF Page
<1>11. p.map.seq # f.seq /\ load'.pc = "answered" => load' = l
  BY <1>3, LoadLiveIs
<1>12. ASSUME Gap(f)
       PROVE  /\ page'.map = NoMap /\ page'.queue = Over(f.blocks, Nothing)
              /\ load'.pc = "answered" => load'.again /\ load.pc = "answered" /\ load'.map = load.map
                                              /\ load'.seq = load.seq
  <2>1. p.map.seq # f.seq BY <1>2, <1>6, <1>9, <1>12 DEF NoMap
  <2> QED BY <1>6, <1>8, <1>9, <1>10, <1>11, <1>12, <2>1
<1>13. load'.pc # "none" => load'.seq = f.seq \/ (load.pc # "none" /\ load'.seq = load.seq)
  <2>1. load' = l \/ load' = LoadLive(l, f.seq) BY <1>3
  <2>2. l.pc = load.pc /\ l.seq = load.seq BY <1>7, <1>8
  <2>3. load' = l \/ load'.seq = f.seq BY <2>1, LoadLiveIs
  <2> QED BY <2>2, <2>3
<1> QED BY <1>13, <1>1, <1>3, <1>5, <1>7, <1>9, <1>10, <1>11, <1>12

LEMMA IdlesNext ==
  ASSUME TypeInv, Idles, [Next]_vars
  PROVE  Idles'
<1>0. round \in Round BY DEF TypeInv, TypeOK
<1>1. CASE UNCHANGED <<round, snap, live>> BY <1>1 DEF Idles
<1>2. CASE ScanStart \/ OpenRound \/ EndRound \/ Restart
  BY <1>0, <1>2 DEF ScanStart, OpenRound, EndRound, Restart, Finish, RoundAt, RoundGoes, Round, Idles
<1>3. ASSUME NEW b \in Block, OnBlock(b) PROVE Idles'
  BY <1>0, <1>3 DEF OnBlock, RoundAt, Round, Idles
<1>4. CASE OnLive BY <1>4 DEF OnLive, RoundAt, Idles
<1>5. CASE Drain BY <1>0, <1>5 DEF Drain, Round, Idles
<1>6. DropPending \/ ScanEnd \/ SendFrame \/ Subscribe \/ Disconnect \/ PageStep \/ Answer \/ UNCHANGED vars
        => UNCHANGED <<round, snap, live>>
  BY DEF DropPending, ScanEnd, SendFrame, Subscribe, Disconnect, PageStep, Open, OnHello, OnState, OnResync,
    OnProgress, ListReturns, DetailReturns, ProfilesReturn, LoadReturns, Answer, DetailAnswered, LoadAnswered,
    server, vars
<1> QED BY <1>1, <1>2, <1>3, <1>4, <1>5, <1>6 DEF Next, RoundStep, Publisher

LEMMA HearsNext ==
  ASSUME QuietInv, Hears, [Next]_vars
  PROVE  Hears'
<1> USE DEF QuietInv
<1>0. /\ inbox \in Seq(All) /\ refresh \in Seq(Refresh) /\ page \in Page /\ load \in Load
      /\ page' \in Page /\ load' \in Load /\ inbox' \in Seq(All) /\ refresh' \in Seq(Refresh)
  BY TypesNext DEF TypeInv, TypeOK, All
<1> DEFINE First == \A i \in 2 .. Len(refresh) : refresh[i].pc # "answered"
<1>1. ASSUME UNCHANGED client, conn' = conn \/ conn' = "down" PROVE Hears'
  BY <1>1 DEF Hears, client, Blank
<1>2. CASE RoundStep \/ Publisher \/ Disconnect \/ Restart \/ UNCHANGED vars
  <2>1. UNCHANGED client /\ (conn' = conn \/ conn' = "down")
    BY <1>2 DEF RoundStep, ScanStart, OpenRound, OnBlock, OnLive, EndRound, DropPending, ScanEnd,
      Publisher, Drain, SendFrame, Disconnect, Restart, vars
  <2> QED BY <1>1, <2>1
<1>4. CASE Subscribe
  <2>1. page.pc \in {"on", "boot"} /\ page' = [page EXCEPT !.pc = "on"] /\ UNCHANGED <<refresh, load>>
    BY <1>4 DEF Subscribe
  <2>3. page'.pc = "on" /\ page'.frameN = page.frameN /\ page'.queue = page.queue BY <1>0, <2>1 DEF Page
  <2> QED BY <2>1, <2>3 DEF Hears
<1>7. CASE PageStep
  <2>0. UNCHANGED conn
    BY <1>7 DEF PageStep, Open, OnHello, OnState, OnResync, OnProgress, ListReturns, DetailReturns,
      ProfilesReturn, LoadReturns
  <2>3. ASSUME NEW ev, Arrives(ev) PROVE page.pc = "on"
    BY <2>3 DEF Arrives, Hears, Quiet
  <2>4. ASSUME NEW r \in Refresh, r.pc # "answered", refresh' = Append(refresh, r)
        PROVE  First'
    <3>1. /\ Len(refresh) \in Nat /\ Len(refresh') = Len(refresh) + 1
          /\ \A i \in 1 .. Len(refresh) : refresh'[i] = refresh[i]
          /\ refresh'[Len(refresh) + 1] = r
      BY <1>0, <2>4, AppendIs
    <3> QED BY <2>4, <3>1 DEF Hears
  <2>5. CASE Open
    <3>1. refresh' = <<Asking(TRUE)>> /\ First' BY <2>5 DEF Open
    <3>2. page.pc = "closed" /\ page' = [page EXCEPT !.pc = "boot"] /\ UNCHANGED <<load, conn>>
      BY <2>5 DEF Open
    <3>3. /\ page'.pc = "boot" /\ page'.greeted = page.greeted
         /\ page'.frameN = page.frameN /\ page'.queue = page.queue
      BY <1>0, <3>2 DEF Page
    <3> QED BY <2>0, <3>1, <3>2, <3>3 DEF Hears
  <2>6. CASE OnHello
    <3>1. page' = [page EXCEPT !.greeted = TRUE] /\ UNCHANGED load BY <2>6 DEF OnHello
    <3>2. page'.pc = page.pc /\ page'.frameN = page.frameN /\ page'.queue = page.queue
      BY <1>0, <3>1 DEF Page
    <3>3. page.pc = "on" BY <2>3, <2>6 DEF OnHello
    <3>4. First'
      <4>1. CASE refresh' = refresh BY <4>1 DEF Hears
      <4>2. CASE refresh' = Append(refresh, Asking(TRUE))
        <5>1. Asking(TRUE) \in Refresh /\ Asking(TRUE).pc # "answered" BY AskingType DEF Asking
        <5> QED BY <2>4, <4>2, <5>1
      <4> QED BY <2>6, <4>1, <4>2 DEF OnHello, HelloRefresh
    <3> QED BY <3>1, <3>2, <3>3, <3>4 DEF Hears
  <2>7. CASE OnState
    <3>1. UNCHANGED <<page, load>> BY <2>7 DEF OnState
    <3>2. First'
      <4>1. \E r \in Refresh : r.pc # "answered" /\ refresh' = Append(refresh, r)
        BY <2>7, AskingType DEF OnState, Asking, AskingAtEnd
      <4> QED BY <2>4, <4>1
    <3>3. page.pc = "on" BY <2>3, <2>7 DEF OnState
    <3> QED BY <3>1, <3>2, <3>3 DEF Hears
  <2>8. CASE OnResync
    <3>1. UNCHANGED <<page, load>> BY <2>8 DEF OnResync
    <3>2. First'
      <4>1. \E r \in Refresh : r.pc # "answered" /\ refresh' = Append(refresh, r)
        BY <2>8, AskingType DEF OnResync, Asking
      <4> QED BY <2>4, <4>1
    <3>3. page.pc = "on" BY <2>3, <2>8 DEF OnResync
    <3> QED BY <3>1, <3>2, <3>3 DEF Hears
  <2>9. CASE OnProgress
    <3> DEFINE f == Head(inbox)
    <3>1. /\ f \in Progress /\ page'.frameN = f.n /\ page'.pc = page.pc /\ UNCHANGED refresh
          /\ load'.pc # "none" => load'.seq = f.seq \/ (load.pc # "none" /\ load'.seq = load.seq)
      BY <2>9, ProgressIs
    <3>2. f.seq # 0 /\ f.n # 0 BY <3>1 DEF Progress
    <3> HIDE DEF f
    <3>3. page.pc = "on" BY <2>3, <2>9 DEF OnProgress
    <3> QED BY <3>1, <3>2, <3>3 DEF Hears
  <2>10. ASSUME refresh # <<>>, NEW r \in Refresh, Became(r) PROVE First' /\ page.pc # "closed"
    BY <1>0, <2>10, BecameIs DEF Became, Hears
  <2>11. CASE ListReturns
    <3>1. refresh # <<>> /\ Head(refresh) \in Refresh BY <1>0, <2>11 DEF ListReturns, RefreshAt
    <3>2. [Head(refresh) EXCEPT !.pc = "detail"] \in Refresh BY <3>1 DEF Refresh
    <3>3. First' /\ page.pc # "closed" BY <2>10, <2>11, <3>1, <3>2 DEF ListReturns
    <3>4. page'.pc = page.pc /\ page'.greeted = page.greeted /\ page'.queue = Nothing
      BY <1>0, <2>11 DEF ListReturns, DropLive, Page
    <3> QED BY <2>0, <2>11, <3>3, <3>4 DEF ListReturns, Hears
  <2>12. CASE DetailReturns
    <3>1. refresh # <<>> /\ Head(refresh) \in Refresh /\ refresh' = Tail(refresh)
      BY <1>0, <2>12 DEF DetailReturns, RefreshAt
    <3>2. First' /\ page.pc # "closed" BY <1>0, <3>1, TailIs DEF Hears
    <3> DEFINE p == [page EXCEPT !.detail = Head(refresh).detail]
    <3>3. /\ p \in Page /\ p.pc = page.pc /\ p.greeted = page.greeted
          /\ p.frameN = page.frameN /\ p.queue = page.queue
      BY <1>0, <3>1 DEF Page, Refresh
    <3>4. page' = p \/ page' = [DropLive(p) EXCEPT !.profile = FALSE, !.fetching = TRUE]
      BY <2>12 DEF DetailReturns
    <3> HIDE DEF p
    <3>5. /\ page'.pc = page.pc /\ page'.greeted = page.greeted
          /\ (page'.frameN = page.frameN /\ page'.queue = page.queue) \/ page'.queue = Nothing
      BY <3>3, <3>4 DEF DropLive, Page
    <3> QED BY <2>0, <2>12, <3>2, <3>5 DEF DetailReturns, Hears
  <2>13. CASE ProfilesReturn
    <3>1. page.fetching /\ UNCHANGED refresh /\ page.pc # "closed" BY <2>13 DEF ProfilesReturn, Hears
    <3>2. /\ page'.pc = page.pc /\ page'.greeted = page.greeted
          /\ page'.frameN = page.frameN /\ page'.queue = page.queue
      BY <1>0, <2>13 DEF ProfilesReturn, Page
    <3>3. load'.pc # "none" => load'.seq # 0
      <4> DEFINE n == page.detail.live
      <4>1. (n # 0 /\ load' = LoadLive(load, n)) \/ load' = load BY <2>13 DEF ProfilesReturn
      <4> HIDE DEF n
      <4> QED BY <4>1 DEF LoadLive, NoLoad, Hears
    <3> QED BY <2>0, <3>1, <3>2, <3>3 DEF Hears
  <2>14. CASE LoadReturns
    <3>1. load.pc = "answered" /\ UNCHANGED refresh /\ page.pc # "closed" BY <2>14 DEF LoadReturns, Hears
    <3>2. /\ page'.pc = page.pc /\ page'.greeted = page.greeted /\ page'.frameN = page.frameN
          /\ page'.queue = page.queue \/ page'.queue = Nothing
      BY <1>0, <2>14 DEF LoadReturns, Page
    <3>3. load'.pc # "none" => load'.seq # 0
      BY <2>14, <3>1, LoadLiveIs DEF LoadReturns, NoLoad, Hears
    <3> QED BY <2>0, <3>1, <3>2, <3>3 DEF Hears
  <2> QED BY <1>7, <2>5, <2>6, <2>7, <2>8, <2>9, <2>11, <2>12, <2>13, <2>14 DEF PageStep
<1>8. CASE DetailAnswered
  <2>1. refresh # <<>> /\ Head(refresh) \in Refresh BY <1>0, <1>8 DEF DetailAnswered, RefreshAt
  <2>2. [scanning |-> Scanning, live |-> snap] \in Detail BY DEF Detail, Scanning, TypeInv, TypeOK
  <2> DEFINE r == [Head(refresh) EXCEPT !.pc = "answered", !.detail = [scanning |-> Scanning, live |-> snap]]
  <2>3. r \in Refresh BY <2>1, <2>2 DEF Refresh
  <2>4. Became(r) BY <1>8 DEF DetailAnswered
  <2> HIDE DEF r
  <2>5. First' /\ page.pc # "closed" BY <1>0, <2>1, <2>3, <2>4, BecameIs DEF Became, Hears
  <2> QED BY <1>8, <2>5 DEF DetailAnswered, Hears
<1>9. CASE LoadAnswered
  BY <1>0, <1>9 DEF LoadAnswered, Hears, Load, Blank
<1> QED BY <1>2, <1>4, <1>7, <1>8, <1>9 DEF Next, Answer

-----------------------------------------------------------------------------
(* A page between rounds.                                                  *)

\* What has a page ask for the detail again, and drop the map it shows; its first
\* hello has not.
Asks(e, greeted) == e.ev \in {"end", "resync"} \/ (greeted /\ e.ev = "hello")
Coming(q, greeted) == \E i \in 1 .. Len(q) : Asks(q[i], greeted)

\* A refresh that is not answered, or whose answer tells of no round.
Tells(r) == r.pc = "answered" => r.detail = NoDetail

\* The page will ask, or has asked and will be told.
Told(q) == \E i \in 1 .. Len(q) : q[i].hard /\ Tells(q[i])
Expects ==
  \/ page.greeted /\ conn = "down"
  \/ Coming(inbox, page.greeted)
  \/ Told(refresh)

\* The page shows no round that is over, and nothing under way will have it do so.
Clears ==
  /\ Blank /\ page.detail = NoDetail
  /\ \A i \in 1 .. Len(refresh) : Tells(refresh[i])

Corrected == Between /\ ~stale => Expects \/ Clears

LEMMA ComingAppend ==
  ASSUME NEW q \in Seq(All), NEW e \in All, NEW greeted
  PROVE  /\ Coming(q, greeted) => Coming(Append(q, e), greeted)
         /\ Asks(e, greeted) => Coming(Append(q, e), greeted)
<1> DEFINE r == Append(q, e)
<1>1. Len(q) \in Nat /\ Len(r) = Len(q) + 1 /\ r[Len(q) + 1] = e
      /\ \A i \in 1 .. Len(q) : r[i] = q[i]
  OBVIOUS
<1> HIDE DEF r
<1>2. ASSUME Coming(q, greeted) PROVE Coming(r, greeted)
  <2>1. PICK i \in 1 .. Len(q) : Asks(q[i], greeted) BY <1>2 DEF Coming
  <2> QED BY <1>1, <2>1 DEF Coming
<1>3. ASSUME Asks(e, greeted) PROVE Coming(r, greeted)
  <2>1. Len(q) + 1 \in 1 .. Len(r) BY <1>1
  <2> QED BY <1>1, <1>3, <2>1 DEF Coming
<1> QED BY <1>2, <1>3 DEF r

\* Only an event that has the page ask takes one with it.
LEMMA ComingTail ==
  ASSUME NEW q \in Seq(All), q # <<>>, NEW greeted, Coming(q, greeted), ~Asks(Head(q), greeted)
  PROVE  Coming(Tail(q), greeted)
<1> DEFINE r == Tail(q)
<1>1. /\ Len(q) \in Nat /\ Len(r) = Len(q) - 1 /\ Head(q) = q[1]
      /\ \A i \in 1 .. Len(r) : r[i] = q[i + 1]
  OBVIOUS
<1> HIDE DEF r
<1>2. PICK i \in 1 .. Len(q) : Asks(q[i], greeted) BY DEF Coming
<1>3. i # 1 BY <1>1, <1>2
<1>4. i - 1 \in 1 .. Len(r) /\ (i - 1) + 1 = i BY <1>1, <1>2, <1>3
<1>5. r[i - 1] = q[i] BY <1>1, <1>4
<1> QED BY <1>2, <1>4, <1>5 DEF Coming, r

\* A frame that has not the last word has an event behind it.
LEMMA ClosedComes ==
  ASSUME NEW q \in Seq(All), q # <<>>, Closed(q), Head(q).ev = "progress", NEW greeted
  PROVE  Coming(Tail(q), greeted)
<1> DEFINE r == Tail(q)
<1>1. /\ Len(q) \in Nat \ {0} /\ Len(r) = Len(q) - 1 /\ Head(q) = q[1]
      /\ \A i \in 1 .. Len(r) : r[i] = q[i + 1]
  OBVIOUS
<1> HIDE DEF r
<1>2. PICK i \in 2 .. Len(q) : q[i].ev \in {"end", "resync"} BY <1>1 DEF Closed
<1>4. i - 1 \in 1 .. Len(r) /\ (i - 1) + 1 = i BY <1>1, <1>2
<1>5. r[i - 1] = q[i] BY <1>1, <1>4
<1> QED BY <1>2, <1>4, <1>5 DEF Coming, Asks, r

LEMMA ToldAppend ==
  ASSUME NEW q \in Seq(Refresh), NEW r \in Refresh
  PROVE  /\ Told(q) => Told(Append(q, r))
         /\ r.hard /\ r.pc # "answered" => Told(Append(q, r))
         /\ r.pc # "answered" /\ (\A i \in 1 .. Len(q) : Tells(q[i]))
              => \A i \in 1 .. Len(Append(q, r)) : Tells(Append(q, r)[i])
<1> DEFINE a == Append(q, r)
<1>1. Len(q) \in Nat /\ Len(a) = Len(q) + 1 /\ a[Len(q) + 1] = r
      /\ \A i \in 1 .. Len(q) : a[i] = q[i]
  BY AppendIs
<1> HIDE DEF a
<1>2. ASSUME Told(q) PROVE Told(a)
  <2>1. PICK i \in 1 .. Len(q) : q[i].hard /\ Tells(q[i]) BY <1>2 DEF Told
  <2>2. i \in 1 .. Len(a) /\ a[i] = q[i] BY <1>1, <2>1
  <2> QED BY <2>1, <2>2 DEF Told
<1>3. ASSUME r.hard, r.pc # "answered" PROVE Told(a)
  <2>1. Len(q) + 1 \in 1 .. Len(a) BY <1>1
  <2> QED BY <1>1, <1>3, <2>1 DEF Told, Tells
<1>4. ASSUME r.pc # "answered", \A i \in 1 .. Len(q) : Tells(q[i]), NEW i \in 1 .. Len(a)
      PROVE  Tells(a[i])
  <2>1. CASE i = Len(q) + 1 BY <1>1, <1>4, <2>1 DEF Tells
  <2>2. CASE i # Len(q) + 1
    <3>1. i \in 1 .. Len(q) BY <1>1, <2>2
    <3> QED BY <1>1, <1>4, <3>1
  <2> QED BY <2>1, <2>2
<1> QED BY <1>2, <1>3, <1>4 DEF a

\* Putting another refresh of its kind in the place of the first.
LEMMA ToldBecame ==
  ASSUME NEW q \in Seq(Refresh), q # <<>>, NEW r \in Refresh, r.hard = Head(q).hard, Tells(r)
  PROVE  /\ Told(q) => Told(<<r>> \o Tail(q))
         /\ (\A i \in 1 .. Len(q) : Tells(q[i]))
              => \A i \in 1 .. Len(<<r>> \o Tail(q)) : Tells((<<r>> \o Tail(q))[i])
<1> DEFINE a == <<r>> \o Tail(q)
<1>1. /\ Len(q) \in Nat \ {0} /\ Len(a) = Len(q) /\ a[1] = r /\ \A i \in 2 .. Len(q) : a[i] = q[i]
      /\ Head(q) = q[1]
  BY BecameIs, TailIs
<1> HIDE DEF a
<1>2. ASSUME Told(q) PROVE Told(a)
  <2>1. PICK i \in 1 .. Len(q) : q[i].hard /\ Tells(q[i]) BY <1>2 DEF Told
  <2>2. a[i].hard /\ Tells(a[i]) /\ i \in 1 .. Len(a)
    <3>1. CASE i = 1 BY <1>1, <2>1, <3>1
    <3>2. CASE i # 1
      <4>1. i \in 2 .. Len(q) BY <1>1, <3>2
      <4> QED BY <1>1, <2>1, <4>1
    <3> QED BY <3>1, <3>2
  <2> QED BY <2>2 DEF Told
<1>3. ASSUME \A i \in 1 .. Len(q) : Tells(q[i]), NEW i \in 1 .. Len(a) PROVE Tells(a[i])
  <2>1. CASE i = 1 BY <1>1, <2>1
  <2>2. CASE i # 1
    <3>1. i \in 2 .. Len(q) BY <1>1, <2>2
    <3> QED BY <1>1, <1>3, <3>1
  <2> QED BY <2>1, <2>2
<1> QED BY <1>2, <1>3 DEF a

LEMMA CorrectedNext ==
  ASSUME QuietInv, Idles, Hears, Corrected, [Next]_vars
  PROVE  Corrected'
<1> USE DEF QuietInv
<1>0. /\ inbox \in Seq(All) /\ refresh \in Seq(Refresh) /\ page \in Page /\ load \in Load
      /\ page' \in Page /\ load' \in Load /\ inbox' \in Seq(All) /\ refresh' \in Seq(Refresh)
      /\ round \in Round /\ conn \in {"up", "down"}
  BY TypesNext DEF TypeInv, TypeOK, All
<1>a. (conn = "down" => inbox = <<>>) /\ Hears' BY HearsNext DEF Quiet
<1> SUFFICES ASSUME Between', ~stale' PROVE (Expects \/ Clears)'
  BY DEF Corrected
<1>b. round'.pc = "idle" /\ ender' = "none" BY DEF Between
<1>c. ASSUME UNCHANGED client, ~Deaf, conn' = "down" PROVE (Expects \/ Clears)'
  <2>1. CASE page.greeted BY <1>c, <2>1 DEF client, Expects
  <2>2. CASE page.pc = "closed" BY <1>c, <2>2 DEF client, Hears, Clears, Blank
  <2> QED BY <1>c, <2>1, <2>2 DEF Deaf
<1>d. ASSUME Between, ~stale, UNCHANGED <<client, conn, inbox>> PROVE (Expects \/ Clears)'
  BY <1>d DEF Corrected, client, Expects, Clears, Blank
<1>e. ASSUME Between, ~stale, page' = [page EXCEPT !.pc = "on"], UNCHANGED <<refresh, load>>,
             Coming(inbox, page.greeted) => Coming(inbox', page'.greeted), ~page.greeted
      PROVE  (Expects \/ Clears)'
  <2>1. /\ page'.greeted = page.greeted /\ page'.map = page.map /\ page'.queue = page.queue
        /\ page'.frameN = page.frameN /\ page'.detail = page.detail
    BY <1>0, <1>e DEF Page
  <2> QED BY <1>e, <2>1 DEF Corrected, Expects, Clears, Blank
<1>1. CASE RoundStep
  <2>1. CASE ScanStart BY <1>0, <1>b, <2>1 DEF ScanStart, Round
  <2>2. CASE OpenRound BY <1>0, <1>b, <2>2 DEF OpenRound, Finish, RoundGoes, Round
  <2>3. ASSUME NEW b \in Block, OnBlock(b) PROVE (Expects \/ Clears)'
    BY <1>0, <1>b, <2>3 DEF OnBlock, RoundAt, Round
  <2>4. CASE OnLive \/ EndRound \/ DropPending
    BY <1>b, <2>4 DEF OnLive, EndRound, DropPending, RoundAt, Finish
  <2>5. CASE ScanEnd
    <3>1. /\ UNCHANGED <<client, conn>> /\ round.pc = "idle" /\ PublishEvent("end")
          /\ (conn = "up" => inbox' # inbox) /\ (conn # "up" => ~Deaf)
      BY <1>b, <2>5 DEF ScanEnd
    <3>2. CASE conn = "down" BY <1>c, <3>1, <3>2
    <3>3. CASE conn = "up"
      <4>1. \E e \in {[ev |-> "end"], [ev |-> "resync"]} : inbox' = Append(inbox, e)
        BY <3>1, <3>3 DEF PublishEvent
      <4>2. \A e \in {[ev |-> "end"], [ev |-> "resync"]} : e \in All /\ Asks(e, page'.greeted)
        BY DEF Event, All, Asks
      <4> QED BY <1>0, <4>1, <4>2, ComingAppend DEF Expects
    <3> QED BY <1>0, <3>2, <3>3
  <2> QED BY <1>1, <2>1, <2>2, <2>3, <2>4, <2>5 DEF RoundStep
<1>2. CASE Publisher
  <2>1. CASE Drain
    <3>1. round.pc = "idle" /\ ender = "none" /\ pend.has
      BY <1>0, <1>b, <2>1 DEF Drain, Round
    <3> QED BY <3>1 DEF Quiet, QuietAfterEnd, Between, NoPending
  <2>2. CASE SendFrame
    <3>1. Between BY <2>2 DEF SendFrame, Between
    <3>2. ~stale /\ ~Room BY <2>2, <3>1 DEF SendFrame, PublishProgress, Unheard
    <3>3. UNCHANGED <<client, conn, inbox>> BY <2>2, <3>2 DEF SendFrame, PublishProgress
    <3> QED BY <1>d, <3>1, <3>2, <3>3
  <2> QED BY <1>2, <2>1, <2>2 DEF Publisher
<1>3. CASE Subscribe \/ Disconnect \/ Restart
  <2>1. CASE Restart BY <1>c, <2>1 DEF Restart
  <2>2. CASE Subscribe
    <3>1. /\ page' = [page EXCEPT !.pc = "on"] /\ UNCHANGED <<round, ender, refresh, load>>
          /\ inbox' = <<[ev |-> "hello"]>> /\ inbox = <<>> /\ page.pc # "closed"
          /\ stale' = (stale /\ Deaf)
      BY <1>a, <2>2 DEF Subscribe, server
    <3>2. CASE page.greeted
      <4>1. page'.greeted BY <1>0, <3>1, <3>2 DEF Page
      <4>2. Len(inbox') = 1 /\ inbox'[1].ev = "hello" BY <3>1
      <4>3. Coming(inbox', page'.greeted) BY <4>1, <4>2 DEF Coming, Asks
      <4> QED BY <4>3 DEF Expects
    <3>3. CASE ~page.greeted
      <4>1. Between /\ ~stale BY <3>1, <3>3 DEF Between, Deaf
      <4>2. ~Coming(inbox, page.greeted) BY <3>1 DEF Coming
      <4> QED BY <1>e, <3>1, <3>3, <4>1, <4>2
    <3> QED BY <3>2, <3>3
  <2>3. CASE Disconnect
    <3>1. conn = "up" /\ conn' = "down" /\ UNCHANGED <<client, round, ender>> /\ Unheard(Deaf /\ Missing)
      BY <2>3 DEF Disconnect, server
    <3>2. CASE page.greeted BY <3>1, <3>2 DEF client, Expects
    <3>3. CASE ~page.greeted
      <4>1. Between /\ ~stale /\ ~(Deaf /\ Missing) BY <3>1 DEF Between, Unheard
      <4>2. ~Missing BY <3>1, <3>3, <4>1 DEF Deaf, Hears
      <4>3. ~Coming(inbox, page.greeted) BY <3>3, <4>2 DEF Missing, Coming, Asks
      <4>4. Told(refresh) \/ Clears BY <3>1, <4>1, <4>3, <3>3 DEF Corrected, Expects
      <4> QED BY <3>1, <4>4 DEF client, Expects, Clears, Blank
    <3> QED BY <3>2, <3>3
  <2> QED BY <1>3, <2>1, <2>2, <2>3
<1>4. CASE PageStep
  <2>0. UNCHANGED <<server, conn, stale>>
    BY <1>4 DEF PageStep, Open, OnHello, OnState, OnResync, OnProgress, ListReturns, DetailReturns,
      ProfilesReturn, LoadReturns, history
  <2>1. Between /\ ~stale /\ (Expects \/ Clears) /\ Closed(inbox)
    BY <2>0 DEF server, Between, Corrected, Quiet, QuietAfterEnd
  <2>3. ASSUME NEW ev, Arrives(ev)
        PROVE  inbox # <<>> /\ Head(inbox).ev = ev /\ inbox' = Tail(inbox) /\ conn # "down"
    BY <1>a, <2>3 DEF Arrives
  <2>5. CASE Open
    <3>1. /\ page.pc = "closed" /\ page' = [page EXCEPT !.pc = "boot"] /\ refresh' = <<Asking(TRUE)>>
          /\ UNCHANGED load
      BY <2>5 DEF Open
    <3>2. /\ page'.map = page.map /\ page'.queue = page.queue
          /\ page'.frameN = page.frameN /\ page'.detail = page.detail
      BY <1>0, <3>1 DEF Page
    <3>3. Len(refresh') = 1 /\ refresh'[1].pc # "answered" BY <3>1 DEF Asking
    <3>4. \A i \in 1 .. Len(refresh') : Tells(refresh'[i])
      <4>1. \A i \in 1 .. 1 : i = 1 OBVIOUS
      <4> QED BY <3>3, <4>1 DEF Tells
    <3> QED BY <3>1, <3>2, <3>4 DEF Clears, Hears, Blank
  <2>6. CASE OnHello
    <3>1. page' = [page EXCEPT !.greeted = TRUE] /\ UNCHANGED load /\ refresh' = HelloRefresh
      BY <2>6 DEF OnHello
    <3>2. /\ page'.greeted /\ page'.map = page.map /\ page'.queue = page.queue
          /\ page'.frameN = page.frameN /\ page'.detail = page.detail
      BY <1>0, <3>1 DEF Page
    <3>3. CASE page.greeted
      <4>1. refresh' = Append(refresh, Asking(TRUE)) BY <3>1, <3>3 DEF HelloRefresh
      <4>2. Told(refresh') BY <1>0, <4>1, AskingType, ToldAppend DEF Asking
      <4> QED BY <3>2, <4>2 DEF Expects
    <3>4. CASE ~page.greeted
      <4>1. UNCHANGED refresh BY <3>1, <3>4 DEF HelloRefresh
      <4>2. Coming(inbox, page.greeted) => Coming(inbox', page'.greeted)
        <5>1. inbox # <<>> /\ inbox' = Tail(inbox) /\ ~Asks(Head(inbox), page.greeted)
          BY <2>3, <2>6, <3>4 DEF OnHello, Asks
        <5>2. Coming(inbox, page.greeted) => Coming(inbox', page.greeted) BY <1>0, <5>1, ComingTail
        <5>3. \A e : Asks(e, page.greeted) => Asks(e, page'.greeted) BY <3>2 DEF Asks
        <5> QED BY <5>2, <5>3 DEF Coming
      <4> QED BY <2>1, <3>2, <3>4, <4>1, <4>2 DEF Clears, Blank, Expects
    <3> QED BY <3>3, <3>4
  <2>7. CASE Arrives("start") /\ refresh' = Append(refresh, Asking(FALSE)) /\ UNCHANGED <<page, load>>
    <3>1. Asking(FALSE) \in Refresh /\ Asking(FALSE).pc # "answered" BY AskingType DEF Asking
    <3>2. Told(refresh) => Told(refresh') BY <1>0, <2>7, <3>1, ToldAppend
    <3>3. (\A i \in 1 .. Len(refresh) : Tells(refresh[i])) => \A i \in 1 .. Len(refresh') : Tells(refresh'[i])
      BY <1>0, <2>7, <3>1, ToldAppend
    <3>4. Coming(inbox, page.greeted) => Coming(inbox', page.greeted)
      <4>1. inbox # <<>> /\ Head(inbox).ev = "start" /\ inbox' = Tail(inbox) BY <2>3, <2>7
      <4>2. ~Asks(Head(inbox), page.greeted) BY <4>1 DEF Asks
      <4> QED BY <1>0, <4>1, <4>2, ComingTail
    <3> QED BY <2>0, <2>1, <2>7, <3>2, <3>3, <3>4 DEF Expects, Clears, Blank
  <2>8. CASE (Arrives("end") \/ Arrives("resync")) /\ UNCHANGED page
             /\ \E r \in {Asking(TRUE), AskingAtEnd} : refresh' = Append(refresh, r)
    <3>1. \A r \in {Asking(TRUE), AskingAtEnd} : r \in Refresh /\ r.hard /\ r.pc # "answered"
      <4>1. Asking(TRUE) \in Refresh /\ Asking(TRUE).hard /\ Asking(TRUE).pc # "answered"
        BY AskingType DEF Asking
      <4>2. AskingAtEnd \in Refresh /\ AskingAtEnd.hard /\ AskingAtEnd.pc # "answered"
        BY AskingType DEF AskingAtEnd
      <4> QED BY <4>1, <4>2
    <3>2. Told(refresh')
      <4>1. PICK r \in {Asking(TRUE), AskingAtEnd} : refresh' = Append(refresh, r) BY <2>8
      <4> QED BY <1>0, <3>1, <4>1, ToldAppend
    <3> QED BY <3>2 DEF Expects
  <2>9. CASE OnProgress
    <3>1. Arrives("progress") BY <2>9 DEF OnProgress
    <3>2. \A greeted : Coming(Tail(inbox), greeted) BY <1>0, <2>1, <2>3, <3>1, ClosedComes
    <3>3. Coming(inbox', page'.greeted) BY <2>3, <3>1, <3>2
    <3> QED BY <3>3 DEF Expects
  <2>10. CASE ListReturns
    <3>1. refresh # <<>> /\ Head(refresh) \in Refresh BY <1>0, <2>10 DEF ListReturns, RefreshAt
    <3> DEFINE r == [Head(refresh) EXCEPT !.pc = "detail"]
    <3>2. r \in Refresh /\ r.hard = Head(refresh).hard /\ r.pc # "answered" BY <3>1 DEF Refresh
    <3>3. refresh' = <<r>> \o Tail(refresh) BY <2>10 DEF ListReturns, Became
    <3> HIDE DEF r
    <3>4. Told(refresh) => Told(refresh') BY <1>0, <3>1, <3>2, <3>3, ToldBecame DEF Tells
    <3>5. (\A i \in 1 .. Len(refresh) : Tells(refresh[i])) => \A i \in 1 .. Len(refresh') : Tells(refresh'[i])
      BY <1>0, <3>1, <3>2, <3>3, ToldBecame DEF Tells
    <3>6. /\ page'.greeted = page.greeted /\ page'.detail = page.detail /\ page'.map = NoMap /\ page'.queue = Nothing
          /\ page'.frameN = 0 /\ UNCHANGED <<load, inbox>>
      BY <1>0, <2>10 DEF ListReturns, DropLive, Page
    <3> QED BY <2>0, <2>1, <3>4, <3>5, <3>6 DEF Expects, Clears, Blank
  <2>11. CASE DetailReturns
    <3>1. /\ refresh # <<>> /\ Head(refresh) \in Refresh /\ Head(refresh).pc = "answered" /\ refresh' = Tail(refresh)
          /\ UNCHANGED <<load, inbox>>
      BY <1>0, <2>11 DEF DetailReturns, RefreshAt
    <3> DEFINE h == Head(refresh)
    <3>2. /\ Len(refresh) \in Nat \ {0} /\ Len(refresh') = Len(refresh) - 1
          /\ \A i \in 1 .. Len(refresh') : refresh'[i] = refresh[i + 1]
          /\ h = refresh[1]
      BY <1>0, <3>1, TailIs
    <3>3. \A i \in 1 .. Len(refresh') : refresh'[i].pc # "answered"
      <4>1. \A i \in 1 .. Len(refresh') : i + 1 \in 2 .. Len(refresh) BY <3>2
      <4> QED BY <3>2, <4>1 DEF Hears
    <3>4. /\ page'.greeted = page.greeted /\ page'.detail = h.detail
          /\ h.hard => page'.map = NoMap /\ page'.queue = Nothing /\ page'.frameN = 0
          /\ Blank => Blank'
      <4> DEFINE p == [page EXCEPT !.detail = h.detail]
      <4>1. /\ p \in Page /\ p.greeted = page.greeted /\ p.detail = h.detail
            /\ p.map = page.map /\ p.queue = page.queue /\ p.frameN = page.frameN
        BY <1>0, <3>1 DEF Page, Refresh
      <4>2. page' = IF h.hard \/ ~page.profile
                    THEN [DropLive(p) EXCEPT !.profile = FALSE, !.fetching = TRUE] ELSE p
        BY <2>11 DEF DetailReturns
      <4> HIDE DEF p, h
      <4> QED BY <4>1, <4>2 DEF DropLive, Page, Blank
    <3>5. CASE h.detail = NoDetail /\ (h.hard \/ Blank)
      BY <2>0, <3>1, <3>3, <3>4, <3>5 DEF Clears, Tells, Blank
    <3>6. CASE Clears /\ h.detail # NoDetail
      BY <3>1, <3>2, <3>6 DEF Clears, Tells
    <3>7. CASE Expects /\ (h.detail # NoDetail \/ ~h.hard)
      <4>2. CASE (page.greeted /\ conn = "down") \/ Coming(inbox, page.greeted)
        BY <2>0, <3>1, <3>4, <4>2 DEF Expects
      <4>3. CASE Told(refresh)
        <5>1. PICK i \in 1 .. Len(refresh) : refresh[i].hard /\ Tells(refresh[i]) BY <4>3 DEF Told
        <5>2. i # 1 BY <3>1, <3>2, <3>7, <5>1 DEF Tells
        <5>3. i - 1 \in 1 .. Len(refresh') /\ (i - 1) + 1 = i BY <3>2, <5>2
        <5>4. refresh'[i - 1] = refresh[i] BY <3>2, <5>3
        <5>5. Told(refresh') BY <5>1, <5>3, <5>4 DEF Told
        <5> QED BY <5>5 DEF Expects
      <4> QED BY <3>7, <4>2, <4>3 DEF Expects
    <3> QED BY <2>1, <3>5, <3>6, <3>7 DEF Clears
  <2>12. CASE ProfilesReturn
    <3>1. UNCHANGED <<refresh, inbox>> BY <2>12 DEF ProfilesReturn
    <3>2. /\ page'.greeted = page.greeted /\ page'.map = page.map /\ page'.queue = page.queue
          /\ page'.frameN = page.frameN /\ page'.detail = page.detail
      BY <1>0, <2>12 DEF ProfilesReturn, Page
    <3>3. page.detail.live = 0 => UNCHANGED load BY <2>12 DEF ProfilesReturn
    <3> QED BY <2>0, <2>1, <3>1, <3>2, <3>3 DEF Expects, Clears, Blank, NoDetail
  <2>13. CASE LoadReturns
    <3>1. UNCHANGED <<refresh, inbox>> /\ load.pc = "answered" /\ load.seq # 0
      BY <2>13 DEF LoadReturns, Hears
    <3>2. page'.greeted = page.greeted /\ page'.frameN = page.frameN /\ page'.detail = page.detail
      BY <1>0, <2>13 DEF LoadReturns, Page
    <3>3. ASSUME page.detail.live = 0, Blank PROVE Blank'
      <4>1. ~Wanted(load.map) BY <3>1, <3>3 DEF Wanted
      <4>2. page' = page \/ page' = [page EXCEPT !.queue = Nothing] BY <2>13, <4>1 DEF LoadReturns
      <4> QED BY <1>0, <3>3, <4>2 DEF Page, Blank
    <3> QED BY <2>0, <2>1, <3>1, <3>2, <3>3 DEF Expects, Clears, NoDetail
  <2>14. CASE OnState \/ OnResync
    <3>1. \/ Arrives("start") /\ refresh' = Append(refresh, Asking(FALSE)) /\ UNCHANGED <<page, load>>
          \/ (Arrives("end") \/ Arrives("resync")) /\ UNCHANGED page
             /\ \E r \in {Asking(TRUE), AskingAtEnd} : refresh' = Append(refresh, r)
      BY <2>14 DEF OnState, OnResync
    <3> QED BY <2>7, <2>8, <3>1
  <2> QED BY <1>4, <2>5, <2>6, <2>9, <2>10, <2>11, <2>12, <2>13, <2>14 DEF PageStep
<1>5. CASE DetailAnswered
  <2>1. refresh # <<>> /\ Head(refresh) \in Refresh BY <1>0, <1>5 DEF DetailAnswered, RefreshAt
  <2>2. UNCHANGED <<page, load, conn, inbox>> /\ Between /\ ~stale
    BY <1>5 DEF DetailAnswered, server, Between, history
  <2> DEFINE d == [scanning |-> Scanning, live |-> snap]
             r == [Head(refresh) EXCEPT !.pc = "answered", !.detail = d]
  <2>3. d \in Detail /\ d = NoDetail
    <3>1. snap = 0 /\ Scanning = FALSE BY <2>2 DEF Idles, Between, Scanning
    <3> QED BY <3>1, AskingType DEF NoDetail
  <2>4. refresh' = <<r>> \o Tail(refresh) BY <1>5 DEF DetailAnswered, Became
  <2> HIDE DEF d
  <2>5. r \in Refresh /\ r.hard = Head(refresh).hard /\ r.detail = d BY <2>1, <2>3 DEF Refresh
  <2> HIDE DEF r
  <2>6. Told(refresh) => Told(refresh') BY <1>0, <2>1, <2>3, <2>4, <2>5, ToldBecame DEF Tells
  <2>7. (\A i \in 1 .. Len(refresh) : Tells(refresh[i])) => \A i \in 1 .. Len(refresh') : Tells(refresh'[i])
    BY <1>0, <2>1, <2>3, <2>4, <2>5, ToldBecame DEF Tells
  <2> QED BY <2>2, <2>6, <2>7 DEF Corrected, Expects, Clears, Blank
<1>6. CASE LoadAnswered
  BY <1>6 DEF LoadAnswered, server, history, Between, Corrected, Expects, Clears, Blank
<1>7. CASE UNCHANGED vars
  BY <1>7, <1>d DEF vars, server, history, Between
<1> QED BY <1>1, <1>2, <1>3, <1>4, <1>5, <1>6, <1>7 DEF Next, Answer

CorrectedInv == QuietInv /\ Idles /\ Hears /\ Corrected

LEMMA CorrectedInit == Init => CorrectedInv
<1> SUFFICES ASSUME Init PROVE CorrectedInv OBVIOUS
<1>1. QuietInv BY QuietInit
<1>2. Idles BY DEF Init, Idles
<1>3. Hears BY DEF Init, Hears, Blank, NoLoad
<1>4. Corrected BY DEF Init, Corrected, Clears, Blank
<1> QED BY <1>1, <1>2, <1>3, <1>4 DEF CorrectedInv

LEMMA CorrectedInvNext == CorrectedInv /\ [Next]_vars => CorrectedInv'
BY QuietNext, IdlesNext, HearsNext, CorrectedNext DEF CorrectedInv, QuietInv

\* A page that has heard all there is, and waits for no answer, shows no round
\* that is over, whatever it missed while its stream was down or its channel
\* full: some event, or some refresh, is always on its way to correct it
\* (app.js:105-109, sse.go:88-91).  The three ways in which that fails, and no
\* other, set stale.
THEOREM NoRoundIsShownPastItsEnd == Spec => []ShowsTheTruth
<1>1. CorrectedInv => ShowsTheTruth
  <2> SUFFICES ASSUME CorrectedInv, Settled, Between, ~stale PROVE page.detail = NoDetail /\ page.map = NoMap
    BY DEF ShowsTheTruth
  <2>1. ~Expects BY DEF Settled, Expects, Coming, Told
  <2> QED BY <2>1 DEF CorrectedInv, Corrected, Clears, Blank
<1> QED BY <1>1, CorrectedInit, CorrectedInvNext, PTL DEF Spec

-----------------------------------------------------------------------------
(* A page in a round.  What follows takes the values of a state apart, so  *)
(* that it can be said of a state and of the next.  g[n] is what the n-th  *)
(* frame of the round carried, p the disk's slot, u what the publisher     *)
(* has in its hand, v the daemon's map and s its round, q the inbox and f  *)
(* the frame the page has counted.                                         *)

Prog(q, i) == q[i].ev = "progress"
First(q, i) == Prog(q, i) /\ \A j \in 1 .. i - 1 : ~Prog(q, j)
NoProg(q) == \A i \in 1 .. Len(q) : ~Prog(q, i)

\* Block b has not been written since frame m was drained.
Still(g, p, m, b) == p.blocks[b] = 0 /\ \A k \in m + 1 .. p.n : g[k][b] = 0

\* A frame of round s, as it was drained.
Ours(g, n, s, x) == x.n \in 1 .. n /\ x.blocks = g[x.n] /\ x.seq = s

\* The newest word of a block, in the slot or in a frame, is the daemon's.
Sends(g, p, u, v) ==
  /\ p.has => p.seq = v.seq
  /\ u # NoFrame => u.n = p.n /\ Ours(g, p.n, v.seq, u)
  /\ \A b \in Block : p.blocks[b] # 0 => p.blocks[b] = v.vals[b]
  /\ \A b \in Block : \A k \in 1 .. p.n : g[k][b] # 0 /\ Still(g, p, k, b) => g[k][b] = v.vals[b]

\* A frame in the queue is the round's.
Queues(g, n, s, q) == \A i \in 1 .. Len(q) : Prog(q, i) => Ours(g, n, s, q[i])

\* The page is as far as frame m: the one it has counted or, if it counts from
\* the next one, the one before that.
Place(q, u, p, f, m) ==
  /\ m \in 0 .. p.n
  /\ f # 0 => m = f
  /\ f = 0 => /\ \A i \in 1 .. Len(q) : First(q, i) => q[i].n = m + 1
              /\ NoProg(q) => IF u # NoFrame THEN u.n = m + 1 ELSE m = p.n

\* The answer l has come back with is a map of the round it was asked about.
Holds(l) == l.pc = "answered" /\ l.map.seq = l.seq

\* What the page pg has in its map, or in its queue and in what it loads with l,
\* is the daemon's word on every block that frame m was the last to touch.
Caught(g, p, v, pg, l, m) ==
  /\ pg.map # NoMap => pg.map.seq = v.seq /\ pg.queue = Nothing /\ l.pc = "none" /\ ~pg.fetching
  /\ pg.fetching => l.pc = "none"
  /\ Holds(l) => l.map.seq = v.seq
  /\ \A b \in Block : Still(g, p, m, b) =>
       /\ pg.queue[b] \in {0, v.vals[b]}
       /\ pg.map # NoMap => pg.map.vals[b] = v.vals[b]
       /\ Holds(l) /\ ~l.again /\ pg.queue[b] = 0 => l.map.vals[b] = v.vals[b]

-----------------------------------------------------------------------------
(* The place of a page.                                                    *)

LEMMA FirstIsOne ==
  ASSUME NEW q \in Seq(All), NEW i \in 1 .. Len(q), NEW j \in 1 .. Len(q), First(q, i), First(q, j)
  PROVE  i = j
<1>1. i \in Nat /\ j \in Nat /\ i >= 1 /\ j >= 1 OBVIOUS
<1>2. ~(i < j)
  <2>1. i < j => i \in 1 .. j - 1 BY <1>1
  <2> QED BY <2>1 DEF First
<1>3. ~(j < i)
  <2>1. j < i => j \in 1 .. i - 1 BY <1>1
  <2> QED BY <2>1 DEF First
<1> QED BY <1>1, <1>2, <1>3

\* A page that counts from the next frame has a place, whatever is queued.
LEMMA PlaceThere ==
  ASSUME NEW q \in Seq(All), NEW p \in Pending, NEW u, u # NoFrame => u.n \in 1 .. p.n,
         \A i \in 1 .. Len(q) : Prog(q, i) => q[i].n \in 1 .. p.n
  PROVE  \E m \in Nat : Place(q, u, p, 0, m)
<1>0. p.n \in Nat /\ Len(q) \in Nat BY DEF Pending
<1>1. CASE NoProg(q)
  <2> DEFINE m == IF u # NoFrame THEN u.n - 1 ELSE p.n
  <2>1. m \in 0 .. p.n /\ (u # NoFrame => u.n = m + 1) /\ (u = NoFrame => m = p.n) BY <1>0
  <2> HIDE DEF m
  <2>2. \A i \in 1 .. Len(q) : ~First(q, i) BY <1>1 DEF NoProg, First
  <2>3. Place(q, u, p, 0, m) BY <2>1, <2>2 DEF Place
  <2> QED BY <1>0, <2>1, <2>3
<1>2. CASE \E i \in 1 .. Len(q) : First(q, i)
  <2>1. PICK i \in 1 .. Len(q) : First(q, i) BY <1>2
  <2> DEFINE m == q[i].n - 1
  <2>2. q[i].n \in 1 .. p.n BY <2>1 DEF First
  <2>3. m \in 0 .. p.n /\ q[i].n = m + 1 BY <1>0, <2>2
  <2> HIDE DEF m
  <2>4. \A j \in 1 .. Len(q) : First(q, j) => q[j].n = m + 1 BY <2>1, <2>3, FirstIsOne
  <2>5. ~NoProg(q) BY <2>1 DEF NoProg, First
  <2>6. Place(q, u, p, 0, m) BY <2>3, <2>4, <2>5 DEF Place
  <2> QED BY <1>0, <2>3, <2>6
<1>3. CASE ~NoProg(q) /\ ~\E i \in 1 .. Len(q) : First(q, i)
  <2>1. 0 \in 0 .. p.n BY <1>0
  <2> QED BY <1>3, <2>1 DEF Place
<1> QED BY <1>1, <1>2, <1>3

\* The frame in hand joins the queue.
LEMMA PlaceSent ==
  ASSUME NEW q \in Seq(All), NEW u \in Progress, NEW p, NEW f, NEW m, u # NoFrame, Place(q, u, p, f, m)
  PROVE  Place(Append(q, u), NoFrame, p, f, m)
<1> DEFINE r == Append(q, u)
<1>1. Len(q) \in Nat /\ Len(r) = Len(q) + 1 /\ r[Len(q) + 1] = u /\ \A i \in 1 .. Len(q) : r[i] = q[i]
  OBVIOUS
<1>2. u.ev = "progress" BY DEF Progress
<1> HIDE DEF r
<1>3. ~NoProg(r)
  <2>1. Len(q) + 1 \in 1 .. Len(r) BY <1>1
  <2> QED BY <1>1, <1>2, <2>1 DEF NoProg, Prog
<1>4. ASSUME f = 0, NEW i \in 1 .. Len(r), First(r, i) PROVE r[i].n = m + 1
  <2>1. CASE i = Len(q) + 1
    <3>1. \A j \in 1 .. Len(q) : ~Prog(r, j) BY <1>1, <1>4, <2>1 DEF First
    <3>2. NoProg(q) BY <1>1, <3>1 DEF NoProg, Prog
    <3> QED BY <1>1, <1>4, <2>1, <3>2 DEF Place
  <2>2. CASE i # Len(q) + 1
    <3>1. i \in 1 .. Len(q) /\ \A j \in 1 .. i - 1 : j \in 1 .. Len(q) BY <1>1, <2>2
    <3>2. First(q, i) BY <1>1, <1>4, <3>1 DEF First, Prog
    <3> QED BY <1>1, <1>4, <3>1, <3>2 DEF Place
  <2> QED BY <2>1, <2>2
<1>5. Place(r, NoFrame, p, f, m) BY <1>3, <1>4 DEF Place
<1> QED BY <1>5 DEF r

\* The frame in hand is lost to a page that counts.
LEMMA PlaceLost ==
  ASSUME NEW q, NEW u, NEW p, NEW f, NEW m, Place(q, u, p, f, m), f # 0 \/ ~NoProg(q)
  PROVE  Place(q, NoFrame, p, f, m)
BY DEF Place

\* The slot is drained.
LEMMA PlaceDrained ==
  ASSUME NEW q, NEW p \in Pending, NEW r \in Pending, NEW u, NEW f, NEW m,
         Place(q, NoFrame, p, f, m), r.n = p.n + 1, u.n = r.n, u # NoFrame
  PROVE  Place(q, u, r, f, m)
<1>1. p.n \in Nat BY DEF Pending
<1>2. m \in 0 .. r.n BY <1>1 DEF Place
<1> QED BY <1>2 DEF Place

\* Another event is heard.
LEMMA PlaceHeard ==
  ASSUME NEW q \in Seq(All), q # <<>>, Head(q).ev # "progress", NEW u, NEW p, NEW f, NEW m, Place(q, u, p, f, m)
  PROVE  Place(Tail(q), u, p, f, m)
<1> DEFINE r == Tail(q)
<1>1. /\ Len(q) \in Nat \ {0} /\ Len(r) = Len(q) - 1 /\ Head(q) = q[1]
      /\ \A i \in 1 .. Len(r) : r[i] = q[i + 1]
  OBVIOUS
<1> HIDE DEF r
<1>2. ASSUME NoProg(r) PROVE NoProg(q)
  <2> SUFFICES ASSUME NEW i \in 1 .. Len(q) PROVE ~Prog(q, i) BY DEF NoProg
  <2>1. CASE i = 1 BY <1>1, <2>1 DEF Prog
  <2>2. CASE i # 1
    <3>1. i - 1 \in 1 .. Len(r) /\ (i - 1) + 1 = i BY <1>1, <2>2
    <3>2. r[i - 1] = q[i] BY <1>1, <3>1
    <3> QED BY <1>2, <3>1, <3>2 DEF NoProg, Prog
  <2> QED BY <2>1, <2>2
<1>3. ASSUME NEW i \in 1 .. Len(r), First(r, i) PROVE i + 1 \in 1 .. Len(q) /\ First(q, i + 1) /\ r[i] = q[i + 1]
  <2>1. i + 1 \in 1 .. Len(q) /\ r[i] = q[i + 1] BY <1>1
  <2>2. ASSUME NEW j \in 1 .. (i + 1) - 1 PROVE ~Prog(q, j)
    <3>1. CASE j = 1 BY <1>1, <3>1 DEF Prog
    <3>2. CASE j # 1
      <4>1. j - 1 \in 1 .. i - 1 /\ (j - 1) + 1 = j /\ j - 1 \in 1 .. Len(r) BY <1>1, <3>2
      <4>2. r[j - 1] = q[j] BY <1>1, <4>1
      <4> QED BY <1>3, <4>1, <4>2 DEF First, Prog
    <3> QED BY <3>1, <3>2
  <2> QED BY <1>3, <2>1, <2>2 DEF First, Prog
<1>4. Place(r, u, p, f, m) BY <1>2, <1>3 DEF Place
<1> QED BY <1>4 DEF r

\* A page whose stream comes or goes while it has no frame to hear.
LEMMA PlaceQuiet ==
  ASSUME NEW q, NEW r, NoProg(q), NoProg(r), NEW u, NEW p, NEW f, NEW m, Place(q, u, p, f, m)
  PROVE  Place(r, u, p, f, m)
BY DEF Place, NoProg, First

LEMMA NoProgKept ==
  ASSUME NEW q \in Seq(All), NoProg(q)
  PROVE  /\ \A e \in Event : NoProg(Append(q, e))
         /\ q # <<>> => NoProg(Tail(q)) /\ Head(q).ev # "progress"
<1>1. ASSUME NEW e \in Event PROVE NoProg(Append(q, e))
  <2> DEFINE r == Append(q, e)
  <2>1. Len(q) \in Nat /\ Len(r) = Len(q) + 1 /\ r[Len(q) + 1] = e /\ \A i \in 1 .. Len(q) : r[i] = q[i]
    BY AppendIs DEF All
  <2>2. e.ev # "progress" BY DEF Event
  <2> HIDE DEF r
  <2> QED BY <2>1, <2>2 DEF NoProg, Prog, r
<1>2. ASSUME q # <<>> PROVE NoProg(Tail(q)) /\ Head(q).ev # "progress"
  <2> DEFINE r == Tail(q)
  <2>1. /\ Len(q) \in Nat \ {0} /\ Len(r) = Len(q) - 1 /\ Head(q) = q[1]
        /\ \A i \in 1 .. Len(r) : r[i] = q[i + 1]
    BY <1>2, TailIs
  <2> HIDE DEF r
  <2>2. \A i \in 1 .. Len(r) : i + 1 \in 1 .. Len(q) BY <2>1
  <2> QED BY <2>1, <2>2 DEF NoProg, Prog, r
<1> QED BY <1>1, <1>2

-----------------------------------------------------------------------------
(* The queue.                                                              *)

LEMMA QueuesSent ==
  ASSUME NEW g, NEW n, NEW s, NEW q \in Seq(All), NEW u \in All, Queues(g, n, s, q), Ours(g, n, s, u)
  PROVE  Queues(g, n, s, Append(q, u))
<1> DEFINE r == Append(q, u)
<1>1. Len(q) \in Nat /\ Len(r) = Len(q) + 1 /\ r[Len(q) + 1] = u /\ \A i \in 1 .. Len(q) : r[i] = q[i]
  OBVIOUS
<1> HIDE DEF r
<1> QED BY <1>1 DEF Queues, Prog, r

LEMMA QueuesTail ==
  ASSUME NEW g, NEW n, NEW s, NEW q \in Seq(All), q # <<>>, Queues(g, n, s, q)
  PROVE  Queues(g, n, s, Tail(q))
<1> DEFINE r == Tail(q)
<1>1. /\ Len(q) \in Nat \ {0} /\ Len(r) = Len(q) - 1
      /\ \A i \in 1 .. Len(r) : r[i] = q[i + 1]
  OBVIOUS
<1> HIDE DEF r
<1>2. \A i \in 1 .. Len(r) : i + 1 \in 1 .. Len(q) BY <1>1
<1> QED BY <1>1, <1>2 DEF Queues, Prog, r

\* The count goes on.
LEMMA QueuesGrow ==
  ASSUME NEW g, NEW h, NEW n \in Nat, NEW k \in Nat, k >= n, \A i \in 1 .. n : h[i] = g[i], NEW s, NEW q,
         Queues(g, n, s, q)
  PROVE  Queues(h, k, s, q)
<1>1. \A i \in 1 .. n : i \in 1 .. k OBVIOUS
<1>2. ASSUME NEW x, Ours(g, n, s, x) PROVE Ours(h, k, s, x) BY <1>1, <1>2 DEF Ours
<1> QED BY <1>2 DEF Queues

LEMMA QueuesNone ==
  ASSUME NEW q, NoProg(q), NEW g, NEW n, NEW s
  PROVE  Queues(g, n, s, q)
BY DEF NoProg, Queues

-----------------------------------------------------------------------------
(* The frames.                                                             *)

\* A value is recorded.
LEMMA SendsWritten ==
  ASSUME NEW g, NEW p \in Pending, NEW r \in Pending, NEW u, NEW v \in Map, NEW w \in Map, NEW b \in Block,
         NEW x \in Nat \ {0}, Sends(g, p, u, v),
         r.n = p.n, r.has = p.has, r.seq = p.seq, w.seq = v.seq, r.blocks[b] = x, w.vals[b] = x,
         \A c \in Block \ {b} : r.blocks[c] = p.blocks[c] /\ w.vals[c] = v.vals[c]
  PROVE  /\ Sends(g, r, u, w)
         /\ \A m : \A c \in Block : Still(g, r, m, c) => Still(g, p, m, c) /\ c # b /\ w.vals[c] = v.vals[c]
<1>1. ASSUME NEW m, NEW c \in Block, Still(g, r, m, c)
      PROVE  Still(g, p, m, c) /\ c # b /\ w.vals[c] = v.vals[c]
  BY <1>1 DEF Still
<1>2. \A c \in Block : r.blocks[c] # 0 => r.blocks[c] = w.vals[c] BY DEF Sends
<1> QED BY <1>1, <1>2 DEF Sends

\* The slot is drained: what is still since a frame that was drained before was
\* still then, and what was in the slot is in the frame.
LEMMA SendsDrained ==
  ASSUME NEW g \in [Nat -> Values], NEW p \in Pending, NEW r \in Pending, NEW v \in Map, Sends(g, p, NoFrame, v),
         p.has, r.n = p.n + 1, r.has = p.has, r.seq = p.seq, r.blocks = Nothing
  PROVE  \E h \in [Nat -> Values] :
           /\ \A i \in 1 .. p.n : h[i] = g[i]
           /\ Sends(h, r, NextFrame(p), v)
           /\ \A m \in 0 .. p.n : \A b \in Block : Still(h, r, m, b) => Still(g, p, m, b)
<1> DEFINE n == p.n + 1  u == NextFrame(p)
<1>1. p.n \in Nat /\ n \in Nat /\ p.blocks \in Values BY DEF Pending
<1>2. r.n = n /\ u.n = n /\ u.blocks = p.blocks /\ u.seq = v.seq /\ n \in 1 .. n
  BY <1>1 DEF NextFrame, Sends
<1> HIDE DEF u
<1> DEFINE h == [g EXCEPT ![n] = p.blocks]
<1>3. h \in [Nat -> Values] BY <1>1
<1>4. h[n] = p.blocks /\ \A i \in Nat : i # n => h[i] = g[i] BY <1>1
<1>5. \A i \in 1 .. p.n : i \in Nat /\ i # n BY <1>1
<1> HIDE DEF h
<1>6. \A i \in 1 .. p.n : h[i] = g[i] BY <1>4, <1>5
<1>7. ASSUME NEW m \in 0 .. p.n, NEW b \in Block, Still(h, r, m, b) PROVE Still(g, p, m, b)
  <2>1. n \in m + 1 .. r.n /\ \A k \in m + 1 .. p.n : k \in m + 1 .. r.n /\ k \in 1 .. p.n
    BY <1>1, <1>2
  <2>2. p.blocks[b] = 0 BY <1>4, <1>7, <2>1 DEF Still
  <2>3. \A k \in m + 1 .. p.n : g[k][b] = 0 BY <1>6, <1>7, <2>1 DEF Still
  <2> QED BY <2>2, <2>3 DEF Still
<1>8. ASSUME NEW b \in Block, NEW k \in 1 .. r.n, h[k][b] # 0, Still(h, r, k, b)
      PROVE  h[k][b] = v.vals[b]
  <2>1. CASE k = n BY <1>4, <1>8, <2>1 DEF Sends
  <2>2. CASE k # n
    <3>1. k \in 1 .. p.n /\ k \in 0 .. p.n BY <1>1, <1>2, <2>2
    <3>2. Still(g, p, k, b) BY <1>7, <1>8, <3>1
    <3> QED BY <1>6, <1>8, <3>1, <3>2 DEF Sends
  <2> QED BY <2>1, <2>2
<1>9. \A b \in Block : r.blocks[b] = 0 BY DEF Nothing
<1>10. Ours(h, r.n, v.seq, u) BY <1>2, <1>4 DEF Ours
<1>11. Sends(h, r, u, v) BY <1>2, <1>8, <1>9, <1>10 DEF Sends
<1> QED BY <1>3, <1>6, <1>7, <1>11 DEF u

\* What is still since the frame before f, and is not in f, is still since f; what
\* f has is the daemon's.
LEMMA StillBefore ==
  ASSUME NEW g, NEW p \in Pending, NEW u, NEW v, Sends(g, p, u, v), NEW n \in 1 .. p.n, NEW b \in Block, Still(g, p, n, b)
  PROVE  /\ g[n][b] # 0 => g[n][b] = v.vals[b]
         /\ g[n][b] = 0 => \A m \in Nat : n = m + 1 => Still(g, p, m, b)
<1>1. p.n \in Nat BY DEF Pending
<1>2. ASSUME NEW m \in Nat, n = m + 1, g[n][b] = 0 PROVE Still(g, p, m, b)
  <2>1. \A k \in m + 1 .. p.n : k = n \/ k \in n + 1 .. p.n BY <1>1, <1>2
  <2> QED BY <1>2, <2>1 DEF Still
<1> QED BY <1>2 DEF Sends

-----------------------------------------------------------------------------
(* A round that has met none of the races.                                 *)

LEMMA Unraced ==
  ASSUME TypeInv, [Next]_vars, round.pc # "idle", round'.pc # "idle", ~raced'
  PROVE  /\ ~raced
         /\ OnProgress => ~page.fetching
         /\ DetailReturns => load = NoLoad
         /\ SendFrame => Room \/ ~Uncounted
         /\ Disconnect => ~(Deaf /\ Missing)
<1>0. Scanning /\ round \in Round BY DEF TypeInv, TypeOK, Round, RoundPc, Scanning
<1>1. OnProgress => ~raced /\ ~page.fetching BY <1>0 DEF OnProgress, Races
<1>2. DetailReturns => ~raced /\ load = NoLoad BY <1>0 DEF DetailReturns, Races
<1>3. SendFrame => ~raced /\ (Room \/ ~Uncounted) BY <1>0 DEF SendFrame, PublishProgress, Races
<1>4. Disconnect => ~raced /\ ~(Deaf /\ Missing) BY <1>0 DEF Disconnect, Races
<1>5. UNCHANGED raced => ~raced OBVIOUS
<1>6. ~ScanStart /\ ~EndRound /\ ~Restart
  BY <1>0 DEF ScanStart, EndRound, Restart, RoundAt, Finish, RoundGoes, Round
<1>7. OpenRound => UNCHANGED raced
  BY <1>0 DEF OpenRound, Finish, RoundGoes, Round, history
<1>8. (\E b \in Block : OnBlock(b)) \/ OnLive \/ DropPending \/ ScanEnd \/ Drain \/ Subscribe \/ Open
        \/ OnHello \/ OnState \/ OnResync \/ ListReturns \/ ProfilesReturn \/ LoadReturns \/ Answer
        \/ UNCHANGED vars => UNCHANGED raced
  BY DEF OnBlock, OnLive, DropPending, ScanEnd, Drain, Subscribe, Open, OnHello, OnState, OnResync,
    ListReturns, ProfilesReturn, LoadReturns, Answer, DetailAnswered, LoadAnswered, history, vars
<1> QED BY <1>1, <1>2, <1>3, <1>4, <1>5, <1>6, <1>7, <1>8 DEF Next, RoundStep, Publisher, PageStep

\* Until the device has opened nothing of the round is under way, nor of another.
Opens ==
  round.pc = "open" /\ ~raced =>
    /\ ender = "none" /\ pub = NoFrame /\ pend = NoPending
    /\ NoProg(inbox) /\ Blank
    /\ page.fetching => load.pc = "none"
    /\ load.pc = "answered" => load.map = NoMap

\* Nothing else moves the round.
LEMMA PcStays ==
  ASSUME TypeInv, [Next]_vars, ~ScanStart, ~OpenRound, ~EndRound, ~Restart
  PROVE  round'.pc = round.pc
<1>0. round \in Round BY DEF TypeInv, TypeOK
<1>1. ASSUME NEW b \in Block, OnBlock(b) PROVE round'.pc = round.pc BY <1>0, <1>1 DEF OnBlock, Round
<1>2. CASE Drain BY <1>0, <1>2 DEF Drain, Round
<1>3. OnLive \/ DropPending \/ ScanEnd \/ SendFrame \/ Subscribe \/ Disconnect \/ PageStep \/ Answer
        \/ UNCHANGED vars => UNCHANGED round
  BY DEF OnLive, DropPending, ScanEnd, SendFrame, Subscribe, Disconnect, PageStep, Open, OnHello, OnState,
    OnResync, OnProgress, ListReturns, DetailReturns, ProfilesReturn, LoadReturns, Answer, DetailAnswered,
    LoadAnswered, server, vars
<1> QED BY <1>1, <1>2, <1>3 DEF Next, RoundStep, Publisher

LEMMA OpensNext ==
  ASSUME QuietInv, Idles, Hears, Opens, [Next]_vars
  PROVE  Opens'
<1> USE DEF QuietInv
<1>0. /\ inbox \in Seq(All) /\ refresh \in Seq(Refresh) /\ page \in Page /\ load \in Load
      /\ round \in Round
  BY DEF TypeInv, TypeOK, All
<1> SUFFICES ASSUME round'.pc = "open", ~raced' PROVE Opens' BY DEF Opens
<1>1. CASE ScanStart
  <2>1. Fresh /\ UNCHANGED <<ender, pend, pub, page, load>> /\ round.pc = "idle" /\ PublishEvent("start")
    BY <1>1 DEF ScanStart, RoundAt, client
  <2>2. ender = "none" /\ pub = NoFrame /\ load.pc = "none" /\ Blank /\ NoProg(inbox)
    BY <2>1 DEF Fresh, NoLoad, Blank, NoProg, Prog
  <2>3. pend = NoPending BY <2>1, <2>2 DEF Quiet, QuietAfterEnd, Between
  <2>4. NoProg(inbox')
    <3>1. inbox' = inbox \/ \E e \in Event : inbox' = Append(inbox, e)
      BY <2>1 DEF PublishEvent, Event
    <3> QED BY <1>0, <2>2, <3>1, NoProgKept
  <2> QED BY <2>1, <2>2, <2>3, <2>4 DEF Opens, Blank
<1>2. CASE OpenRound BY <1>0, <1>2 DEF OpenRound, Finish, RoundGoes, Round
<1>3. ASSUME NEW b \in Block, OnBlock(b) PROVE Opens' BY <1>0, <1>3 DEF OnBlock, RoundAt, Round
<1>4. CASE OnLive \/ EndRound \/ Restart
  BY <1>0, <1>4 DEF OnLive, EndRound, Restart, RoundAt, Finish, RoundGoes, Round
<1>5. SUFFICES ASSUME ~ScanStart, round.pc = "open", ~raced PROVE Opens'
  <2>1. ~ScanStart => round.pc = "open"
    <3>1. ~ScanStart => ~OpenRound /\ ~EndRound /\ ~Restart
      BY <1>0, <1>2 DEF OpenRound, EndRound, Restart, Finish, RoundGoes, Round
    <3> QED BY <3>1, PcStays
  <2>2. ~ScanStart => ~raced BY <2>1, Unraced
  <2> QED BY <1>1, <1>5, <2>1, <2>2
<1>6. /\ ender = "none" /\ pub = NoFrame /\ pend = NoPending /\ NoProg(inbox) /\ Blank
      /\ (page.fetching => load.pc = "none") /\ (load.pc = "answered" => load.map = NoMap)
  BY <1>5 DEF Opens
<1>7. ~DropPending /\ ~ScanEnd /\ ~Drain /\ ~SendFrame
  BY <1>6 DEF DropPending, ScanEnd, Drain, SendFrame, NoPending
<1>8. CASE Subscribe \/ Disconnect
  <2>1. NoProg(inbox')
    <3>1. NoProg(<<>>) /\ NoProg(<<[ev |-> "hello"]>>) BY DEF NoProg, Prog
    <3> QED BY <1>8, <3>1 DEF Subscribe, Disconnect
  <2>2. UNCHANGED <<ender, pend, pub, load>> /\ (page' = page \/ page' = [page EXCEPT !.pc = "on"])
    BY <1>8 DEF Subscribe, Disconnect, server, client
  <2>3. /\ page'.map = page.map /\ page'.queue = page.queue /\ page'.frameN = page.frameN
        /\ page'.fetching = page.fetching
    BY <1>0, <2>2 DEF Page
  <2> QED BY <1>6, <2>1, <2>2, <2>3 DEF Opens, Blank
<1>9. CASE PageStep
  <2>1. UNCHANGED <<ender, pend, pub>>
    BY <1>9 DEF PageStep, Open, OnHello, OnState, OnResync, OnProgress, ListReturns, DetailReturns,
      ProfilesReturn, LoadReturns, server
  <2>2. inbox' = inbox \/ (inbox # <<>> /\ inbox' = Tail(inbox))
    BY <1>9 DEF PageStep, Open, OnHello, OnState, OnResync, OnProgress, ListReturns, DetailReturns,
      ProfilesReturn, LoadReturns, Arrives
  <2>3. NoProg(inbox') BY <1>0, <1>6, <2>2, NoProgKept
  <2>4. SUFFICES Blank' /\ (page'.fetching => load'.pc = "none") /\ (load'.pc = "answered" => load'.map = NoMap)
    BY <1>6, <2>1, <2>3 DEF Opens
  <2>5. CASE Open \/ OnHello \/ OnState \/ OnResync
    <3>1. /\ page'.map = page.map /\ page'.queue = page.queue /\ page'.frameN = page.frameN
          /\ page'.fetching = page.fetching /\ UNCHANGED load
      BY <1>0, <2>5 DEF Open, OnHello, OnState, OnResync, Page
    <3> QED BY <1>6, <3>1 DEF Blank
  <2>6. CASE OnProgress BY <1>0, <1>6, <2>6, NoProgKept DEF OnProgress, Arrives
  <2>7. CASE ListReturns
    <3>1. /\ page'.map = NoMap /\ page'.queue = Nothing /\ page'.frameN = 0
          /\ page'.fetching = page.fetching /\ UNCHANGED load
      BY <1>0, <2>7 DEF ListReturns, DropLive, Page
    <3> QED BY <1>6, <3>1 DEF Blank
  <2>8. CASE DetailReturns
    <3>1. load = NoLoad /\ load' = load BY <1>5, <2>8, Unraced DEF DetailReturns
    <3>2. refresh # <<>> /\ Head(refresh) \in Refresh BY <1>0, <2>8 DEF DetailReturns, RefreshAt
    <3> DEFINE p == [page EXCEPT !.detail = Head(refresh).detail]
    <3>3. p \in Page /\ p.map = page.map /\ p.queue = page.queue /\ p.frameN = page.frameN
      BY <1>0, <3>2 DEF Page, Refresh
    <3>4. page' = p \/ page' = [DropLive(p) EXCEPT !.profile = FALSE, !.fetching = TRUE]
      BY <2>8 DEF DetailReturns
    <3> HIDE DEF p
    <3>5. Blank' BY <1>6, <3>3, <3>4 DEF DropLive, Page, Blank
    <3> QED BY <3>1, <3>5 DEF NoLoad
  <2>9. CASE ProfilesReturn
    <3>1. /\ page'.map = page.map /\ page'.queue = page.queue /\ page'.frameN = page.frameN
          /\ ~page'.fetching /\ page.fetching
      BY <1>0, <2>9 DEF ProfilesReturn, Page
    <3>2. load'.pc # "answered" BY <1>6, <2>9, <3>1, LoadLiveIs DEF ProfilesReturn
    <3> QED BY <1>6, <3>1, <3>2 DEF Blank
  <2>10. CASE LoadReturns
    <3>1. load.pc = "answered" /\ load.seq # 0 /\ load.map = NoMap /\ ~page.fetching
      BY <1>6, <2>10 DEF LoadReturns, Hears
    <3>2. ~Wanted(load.map) BY <3>1 DEF Wanted, NoMap
    <3>3. page' = page \/ page' = [page EXCEPT !.queue = Nothing] BY <2>10, <3>2 DEF LoadReturns
    <3>4. Blank' /\ page'.fetching = page.fetching BY <1>0, <1>6, <3>3 DEF Page, Blank
    <3>5. load'.pc # "answered" BY <2>10, LoadLiveIs DEF LoadReturns, NoLoad
    <3> QED BY <3>1, <3>4, <3>5
  <2> QED BY <1>9, <2>5, <2>6, <2>7, <2>8, <2>9, <2>10 DEF PageStep
<1>10. CASE DetailAnswered
  BY <1>6, <1>10 DEF DetailAnswered, server, Opens, Blank
<1>11. CASE LoadAnswered
  <2>1. live = NoMap BY <1>5 DEF Idles
  <2>2. load.pc = "asked" /\ load'.map = NoMap BY <1>0, <1>11, <2>1 DEF LoadAnswered, Load
  <2> QED BY <1>6, <1>11, <2>2 DEF LoadAnswered, server, Opens, Blank
<1>12. CASE UNCHANGED vars
  BY <1>6, <1>12 DEF vars, server, client, Opens, Blank
<1> QED BY <1>2, <1>3, <1>4, <1>5, <1>7, <1>8, <1>9, <1>10, <1>11, <1>12
  DEF Next, RoundStep, Publisher, Answer

-----------------------------------------------------------------------------
(* A page that keeps up.                                                   *)

\* A page that hears of a round's end asks for all of it.
Listed == \A i \in 1 .. Len(refresh) : refresh[i].pc = "list" => refresh[i].hard

LEMMA ListedNext ==
  ASSUME TypeInv, Listed, [Next]_vars
  PROVE  Listed'
<1>0. refresh \in Seq(Refresh) BY DEF TypeInv, TypeOK
<1>2. CASE UNCHANGED refresh BY <1>2 DEF Listed
<1>3. ASSUME NEW r \in Refresh, refresh' = Append(refresh, r), r.pc = "list" => r.hard
      PROVE  Listed'
  <2>1. /\ Len(refresh) \in Nat /\ Len(refresh') = Len(refresh) + 1
        /\ \A i \in 1 .. Len(refresh) : refresh'[i] = refresh[i]
        /\ refresh'[Len(refresh) + 1] = r
    BY <1>0, <1>3, AppendIs
  <2> SUFFICES ASSUME NEW i \in 1 .. Len(refresh'), refresh'[i].pc = "list" PROVE refresh'[i].hard
    BY DEF Listed
  <2>2. CASE i = Len(refresh) + 1 BY <1>3, <2>1, <2>2
  <2>3. CASE i # Len(refresh) + 1
    <3>1. i \in 1 .. Len(refresh) BY <2>1, <2>3
    <3> QED BY <2>1, <3>1 DEF Listed
  <2> QED BY <2>2, <2>3
<1>4. ASSUME NEW r \in Refresh, refresh # <<>>, Became(r), r.pc # "list" PROVE Listed'
  <2>1. /\ Len(refresh) \in Nat \ {0} /\ Len(refresh') = Len(refresh)
        /\ refresh'[1] = r /\ \A i \in 2 .. Len(refresh) : refresh'[i] = refresh[i]
    BY <1>0, <1>4, BecameIs DEF Became
  <2> SUFFICES ASSUME NEW i \in 1 .. Len(refresh'), refresh'[i].pc = "list" PROVE refresh'[i].hard
    BY DEF Listed
  <2>2. i \in 2 .. Len(refresh) /\ i \in 1 .. Len(refresh) BY <1>4, <2>1
  <2> QED BY <2>1, <2>2 DEF Listed
<1>5. CASE OnHello
  <2>1. Asking(TRUE) \in Refresh /\ Asking(TRUE).pc # "list" BY AskingType DEF Asking
  <2>2. UNCHANGED refresh \/ refresh' = Append(refresh, Asking(TRUE)) BY <1>5 DEF OnHello, HelloRefresh
  <2> QED BY <1>2, <1>3, <2>1, <2>2
<1>6. CASE OnState
  <2>1. CASE refresh' = Append(refresh, Asking(FALSE))
    <3>1. Asking(FALSE) \in Refresh /\ Asking(FALSE).pc # "list" BY AskingType DEF Asking
    <3> QED BY <1>3, <2>1, <3>1
  <2>2. CASE refresh' = Append(refresh, AskingAtEnd)
    <3>1. AskingAtEnd \in Refresh /\ AskingAtEnd.hard BY AskingType DEF AskingAtEnd
    <3> QED BY <1>3, <2>2, <3>1
  <2> QED BY <1>6, <2>1, <2>2 DEF OnState
<1>7. CASE OnResync
  <2>1. Asking(TRUE) \in Refresh /\ Asking(TRUE).pc # "list" BY AskingType DEF Asking
  <2> QED BY <1>3, <1>7, <2>1 DEF OnResync
<1>8. CASE Open
  <2>1. Len(refresh') = 1 /\ refresh'[1].pc # "list" BY <1>8 DEF Open, Asking
  <2>2. \A i \in 1 .. Len(refresh') : i = 1 BY <2>1
  <2> QED BY <2>1, <2>2 DEF Listed
<1>9. CASE ListReturns \/ DetailAnswered
  <2>1. refresh # <<>> /\ Head(refresh) \in Refresh BY <1>0, <1>9 DEF ListReturns, DetailAnswered, RefreshAt
  <2>2. [scanning |-> Scanning, live |-> snap] \in Detail BY DEF Detail, Scanning, TypeInv, TypeOK
  <2> DEFINE r == [Head(refresh) EXCEPT !.pc = "detail"]
             a == [Head(refresh) EXCEPT !.pc = "answered", !.detail = [scanning |-> Scanning, live |-> snap]]
  <2>3. r \in Refresh /\ r.pc # "list" /\ a \in Refresh /\ a.pc # "list" BY <2>1, <2>2 DEF Refresh
  <2>4. Became(r) \/ Became(a) BY <1>9 DEF ListReturns, DetailAnswered
  <2> HIDE DEF r, a
  <2> QED BY <1>4, <2>1, <2>3, <2>4
<1>10. CASE DetailReturns
  <2>1. refresh # <<>> /\ refresh' = Tail(refresh) BY <1>10 DEF DetailReturns, RefreshAt
  <2>2. /\ Len(refresh) \in Nat \ {0} /\ Len(refresh') = Len(refresh) - 1
        /\ \A i \in 1 .. Len(refresh') : refresh'[i] = refresh[i + 1]
    BY <1>0, <2>1, TailIs
  <2>3. \A i \in 1 .. Len(refresh') : i + 1 \in 1 .. Len(refresh) BY <2>2
  <2> QED BY <2>2, <2>3 DEF Listed
<1>11. RoundStep \/ Publisher \/ Subscribe \/ Disconnect \/ Restart \/ LoadAnswered \/ OnProgress \/ ProfilesReturn
         \/ LoadReturns => UNCHANGED refresh
  BY DEF RoundStep, ScanStart, OpenRound, OnBlock, OnLive, EndRound, DropPending, ScanEnd, Publisher, Drain,
    SendFrame, Subscribe, Disconnect, Restart, LoadAnswered, OnProgress, ProfilesReturn, LoadReturns, client
<1> QED BY <1>2, <1>5, <1>6, <1>7, <1>8, <1>9, <1>10, <1>11 DEF Next, PageStep, Answer, vars, client

-----------------------------------------------------------------------------
(* A page either keeps up with the round or has heard, or will hear, that  *)
(* it must ask again.                                                      *)

AsksAgain ==
  \/ page.greeted /\ conn = "down"
  \/ Coming(inbox, page.greeted)
  \/ \E i \in 1 .. Len(refresh) : refresh[i].hard

KeepsUp(g) ==
  \/ page.pc = "closed" \/ AsksAgain
  \/ \E m \in Nat : Place(inbox, pub, pend, page.frameN, m) /\ Caught(g, pend, live, page, load, m)

Follows(g) ==
  /\ Sends(g, pend, pub, live)
  /\ Queues(g, pend.n, live.seq, inbox)
  /\ KeepsUp(g)

\* In a round that has met none of the races.
Runs ==
  round.pc = "run" /\ ~raced =>
    live.seq = past + 1 /\ ender = "none" /\ \E g \in [Nat -> Values] : Follows(g)

\* The map and the queue are empty, and nothing is loading.
LEMMA CaughtBlank ==
  ASSUME NEW g, NEW p, NEW v, NEW pg, NEW l, NEW m, pg.map = NoMap, pg.queue = Nothing, l.pc = "none"
  PROVE  Caught(g, p, v, pg, l, m)
BY DEF Caught, Nothing, Holds

\* A refresh that asks for everything is not forgotten for another.
LEMMA HardAppend ==
  ASSUME NEW q \in Seq(Refresh), NEW r \in Refresh
  PROVE  /\ (\E i \in 1 .. Len(q) : q[i].hard) => \E i \in 1 .. Len(Append(q, r)) : Append(q, r)[i].hard
         /\ r.hard => \E i \in 1 .. Len(Append(q, r)) : Append(q, r)[i].hard
<1> DEFINE a == Append(q, r)
<1>1. /\ Len(q) \in Nat /\ Len(a) = Len(q) + 1 /\ a[Len(q) + 1] = r
      /\ \A i \in 1 .. Len(q) : a[i] = q[i]
  BY AppendIs
<1> HIDE DEF a
<1>2. Len(q) + 1 \in 1 .. Len(a) /\ \A i \in 1 .. Len(q) : i \in 1 .. Len(a) BY <1>1
<1>3. (\E i \in 1 .. Len(q) : q[i].hard) => \E i \in 1 .. Len(a) : a[i].hard BY <1>1, <1>2
<1>4. r.hard => \E i \in 1 .. Len(a) : a[i].hard BY <1>1, <1>2
<1> QED BY <1>3, <1>4 DEF a

LEMMA HardBecame ==
  ASSUME NEW q \in Seq(Refresh), q # <<>>, NEW r \in Refresh, r.hard = Head(q).hard
  PROVE  (\E i \in 1 .. Len(q) : q[i].hard) => \E i \in 1 .. Len(<<r>> \o Tail(q)) : (<<r>> \o Tail(q))[i].hard
<1> DEFINE a == <<r>> \o Tail(q)
<1>1. /\ Len(q) \in Nat \ {0} /\ Len(a) = Len(q) /\ a[1] = r /\ \A i \in 2 .. Len(q) : a[i] = q[i]
      /\ Head(q) = q[1]
  BY BecameIs, TailIs
<1> HIDE DEF a
<1>2. ASSUME NEW i \in 1 .. Len(q), q[i].hard PROVE a[i].hard /\ i \in 1 .. Len(a)
  <2>1. CASE i = 1 BY <1>1, <1>2, <2>1
  <2>2. CASE i # 1
    <3>1. i \in 2 .. Len(q) BY <1>1, <2>2
    <3> QED BY <1>1, <1>2, <3>1
  <2> QED BY <2>1, <2>2
<1>3. (\E i \in 1 .. Len(q) : q[i].hard) => \E i \in 1 .. Len(a) : a[i].hard BY <1>2
<1> QED BY <1>3 DEF a

-----------------------------------------------------------------------------
(* The daemon's steps.                                                     *)

\* A round that reads begins with a page that shows no map.
LEMMA RunsOpened ==
  ASSUME TypeInv, Hears, Opens, OpenRound, round'.pc = "run", ~raced
  PROVE  live'.seq = past' + 1 /\ ender' = "none" /\ \E g \in [Nat -> Values] : Follows(g)'
<1>0. inbox \in Seq(All) /\ round \in Round /\ past \in Nat BY DEF TypeInv, TypeOK, All
<1>1. /\ round.pc = "open" /\ live' = [seq |-> past + 1, vals |-> Nothing]
      /\ UNCHANGED <<past, pend, pub, page, refresh, load, conn, inbox, ender>>
  BY <1>0 DEF OpenRound, RoundAt, RoundGoes, Finish, Round, client
<1>2. /\ ender = "none" /\ pend = NoPending /\ pub = NoFrame /\ NoProg(inbox) /\ Blank
      /\ (page.fetching => load.pc = "none") /\ (load.pc = "answered" => load.map = NoMap)
  BY <1>1 DEF Opens
<1> DEFINE g == [n \in Nat |-> Nothing]
<1>3. g \in [Nat -> Values] BY NothingType
<1> HIDE DEF g
<1>4. Sends(g, pend', pub', live') BY <1>1, <1>2 DEF Sends, NoPending, Nothing
<1>5. Queues(g, pend'.n, live'.seq, inbox') BY <1>1, <1>2, QueuesNone
<1>6. Place(inbox', pub', pend', page'.frameN, 0)
  <2>1. Place(inbox, NoFrame, NoPending, 0, 0) BY <1>2 DEF Place, NoProg, First, NoPending
  <2> QED BY <1>1, <1>2, <2>1 DEF Blank
<1>7. Caught(g, pend', live', page', load', 0)
  <2>1. ~Holds(load) BY <1>2 DEF Holds, Hears, NoMap
  <2>2. page.map = NoMap /\ page.queue = Nothing BY <1>2 DEF Blank
  <2> QED BY <1>1, <1>2, <2>1, <2>2 DEF Caught, Nothing
<1>8. Follows(g)' BY <1>4, <1>5, <1>6, <1>7 DEF Follows, KeepsUp
<1> QED BY <1>1, <1>2, <1>3, <1>8

LEMMA RunsWritten ==
  ASSUME TypeInv, TypeInv', NEW b \in Block, OnBlock(b), NEW g \in [Nat -> Values], Follows(g)
  PROVE  Follows(g)' /\ live'.seq = live.seq
<1>0. round \in Round /\ live \in Map /\ live' \in Map /\ pend \in Pending /\ pend' \in Pending
  BY DEF TypeInv, TypeOK
<1> DEFINE x == round.writes + 1
<1>1. x \in Nat \ {0} BY <1>0 DEF Round
<1>2. /\ live' = [live EXCEPT !.vals[b] = x]
      /\ pend' = [pend EXCEPT !.blocks[b] = x, !.dirty = TRUE]
      /\ UNCHANGED <<past, pub, page, refresh, load, conn, inbox>>
  BY DEF OnBlock, client
<1> HIDE DEF x
<1>3. live.vals \in Values /\ pend.blocks \in Values BY <1>0 DEF Map, Pending
<1>4. /\ live'.seq = live.seq /\ live'.vals = [live.vals EXCEPT ![b] = x]
      /\ pend'.n = pend.n /\ pend'.has = pend.has /\ pend'.seq = pend.seq
      /\ pend'.blocks = [pend.blocks EXCEPT ![b] = x]
  BY <1>0, <1>2 DEF Map, Pending
<1>5. /\ live'.vals[b] = x /\ pend'.blocks[b] = x
      /\ \A c \in Block \ {b} : pend'.blocks[c] = pend.blocks[c] /\ live'.vals[c] = live.vals[c]
  BY <1>3, <1>4 DEF Values
<1>6. Sends(g, pend, pub, live) BY DEF Follows
<1>7. /\ Sends(g, pend', pub, live')
      /\ \A m : \A c \in Block : Still(g, pend', m, c) => Still(g, pend, m, c) /\ c # b /\ live'.vals[c] = live.vals[c]
  <2> DEFINE r == pend'  w == live'
  <2>1. /\ r \in Pending /\ w \in Map /\ r.n = pend.n /\ r.has = pend.has /\ r.seq = pend.seq /\ w.seq = live.seq
        /\ r.blocks[b] = x /\ w.vals[b] = x
        /\ \A c \in Block \ {b} : r.blocks[c] = pend.blocks[c] /\ w.vals[c] = live.vals[c]
    BY <1>0, <1>4, <1>5
  <2> HIDE DEF r, w
  <2>2. /\ Sends(g, r, pub, w)
        /\ \A m : \A c \in Block : Still(g, r, m, c) => Still(g, pend, m, c) /\ c # b /\ w.vals[c] = live.vals[c]
    BY <1>0, <1>1, <1>6, <2>1, SendsWritten
  <2> QED BY <2>2 DEF r, w
<1>8. Queues(g, pend'.n, live'.seq, inbox') BY <1>2, <1>4 DEF Follows
<1>9. KeepsUp(g)'
  <2>1. CASE page.pc = "closed" \/ AsksAgain BY <1>2, <2>1 DEF KeepsUp, AsksAgain
  <2>2. ASSUME NEW m \in Nat, Place(inbox, pub, pend, page.frameN, m), Caught(g, pend, live, page, load, m)
        PROVE  KeepsUp(g)'
    <3>1. Place(inbox', pub', pend', page'.frameN, m) BY <1>2, <1>4, <2>2 DEF Place
    <3>2. Caught(g, pend', live', page', load', m) BY <1>2, <1>4, <1>7, <2>2 DEF Caught
    <3> QED BY <3>1, <3>2 DEF KeepsUp
  <2> QED BY <2>1, <2>2 DEF Follows, KeepsUp
<1> QED BY <1>2, <1>4, <1>7, <1>8, <1>9 DEF Follows

LEMMA RunsSnapped ==
  ASSUME TypeInv, OnLive, live.seq = past + 1, NEW g \in [Nat -> Values], Follows(g)
  PROVE  Follows(g)'
<1>1. /\ pend'.n = pend.n /\ pend'.blocks = pend.blocks /\ pend'.seq = live.seq
      /\ UNCHANGED <<live, pub, page, refresh, load, conn, inbox>>
  BY DEF OnLive, client, TypeInv, TypeOK, Pending
<1>2. \A m, b : Still(g, pend', m, b) <=> Still(g, pend, m, b) BY <1>1 DEF Still
<1>3. Sends(g, pend', pub', live') BY <1>1, <1>2 DEF Follows, Sends
<1>4. \A m : Place(inbox, pub, pend, page.frameN, m) => Place(inbox, pub, pend', page.frameN, m)
  BY <1>1 DEF Place
<1>5. \A m : Caught(g, pend, live, page, load, m) => Caught(g, pend', live, page, load, m)
  BY <1>1, <1>2 DEF Caught
<1>6. KeepsUp(g)' BY <1>1, <1>4, <1>5 DEF Follows, KeepsUp, AsksAgain
<1> QED BY <1>1, <1>3, <1>6 DEF Follows

LEMMA RunsDrained ==
  ASSUME TypeInv, TypeInv', Drain, NEW g \in [Nat -> Values], Follows(g)
  PROVE  \E h \in [Nat -> Values] : Follows(h)'
<1>0. pend \in Pending /\ pend' \in Pending /\ live \in Map BY DEF TypeInv, TypeOK
<1>1. /\ pub = NoFrame /\ pend.has /\ pub' = NextFrame(pend)
      /\ UNCHANGED <<live, page, refresh, load, conn, inbox>>
  BY DEF Drain, client
<1>2. /\ pend'.n = pend.n + 1 /\ pend'.has = pend.has /\ pend'.seq = pend.seq /\ pend'.blocks = Nothing
  BY <1>0 DEF Drain, Pending
<1>3. PICK h \in [Nat -> Values] :
        /\ \A i \in 1 .. pend.n : h[i] = g[i]
        /\ Sends(h, pend', NextFrame(pend), live)
        /\ \A m \in 0 .. pend.n : \A b \in Block : Still(h, pend', m, b) => Still(g, pend, m, b)
  BY <1>0, <1>1, <1>2, SendsDrained DEF Follows
<1>4. pend.n \in Nat /\ pend'.n \in Nat /\ pend'.n >= pend.n BY <1>0, <1>2 DEF Pending
<1>5. Queues(h, pend'.n, live'.seq, inbox') BY <1>1, <1>3, <1>4, QueuesGrow DEF Follows
<1>6. KeepsUp(h)'
  <2>1. CASE page.pc = "closed" \/ AsksAgain BY <1>1, <2>1 DEF KeepsUp, AsksAgain
  <2>2. ASSUME NEW m \in Nat, Place(inbox, pub, pend, page.frameN, m), Caught(g, pend, live, page, load, m)
        PROVE  KeepsUp(h)'
    <3>1. pub'.n = pend'.n /\ pub' # NoFrame BY <1>0, <1>1, <1>2 DEF NextFrame, NoFrame
    <3>2. Place(inbox', pub', pend', page'.frameN, m)
      BY <1>0, <1>1, <1>2, <2>2, <3>1, PlaceDrained
    <3>3. m \in 0 .. pend.n BY <2>2 DEF Place
    <3>4. Caught(h, pend', live', page', load', m) BY <1>1, <1>3, <2>2, <3>3 DEF Caught
    <3> QED BY <3>2, <3>4 DEF KeepsUp
  <2> QED BY <2>1, <2>2 DEF Follows, KeepsUp
<1>7. Follows(h)' BY <1>1, <1>3, <1>5, <1>6 DEF Follows
<1> QED BY <1>7

\* A frame that gets there joins the queue; one that does not is missed by a page
\* that counts, and a page that neither counts nor holds a map is as far as it.
LEMMA RunsSent ==
  ASSUME TypeInv, Hears, SendFrame, Room \/ ~Uncounted, NEW g \in [Nat -> Values], Follows(g)
  PROVE  Follows(g)'
<1>0. inbox \in Seq(All) /\ pub \in Progress /\ pend \in Pending BY DEF SendFrame, TypeInv, TypeOK, All
<1>1. /\ pub # NoFrame /\ PublishProgress(pub) /\ pub' = NoFrame
      /\ UNCHANGED <<pend, live, page, refresh, load, conn>>
  BY DEF SendFrame, client
<1>2. inbox' = Append(inbox, pub) \/ (inbox' = inbox /\ ~Uncounted)
  BY <1>1 DEF PublishProgress
<1>3. Sends(g, pend', pub', live') BY <1>1 DEF Follows, Sends
<1>4. Queues(g, pend'.n, live'.seq, inbox')
  BY <1>0, <1>1, <1>2, QueuesSent DEF Follows, Sends, All
<1>5. KeepsUp(g)'
  <2>1. CASE page.pc = "closed" BY <1>1, <2>1 DEF KeepsUp
  <2>2. CASE AsksAgain
    <3>1. Coming(inbox, page.greeted) => Coming(inbox', page.greeted) BY <1>0, <1>2, ComingAppend DEF All
    <3> QED BY <1>1, <2>2, <3>1 DEF KeepsUp, AsksAgain
  <2>3. ASSUME NEW m \in Nat, Place(inbox, pub, pend, page.frameN, m), Caught(g, pend, live, page, load, m)
        PROVE  KeepsUp(g)'
    <3>1. CASE inbox' = Append(inbox, pub)
      <4>1. Place(inbox', NoFrame, pend, page.frameN, m) BY <1>0, <1>1, <2>3, <3>1, PlaceSent
      <4> QED BY <1>1, <2>3, <4>1 DEF KeepsUp
    <3>2. CASE inbox' = inbox /\ (page.frameN # 0 \/ ~NoProg(inbox))
      <4>1. Place(inbox', NoFrame, pend, page.frameN, m) BY <2>3, <3>2, PlaceLost
      <4> QED BY <1>1, <2>3, <4>1 DEF KeepsUp
    <3>3. CASE inbox' = inbox /\ page.frameN = 0 /\ NoProg(inbox) /\ ~Uncounted
      <4>1. load.pc # "answered" /\ page.map = NoMap BY <3>3 DEF Uncounted, NoProg, Prog
      <4>2. page.queue = Nothing BY <3>3 DEF Hears
      <4>3. pend.n \in Nat /\ pend.n \in 0 .. pend.n BY <1>0 DEF Pending
      <4>4. Place(inbox, NoFrame, pend, 0, pend.n) BY <3>3, <4>3 DEF Place, NoProg, First
      <4>5. Caught(g, pend, live, page, load, pend.n) BY <2>3, <4>1, <4>2 DEF Caught, Holds, Nothing
      <4> QED BY <1>1, <3>3, <4>3, <4>4, <4>5 DEF KeepsUp
    <3> QED BY <1>2, <3>1, <3>2, <3>3
  <2> QED BY <2>1, <2>2, <2>3 DEF Follows, KeepsUp
<1> QED BY <1>3, <1>4, <1>5 DEF Follows

-----------------------------------------------------------------------------
(* The page's steps.                                                       *)

\* A page that had its hello asks when the stream comes back, and one that had not
\* loses nothing it will not ask for.
LEMMA RunsConnected ==
  ASSUME TypeInv, Quiet, Hears, Subscribe \/ Disconnect, Disconnect => ~(Deaf /\ Missing),
         NEW g \in [Nat -> Values], Follows(g)
  PROVE  Follows(g)'
<1>0. page \in Page /\ inbox \in Seq(All) BY DEF TypeInv, TypeOK, All
<1>1. UNCHANGED <<pend, pub, live, refresh, load>> BY DEF Subscribe, Disconnect, server, client
<1>2. /\ Subscribe => conn = "down" /\ inbox' = <<[ev |-> "hello"]>>
      /\ Disconnect => conn = "up" /\ conn' = "down" /\ inbox' = <<>>
      /\ page'.greeted = page.greeted /\ page'.map = page.map /\ page'.queue = page.queue
      /\ page'.frameN = page.frameN /\ page'.fetching = page.fetching
  BY <1>0 DEF Subscribe, Disconnect, client, Page
<1>3. page.pc # "closed" BY <1>2 DEF Subscribe, Hears
<1>4. NoProg(<<>>) /\ NoProg(<<[ev |-> "hello"]>>) BY DEF NoProg, Prog
<1>5. NoProg(inbox') BY <1>2, <1>4
<1>6. Queues(g, pend'.n, live'.seq, inbox') BY <1>5, QueuesNone
<1>7. KeepsUp(g)'
  <2>1. CASE page.greeted
    <3>1. CASE Subscribe
      <4>1. Len(inbox') = 1 /\ inbox'[1].ev = "hello" BY <1>2, <3>1
      <4>2. 1 \in 1 .. Len(inbox') BY <4>1
      <4> QED BY <1>2, <2>1, <4>1, <4>2 DEF KeepsUp, AsksAgain, Coming, Asks
    <3>2. CASE Disconnect BY <1>2, <2>1, <3>2 DEF KeepsUp, AsksAgain
    <3> QED BY <3>1, <3>2
  <2>2. CASE ~page.greeted
    <3>1. \A i \in 1 .. Len(inbox) : inbox[i].ev = "hello"
      <4>1. CASE Subscribe
        <5>1. inbox = <<>> BY <1>2, <4>1 DEF Quiet
        <5> QED BY <5>1
      <4>2. CASE Disconnect BY <1>3, <2>2, <4>2 DEF Deaf, Missing
      <4> QED BY <4>1, <4>2
    <3>2. NoProg(inbox) /\ ~Coming(inbox, page.greeted)
      BY <2>2, <3>1 DEF NoProg, Prog, Coming, Asks
    <3>3. CASE \E i \in 1 .. Len(refresh) : refresh[i].hard BY <1>1, <3>3 DEF KeepsUp, AsksAgain
    <3>4. ASSUME NEW m \in Nat, Place(inbox, pub, pend, page.frameN, m), Caught(g, pend, live, page, load, m)
          PROVE  KeepsUp(g)'
      <4>1. Place(inbox', pub', pend', page'.frameN, m) BY <1>1, <1>2, <1>5, <3>2, <3>4, PlaceQuiet
      <4>2. Caught(g, pend', live', page', load', m) BY <1>1, <1>2, <3>4 DEF Caught
      <4> QED BY <4>1, <4>2 DEF KeepsUp
    <3> QED BY <1>3, <2>2, <3>2, <3>3, <3>4 DEF Follows, KeepsUp, AsksAgain
  <2> QED BY <2>1, <2>2
<1> QED BY <1>1, <1>6, <1>7 DEF Follows, Sends

\* The page hears the next frame of a round it keeps up with.
LEMMA RunsProgressed ==
  ASSUME TypeInv, OnProgress, ~page.fetching, NEW g \in [Nat -> Values], Follows(g)
  PROVE  KeepsUp(g)'
<1> DEFINE f == Head(inbox)
<1>0. /\ inbox \in Seq(All) /\ refresh \in Seq(Refresh) /\ page \in Page /\ pend \in Pending /\ live \in Map
  BY DEF TypeInv, TypeOK, All
<1>1. /\ inbox # <<>> /\ inbox' = Tail(inbox) /\ UNCHANGED <<server, refresh, conn>> /\ f \in Progress
      /\ page'.frameN = f.n /\ page'.fetching = page.fetching /\ page'.greeted = page.greeted
      /\ page'.pc = page.pc
  BY ProgressIs
<1>2. Gap(f) =>
        /\ page'.map = NoMap /\ page'.queue = Over(f.blocks, Nothing)
        /\ load'.pc = "answered" => load'.again /\ load.pc = "answered" /\ load'.map = load.map
                                       /\ load'.seq = load.seq
  BY ProgressIs
<1>3. /\ ~Gap(f) /\ page.map.seq # f.seq =>
           /\ page'.map = page.map /\ page'.queue = Over(f.blocks, page.queue)
           /\ load'.pc = "answered" => load' = load
      /\ ~Gap(f) /\ page.map.seq = f.seq =>
           /\ page'.map = [page.map EXCEPT !.vals = Over(f.blocks, page.map.vals)]
           /\ page'.queue = page.queue /\ load' = load
  BY ProgressIs
<1>5. f.ev = "progress" /\ f.seq # 0 /\ f.n # 0 /\ f.n \in Nat BY <1>1 DEF Progress
<1>6. Len(inbox) \in Nat \ {0} /\ f = inbox[1] BY <1>0, <1>1, TailIs
<1> HIDE DEF f
<1>8. CASE page.pc = "closed" BY <1>1, <1>8 DEF KeepsUp
<1>9. CASE AsksAgain
  <2>1. \A greeted : Coming(inbox, greeted) => Coming(inbox', greeted)
    BY <1>0, <1>1, <1>5, ComingTail DEF f, Asks
  <2> QED BY <1>1, <1>9, <2>1 DEF KeepsUp, AsksAgain
<1>10. ASSUME ~AsksAgain, NEW m \in Nat, Place(inbox, pub, pend, page.frameN, m),
              Caught(g, pend, live, page, load, m)
       PROVE  KeepsUp(g)'
  <2>1. Ours(g, pend.n, live.seq, f) BY <1>5, <1>6 DEF Follows, Queues, Prog
  <2>2. ~Gap(f) => f.n = m + 1
    <3>1. CASE page.frameN # 0 BY <1>10, <3>1 DEF Gap, Place
    <3>2. CASE page.frameN = 0
      <4>1. First(inbox, 1) BY <1>5, <1>6 DEF First, Prog
      <4> QED BY <1>6, <1>10, <3>2, <4>1 DEF Place
    <3> QED BY <3>1, <3>2
  <2>3. f.n \in 1 .. pend.n /\ f.blocks = g[f.n] /\ f.seq = live.seq BY <2>1 DEF Ours
  <2>4. Place(inbox', pub', pend', page'.frameN, f.n)
    <3>1. f.n \in 0 .. pend.n BY <1>5, <2>3
    <3> QED BY <1>1, <1>5, <3>1 DEF Place, server
  <2>5. ASSUME NEW b \in Block, Still(g, pend, f.n, b)
        PROVE  /\ f.blocks[b] # 0 => f.blocks[b] = live.vals[b]
               /\ f.blocks[b] = 0 /\ ~Gap(f) => Still(g, pend, m, b)
    BY <1>0, <1>10, <2>2, <2>3, <2>5, StillBefore DEF Follows
  <2>6. \A old \in Values : \A b \in Block : Over(f.blocks, old)[b] = IF f.blocks[b] = 0 THEN old[b] ELSE f.blocks[b]
    BY DEF Over
  <2>7. page.queue \in Values /\ page.map \in Map /\ page.map.vals \in Values /\ Nothing \in Values
    BY <1>0, NothingType DEF Page, Map
  <2>8. Caught(g, pend, live, page', load', f.n)
    <3>1. CASE Gap(f)
      <4>1. page'.map = NoMap /\ (load'.pc = "answered" => load'.again)
            /\ (Holds(load') => load'.map.seq = live.seq)
        BY <1>2, <1>10, <3>1 DEF Caught, Holds
      <4>2. ~page'.fetching BY <1>1
      <4>3. ASSUME NEW b \in Block, Still(g, pend, f.n, b) PROVE page'.queue[b] \in {0, live.vals[b]}
        <5>1. page'.queue[b] = IF f.blocks[b] = 0 THEN Nothing[b] ELSE f.blocks[b] BY <1>2, <2>6, <2>7, <3>1
        <5>2. Nothing[b] = 0 BY DEF Nothing
        <5> QED BY <2>5, <4>3, <5>1, <5>2
      <4> QED BY <4>1, <4>2, <4>3 DEF Caught, Holds
    <3>2. CASE ~Gap(f) /\ page.map.seq # f.seq
      <4>1. page'.map = page.map /\ page'.map = NoMap BY <1>3, <1>10, <2>3, <3>2 DEF Caught
      <4>2. ~page'.fetching BY <1>1
      <4>3. load'.pc = "answered" => load' = load BY <1>3, <3>2
      <4>4. ASSUME NEW b \in Block, Still(g, pend, f.n, b)
            PROVE  /\ page'.queue[b] \in {0, live.vals[b]}
                   /\ Holds(load') /\ ~load'.again /\ page'.queue[b] = 0 => load'.map.vals[b] = live.vals[b]
        <5>1. page'.queue[b] = IF f.blocks[b] = 0 THEN page.queue[b] ELSE f.blocks[b] BY <1>3, <2>6, <2>7, <3>2
        <5>2. CASE f.blocks[b] # 0 BY <2>5, <4>4, <5>1, <5>2
        <5>3. CASE f.blocks[b] = 0
          <6>1. Still(g, pend, m, b) BY <2>5, <3>2, <4>4, <5>3
          <6> QED BY <1>10, <4>3, <5>1, <5>3, <6>1 DEF Caught, Holds
        <5> QED BY <5>2, <5>3
      <4>5. Holds(load') => load'.map.seq = live.seq BY <1>10, <4>3 DEF Caught, Holds
      <4> QED BY <4>1, <4>2, <4>4, <4>5 DEF Caught
    <3>3. CASE ~Gap(f) /\ page.map.seq = f.seq
      <4>1. /\ page'.map = [page.map EXCEPT !.vals = Over(f.blocks, page.map.vals)]
            /\ page'.queue = page.queue /\ load' = load
        BY <1>3, <3>3
      <4>2. page.map # NoMap BY <1>5, <3>3 DEF NoMap
      <4>3. page.map.seq = live.seq /\ page.queue = Nothing /\ load.pc = "none" BY <1>10, <4>2 DEF Caught
      <4>4. page'.map.seq = live.seq /\ page'.map.vals = Over(f.blocks, page.map.vals)
        BY <2>7, <4>1, <4>3 DEF Map
      <4>5. ASSUME NEW b \in Block, Still(g, pend, f.n, b)
            PROVE  page'.queue[b] = 0 /\ page'.map.vals[b] = live.vals[b]
        <5>1. page'.map.vals[b] = IF f.blocks[b] = 0 THEN page.map.vals[b] ELSE f.blocks[b] BY <2>6, <2>7, <4>4
        <5>2. page'.queue[b] = 0 BY <4>1, <4>3 DEF Nothing
        <5>3. CASE f.blocks[b] # 0 BY <2>5, <4>5, <5>1, <5>2, <5>3
        <5>4. CASE f.blocks[b] = 0
          <6>1. Still(g, pend, m, b) BY <2>5, <3>3, <4>5, <5>4
          <6> QED BY <1>10, <4>2, <5>1, <5>2, <5>4, <6>1 DEF Caught
        <5> QED BY <5>3, <5>4
      <4>6. ~page'.fetching BY <1>1
      <4> QED BY <4>1, <4>3, <4>4, <4>5, <4>6 DEF Caught, Holds
    <3> QED BY <3>1, <3>2, <3>3
  <2>9. pend' = pend /\ live' = live BY <1>1 DEF server
  <2> QED BY <1>5, <2>4, <2>8, <2>9 DEF KeepsUp
<1> QED BY <1>8, <1>9, <1>10 DEF Follows, KeepsUp

\* The page hears an event: a start asks for little, any other for everything.
LEMMA RunsHeard ==
  ASSUME TypeInv, OnHello \/ OnState \/ OnResync,
         NEW g \in [Nat -> Values], Follows(g)
  PROVE  KeepsUp(g)'
<1>0. inbox \in Seq(All) /\ refresh \in Seq(Refresh) /\ page \in Page BY DEF TypeInv, TypeOK, All
<1>1. UNCHANGED <<server, load, conn>> BY DEF OnHello, OnState, OnResync
<1>2. /\ inbox # <<>> /\ inbox' = Tail(inbox) /\ Head(inbox).ev # "progress"
      /\ OnHello \/ Head(inbox).ev \in {"start", "end", "resync"}
  BY DEF OnHello, OnState, OnResync, Arrives
<1>3. \A greeted : ~Asks(Head(inbox), greeted) => (Coming(inbox, greeted) => Coming(inbox', greeted))
  BY <1>0, <1>2, ComingTail
<1>4. /\ page'.map = page.map /\ page'.queue = page.queue /\ page'.frameN = page.frameN
      /\ page'.fetching = page.fetching /\ page'.pc = page.pc /\ (page.greeted => page'.greeted)
  BY <1>0 DEF OnHello, OnState, OnResync, Page
<1>5. \A m \in Nat : Place(inbox, pub, pend, page.frameN, m) => Place(inbox', pub', pend', page'.frameN, m)
  BY <1>0, <1>1, <1>2, <1>4, PlaceHeard DEF server
<1>6. \A m \in Nat : Caught(g, pend, live, page, load, m) => Caught(g, pend', live', page', load', m)
  BY <1>1, <1>4 DEF Caught, server
<1>7. ASSUME NEW r \in Refresh, r.hard, refresh' = Append(refresh, r) PROVE KeepsUp(g)'
  <2>1. \E i \in 1 .. Len(refresh') : refresh'[i].hard BY <1>0, <1>7, HardAppend
  <2> QED BY <1>4, <1>7, <2>1 DEF KeepsUp, AsksAgain
<1>8. CASE OnHello
  <2>1. CASE page.greeted
    <3>1. Asking(TRUE) \in Refresh /\ Asking(TRUE).hard BY AskingType DEF Asking
    <3>2. refresh' = Append(refresh, Asking(TRUE)) BY <1>8, <2>1 DEF OnHello, HelloRefresh
    <3> QED BY <1>7, <2>1, <3>1, <3>2
  <2>2. CASE ~page.greeted
    <3>1. refresh' = refresh BY <1>8, <2>2 DEF OnHello, HelloRefresh
    <3>2. Coming(inbox, page.greeted) => Coming(inbox', page.greeted)
      <4>1. ~Asks(Head(inbox), page.greeted) BY <1>8, <2>2 DEF OnHello, Arrives, Asks
      <4> QED BY <1>3, <4>1
    <3>3. Coming(inbox', page.greeted) => Coming(inbox', page'.greeted) BY <2>2 DEF Coming, Asks
    <3>4. AsksAgain => AsksAgain' BY <1>1, <2>2, <3>1, <3>2, <3>3 DEF AsksAgain
    <3> QED BY <1>4, <1>5, <1>6, <3>4 DEF Follows, KeepsUp
  <2> QED BY <2>1, <2>2
<1>9. CASE OnState \/ OnResync
  <2>3. CASE refresh' = Append(refresh, Asking(TRUE))
    <3>1. Asking(TRUE) \in Refresh /\ Asking(TRUE).hard BY AskingType DEF Asking
    <3> QED BY <1>7, <2>3, <3>1
  <2>4. CASE refresh' = Append(refresh, AskingAtEnd)
    <3>1. AskingAtEnd \in Refresh /\ AskingAtEnd.hard BY AskingType DEF AskingAtEnd
    <3> QED BY <1>7, <2>4, <3>1
  <2>5. CASE Arrives("start") /\ page' = page /\ refresh' = Append(refresh, Asking(FALSE))
    <3>1. Asking(FALSE) \in Refresh BY AskingType
    <3>2. (\E i \in 1 .. Len(refresh) : refresh[i].hard) => \E i \in 1 .. Len(refresh') : refresh'[i].hard
      BY <1>0, <2>5, <3>1, HardAppend
    <3>3. Coming(inbox, page.greeted) => Coming(inbox', page.greeted)
      <4>1. ~Asks(Head(inbox), page.greeted) BY <2>5 DEF Arrives, Asks
      <4> QED BY <1>3, <4>1
    <3>4. AsksAgain => AsksAgain' BY <1>1, <2>5, <3>2, <3>3 DEF AsksAgain
    <3> QED BY <1>4, <1>5, <1>6, <3>4 DEF Follows, KeepsUp
  <2> QED BY <1>9, <2>3, <2>4, <2>5 DEF OnState, OnResync
<1> QED BY <1>8, <1>9

\* The page opens, and what it asked for comes back.
LEMMA RunsFetched ==
  ASSUME TypeInv, Hears, Listed, DetailReturns => load = NoLoad, NEW g \in [Nat -> Values], Follows(g),
         Open \/ ListReturns \/ DetailReturns \/ ProfilesReturn \/ LoadReturns
  PROVE  KeepsUp(g)'
<1>0. /\ inbox \in Seq(All) /\ refresh \in Seq(Refresh) /\ page \in Page /\ load \in Load
      /\ pend \in Pending /\ pub \in Progress \cup {NoFrame}
  BY DEF TypeInv, TypeOK, All
<1>1. UNCHANGED <<pend, pub, live, conn, inbox>>
  BY DEF Open, ListReturns, DetailReturns, ProfilesReturn, LoadReturns, server
<1>2. ASSUME page'.map = NoMap, page'.queue = Nothing, page'.frameN = 0, load'.pc = "none"
      PROVE  KeepsUp(g)'
  <2>1. \A i \in 1 .. Len(inbox) : Prog(inbox, i) => inbox[i].n \in 1 .. pend.n
    BY DEF Follows, Queues, Ours
  <2>2. pub # NoFrame => pub.n \in 1 .. pend.n BY DEF Follows, Sends, Ours
  <2>3. PICK m \in Nat : Place(inbox, pub, pend, 0, m) BY <1>0, <2>1, <2>2, PlaceThere
  <2>4. Caught(g, pend', live', page', load', m) BY <1>2, CaughtBlank
  <2> QED BY <1>1, <1>2, <2>3, <2>4 DEF KeepsUp
<1>3. CASE Open
  <2>1. Len(refresh') = 1 /\ refresh'[1].hard BY <1>3 DEF Open, Asking
  <2>2. 1 \in 1 .. Len(refresh') BY <2>1
  <2> QED BY <2>1, <2>2 DEF KeepsUp, AsksAgain
<1>4. CASE ListReturns
  <2>1. refresh # <<>> /\ Head(refresh) \in Refresh /\ Head(refresh).pc = "list" BY <1>0, <1>4 DEF ListReturns, RefreshAt
  <2>2. Len(refresh) \in Nat \ {0} /\ Head(refresh) = refresh[1] BY <1>0, <2>1, TailIs
  <2>3. Head(refresh).hard BY <2>1, <2>2 DEF Listed
  <2> DEFINE r == [Head(refresh) EXCEPT !.pc = "detail"]
  <2>4. r \in Refresh /\ r.hard BY <2>1, <2>3 DEF Refresh
  <2>5. refresh' = <<r>> \o Tail(refresh) BY <1>4 DEF ListReturns, Became
  <2> HIDE DEF r
  <2>6. Len(refresh') = Len(refresh) /\ refresh'[1] = r BY <1>0, <2>1, <2>4, <2>5, BecameIs
  <2>7. \E i \in 1 .. Len(refresh') : refresh'[i].hard BY <2>2, <2>4, <2>6
  <2> QED BY <2>7 DEF KeepsUp, AsksAgain
<1>5. CASE DetailReturns
  <2>1. /\ refresh # <<>> /\ Head(refresh) \in Refresh /\ refresh' = Tail(refresh)
        /\ load.pc = "none" /\ load' = load
    BY <1>0, <1>5 DEF DetailReturns, RefreshAt, NoLoad
  <2> DEFINE h == Head(refresh)  p == [page EXCEPT !.detail = h.detail]
  <2>2. /\ Len(refresh) \in Nat \ {0} /\ Len(refresh') = Len(refresh) - 1
        /\ \A i \in 1 .. Len(refresh') : refresh'[i] = refresh[i + 1]
        /\ h = refresh[1]
    BY <1>0, <2>1, TailIs
  <2>3. /\ p \in Page /\ p.greeted = page.greeted /\ p.map = page.map /\ p.queue = page.queue
        /\ p.frameN = page.frameN /\ p.fetching = page.fetching /\ p.pc = page.pc
    BY <1>0, <2>1 DEF Page, Refresh
  <2>4. page' = IF h.hard \/ ~page.profile THEN [DropLive(p) EXCEPT !.profile = FALSE, !.fetching = TRUE] ELSE p
    BY <1>5 DEF DetailReturns
  <2> HIDE DEF h, p
  <2>5. page'.greeted = page.greeted BY <2>3, <2>4 DEF DropLive, Page
  <2>6. page.pc # "closed" BY <2>1 DEF Hears
  <2>7. CASE h.hard \/ ~page.profile
    <3>1. page'.map = NoMap /\ page'.queue = Nothing /\ page'.frameN = 0 BY <2>3, <2>4, <2>7 DEF DropLive, Page
    <3> QED BY <1>2, <2>1, <3>1
  <2>8. CASE ~(h.hard \/ ~page.profile)
    <3>1. page' = p BY <2>4, <2>8
    <3>2. CASE AsksAgain
      <4>1. ASSUME NEW i \in 1 .. Len(refresh), refresh[i].hard PROVE \E j \in 1 .. Len(refresh') : refresh'[j].hard
        <5>1. i # 1 BY <2>2, <2>8, <4>1
        <5>2. i - 1 \in 1 .. Len(refresh') /\ (i - 1) + 1 = i BY <2>2, <5>1
        <5>3. refresh'[i - 1] = refresh[i] BY <2>2, <5>2
        <5> QED BY <4>1, <5>2, <5>3
      <4> QED BY <1>1, <2>5, <3>2, <4>1 DEF KeepsUp, AsksAgain
    <3>3. ASSUME NEW m \in Nat, Place(inbox, pub, pend, page.frameN, m), Caught(g, pend, live, page, load, m)
          PROVE  KeepsUp(g)'
      <4>1. Place(inbox', pub', pend', page'.frameN, m) BY <1>1, <2>3, <3>1, <3>3
      <4>2. Caught(g, pend', live', page', load', m) BY <1>1, <2>1, <2>3, <3>1, <3>3 DEF Caught
      <4> QED BY <4>1, <4>2 DEF KeepsUp
    <3> QED BY <2>6, <3>2, <3>3 DEF Follows, KeepsUp
  <2> QED BY <2>7, <2>8
<1>6. CASE ProfilesReturn \/ LoadReturns
  <2>1. /\ page'.greeted = page.greeted /\ page'.pc = page.pc /\ page'.frameN = page.frameN
        /\ refresh' = refresh
    BY <1>0, <1>6 DEF ProfilesReturn, LoadReturns, Page
  <2>2. CASE page.pc = "closed" \/ AsksAgain BY <1>1, <2>1, <2>2 DEF KeepsUp, AsksAgain
  <2>3. ASSUME NEW m \in Nat, Place(inbox, pub, pend, page.frameN, m), Caught(g, pend, live, page, load, m)
        PROVE  KeepsUp(g)'
    <3>1. Place(inbox', pub', pend', page'.frameN, m) BY <1>1, <2>1, <2>3
    <3>2. CASE ProfilesReturn
      <4>1. page'.map = page.map /\ page'.queue = page.queue /\ ~page'.fetching /\ page.fetching
        BY <1>0, <3>2 DEF ProfilesReturn, Page
      <4>2. page.map = NoMap /\ load.pc = "none" BY <2>3, <4>1 DEF Caught
      <4>3. load'.pc # "answered" BY <3>2, <4>2, LoadLiveIs DEF ProfilesReturn
      <4>4. Caught(g, pend, live, page', load', m) BY <2>3, <4>1, <4>2, <4>3 DEF Caught, Holds
      <4> QED BY <1>1, <3>1, <4>4 DEF KeepsUp
    <3>3. CASE LoadReturns
      <4>1. load.pc = "answered" /\ page'.fetching = page.fetching BY <1>0, <3>3 DEF LoadReturns, Page
      <4>2. page.map = NoMap /\ ~page.fetching BY <2>3, <4>1 DEF Caught
      <4>3. CASE load.again
        <5>1. page' = page /\ load'.pc = "asked"
          BY <3>3, <4>3, LoadLiveIs DEF LoadReturns, NoLoad
        <5>2. Caught(g, pend, live, page', load', m) BY <2>3, <4>2, <5>1 DEF Caught, Holds
        <5> QED BY <1>1, <3>1, <5>2 DEF KeepsUp
      <4>4. CASE ~load.again /\ ~Wanted(load.map)
        <5>1. load'.pc = "none" /\ page' = [page EXCEPT !.queue = Nothing]
          BY <3>3, <4>4 DEF LoadReturns, NoLoad
        <5>2. page'.map = NoMap /\ page'.queue = Nothing BY <1>0, <4>2, <5>1 DEF Page
        <5>3. Caught(g, pend', live', page', load', m) BY <5>1, <5>2, CaughtBlank
        <5> QED BY <3>1, <5>3 DEF KeepsUp
      <4>5. CASE ~load.again /\ Wanted(load.map)
        <5> DEFINE v == Over(page.queue, load.map.vals)
        <5>0. Holds(load) BY <4>1, <4>5 DEF Wanted, Holds
        <5>1. /\ load'.pc = "none"
              /\ page' = [page EXCEPT !.map = [load.map EXCEPT !.vals = v], !.queue = Nothing]
          BY <3>3, <4>5 DEF LoadReturns, NoLoad
        <5>2. \A b \in Block : v[b] = IF page.queue[b] = 0 THEN load.map.vals[b] ELSE page.queue[b] BY DEF Over
        <5> HIDE DEF v
        <5>3. /\ page'.map = [load.map EXCEPT !.vals = v] /\ page'.queue = Nothing /\ page'.fetching = page.fetching
          BY <1>0, <5>1 DEF Page
        <5>4. page'.map.seq = live.seq /\ page'.map.vals = v BY <1>0, <2>3, <5>0, <5>3 DEF Caught, Load, Map
        <5>5. ASSUME NEW b \in Block, Still(g, pend, m, b)
              PROVE  page'.queue[b] = 0 /\ page'.map.vals[b] = live.vals[b]
          <6>1. page'.queue[b] = 0 BY <5>3 DEF Nothing
          <6>2. page'.map.vals[b] = live.vals[b] BY <2>3, <4>5, <5>0, <5>2, <5>4, <5>5 DEF Caught
          <6> QED BY <6>1, <6>2
        <5>6. Caught(g, pend, live, page', load', m) BY <4>2, <5>1, <5>3, <5>4, <5>5 DEF Caught, Holds
        <5> QED BY <1>1, <3>1, <5>6 DEF KeepsUp
      <4> QED BY <4>3, <4>4, <4>5
    <3> QED BY <1>6, <3>2, <3>3
  <2> QED BY <2>2, <2>3 DEF Follows, KeepsUp
<1> QED BY <1>3, <1>4, <1>5, <1>6

\* The daemon answers.
LEMMA RunsAnswered ==
  ASSUME TypeInv, Answer, NEW g \in [Nat -> Values], Follows(g)
  PROVE  KeepsUp(g)'
<1>0. refresh \in Seq(Refresh) /\ load \in Load BY DEF TypeInv, TypeOK
<1>1. UNCHANGED <<pend, pub, live, page, conn, inbox>> BY DEF Answer, DetailAnswered, LoadAnswered, server
<1>2. CASE DetailAnswered
  <2>1. refresh # <<>> /\ Head(refresh) \in Refresh /\ load' = load BY <1>0, <1>2 DEF DetailAnswered, RefreshAt
  <2>2. [scanning |-> Scanning, live |-> snap] \in Detail BY DEF Detail, Scanning, TypeInv, TypeOK
  <2> DEFINE r == [Head(refresh) EXCEPT !.pc = "answered", !.detail = [scanning |-> Scanning, live |-> snap]]
  <2>3. r \in Refresh /\ r.hard = Head(refresh).hard BY <2>1, <2>2 DEF Refresh
  <2>4. refresh' = <<r>> \o Tail(refresh) BY <1>2 DEF DetailAnswered, Became
  <2> HIDE DEF r
  <2>5. (\E i \in 1 .. Len(refresh) : refresh[i].hard) => \E i \in 1 .. Len(refresh') : refresh'[i].hard
    BY <1>0, <2>1, <2>3, <2>4, HardBecame
  <2> QED BY <1>1, <2>1, <2>5 DEF Follows, KeepsUp, AsksAgain
<1>3. CASE LoadAnswered
  <2>1. /\ load.pc = "asked" /\ load'.pc = "answered" /\ load'.map = live /\ refresh' = refresh
    BY <1>0, <1>3 DEF LoadAnswered, Load
  <2>2. AsksAgain => AsksAgain' BY <1>1, <2>1 DEF AsksAgain
  <2>3. \A m : Caught(g, pend, live, page, load, m) => Caught(g, pend, live, page, load', m)
    BY <2>1 DEF Caught, Holds
  <2> QED BY <1>1, <2>2, <2>3 DEF Follows, KeepsUp
<1> QED BY <1>2, <1>3 DEF Answer

LEMMA RunsNext ==
  ASSUME QuietInv, Idles, Hears, Opens, Listed, Runs, [Next]_vars
  PROVE  Runs'
<1> USE DEF QuietInv
<1>0. TypeInv' /\ round \in Round BY TypesNext DEF TypeInv, TypeOK
<1> SUFFICES ASSUME round'.pc = "run", ~raced' PROVE Runs' BY DEF Runs
<1>1. CASE OpenRound
  <2>1. ~raced BY <1>0, <1>1, Unraced DEF OpenRound, RoundAt
  <2> QED BY <1>1, <2>1, RunsOpened DEF Runs
<1>2. CASE ScanStart \/ EndRound \/ Restart
  BY <1>0, <1>2 DEF Restart, ScanStart, EndRound, Finish, RoundGoes, Round
<1>3. CASE ~OpenRound /\ ~ScanStart /\ ~EndRound /\ ~Restart
  <2>0. round.pc = "run" BY <1>3, PcStays
  <2>1. /\ ~raced
        /\ OnProgress => ~page.fetching
        /\ DetailReturns => load = NoLoad
        /\ SendFrame => Room \/ ~Uncounted
        /\ Disconnect => ~(Deaf /\ Missing)
    BY <2>0, Unraced
  <2>2. live.seq = past + 1 /\ ender = "none" BY <2>0, <2>1 DEF Runs
  <2>3. PICK g \in [Nat -> Values] : Follows(g) BY <2>0, <2>1 DEF Runs
  <2>4. ASSUME live'.seq = live.seq, UNCHANGED <<past, ender>>, \E h \in [Nat -> Values] : Follows(h)'
        PROVE  Runs'
    BY <2>2, <2>4 DEF Runs
  <2>5. ASSUME NEW b \in Block, OnBlock(b) PROVE Runs'
    <3>1. UNCHANGED <<past, ender>> BY <2>5 DEF OnBlock
    <3> QED BY <1>0, <2>3, <2>4, <2>5, <3>1, RunsWritten
  <2>6. CASE OnLive
    <3>1. UNCHANGED <<past, ender, live>> BY <2>6 DEF OnLive
    <3>2. Follows(g)' BY <2>2, <2>3, <2>6, RunsSnapped
    <3> QED BY <2>4, <3>1, <3>2
  <2>7. CASE Drain
    <3>1. UNCHANGED <<past, ender, live>> BY <2>7 DEF Drain
    <3>2. \E h \in [Nat -> Values] : Follows(h)' BY <1>0, <2>3, <2>7, RunsDrained
    <3> QED BY <2>4, <3>1, <3>2
  <2>8. CASE SendFrame
    <3>1. UNCHANGED <<past, ender, live>> BY <2>8 DEF SendFrame
    <3>2. Follows(g)' BY <2>1, <2>3, <2>8, RunsSent
    <3> QED BY <2>4, <3>1, <3>2
  <2>9. CASE Subscribe \/ Disconnect
    <3>1. UNCHANGED <<past, ender, live>> BY <2>9 DEF Subscribe, Disconnect, server
    <3>2. Follows(g)' BY <2>1, <2>3, <2>9, RunsConnected
    <3> QED BY <2>4, <3>1, <3>2
  <2>10. CASE DropPending \/ ScanEnd BY <2>2, <2>10 DEF DropPending, ScanEnd
  <2>11. CASE PageStep \/ Answer
    <3>1. UNCHANGED server
      BY <2>11 DEF PageStep, Open, OnHello, OnState, OnResync, OnProgress, ListReturns, DetailReturns,
        ProfilesReturn, LoadReturns, Answer, DetailAnswered, LoadAnswered
    <3>2. inbox' = inbox \/ (inbox # <<>> /\ inbox' = Tail(inbox))
      BY <2>11 DEF PageStep, Open, OnHello, OnState, OnResync, OnProgress, ListReturns, DetailReturns,
        ProfilesReturn, LoadReturns, Arrives, Answer, DetailAnswered, LoadAnswered
    <3>3. KeepsUp(g)'
      <4>1. CASE OnProgress BY <2>1, <2>3, <4>1, RunsProgressed
      <4>2. CASE OnHello \/ OnState \/ OnResync BY <2>3, <4>2, RunsHeard
      <4>3. CASE Open \/ ListReturns \/ DetailReturns \/ ProfilesReturn \/ LoadReturns
        BY <2>1, <2>3, <4>3, RunsFetched
      <4>4. CASE Answer BY <2>3, <4>4, RunsAnswered
      <4> QED BY <2>11, <4>1, <4>2, <4>3, <4>4 DEF PageStep
    <3>4. Queues(g, pend.n, live.seq, inbox')
      <4>1. inbox \in Seq(All) BY DEF TypeInv, TypeOK, All
      <4> QED BY <2>3, <3>2, <4>1, QueuesTail DEF Follows
    <3>5. Follows(g)' BY <2>3, <3>1, <3>3, <3>4 DEF Follows, server
    <3> QED BY <2>4, <3>1, <3>5 DEF server
  <2>12. CASE UNCHANGED vars
    BY <2>0, <2>1, <2>12 DEF vars, server, client, history, Runs, Follows, KeepsUp, AsksAgain
  <2> QED BY <1>3, <2>5, <2>6, <2>7, <2>8, <2>9, <2>10, <2>11, <2>12 DEF Next, RoundStep, Publisher
<1> QED BY <1>1, <1>2, <1>3

WholeInv == QuietInv /\ Idles /\ Hears /\ Opens /\ Listed /\ Runs

\* The map a page shows of the running round, once it has heard the newest frame
\* and waits for no answer, is the daemon's, block for block: no frame that a
\* full channel lost, and no snapshot that crossed a frame on its way, leaves a
\* hole or an older value (app.js:1006-1008).  The four races that do leave one,
\* and no other, set raced.
THEOREM MapsAreWhole == Spec => []MapWhole
<1>1. Init => WholeInv
  <2>1. Init => Listed /\ Runs /\ Opens BY DEF Init, Listed, Runs, Opens
  <2> QED BY <2>1, CorrectedInit DEF CorrectedInv, WholeInv
<1>2. WholeInv /\ [Next]_vars => WholeInv'
  BY QuietNext, IdlesNext, HearsNext, OpensNext, ListedNext, RunsNext DEF WholeInv, QuietInv
<1>3. WholeInv => MapWhole
  <2> SUFFICES ASSUME WholeInv, Settled, ~raced, page.map # NoMap, round.pc = "run", pub = NoFrame,
                      page.frameN = pend.n, pend.blocks = Nothing
               PROVE  page.map = live
    BY DEF MapWhole
  <2>0. page \in Page /\ page.map \in Map /\ live \in Map /\ pend.n \in Nat
    BY DEF WholeInv, QuietInv, TypeInv, TypeOK, Page, Pending
  <2>1. PICK g \in [Nat -> Values] : Follows(g) BY DEF WholeInv, Runs
  <2>2. page.pc # "closed" /\ ~AsksAgain BY DEF Settled, AsksAgain, Coming
  <2>3. PICK m \in Nat : Place(inbox, pub, pend, page.frameN, m) /\ Caught(g, pend, live, page, load, m)
    BY <2>1, <2>2 DEF Follows, KeepsUp
  <2>4. m = pend.n
    <3>1. NoProg(inbox) BY DEF Settled, NoProg
    <3> QED BY <2>3, <3>1 DEF Place
  <2>5. \A b \in Block : Still(g, pend, m, b)
    <3>1. \A k \in m + 1 .. pend.n : FALSE BY <2>0, <2>4
    <3> QED BY <3>1 DEF Still, Nothing
  <2>6. page.map.seq = live.seq /\ \A b \in Block : page.map.vals[b] = live.vals[b]
    BY <2>3, <2>5 DEF Caught
  <2>7. page.map.vals = live.vals
    <3>1. page.map.vals \in Values /\ live.vals \in Values BY <2>0 DEF Map
    <3> QED BY <2>6, <3>1 DEF Values
  <2> QED BY <2>0, <2>6, <2>7 DEF Map
<1> QED BY <1>1, <1>2, <1>3, PTL DEF Spec
=============================================================================
