-------------------------------- MODULE Stream --------------------------------
(***************************************************************************)
(* What a page sees of a round: the round hands its blocks and snapshots   *)
(* to the publisher, the publisher sends them at its own pace through the  *)
(* hub to the page's event stream, and the page fills a copy of the map in *)
(* from them, beside what it fetches over HTTP.  One disk, the page's      *)
(* selected one, and one page.                                             *)
(*                                                                         *)
(* One action is one critical section of a mutex of the daemon, one run of *)
(* the page's event loop up to its next await, or one request answered.    *)
(* A client's channel, the connection and EventSource's queue are one      *)
(* sequence, inbox: what is in any of them is lost with the connection.    *)
(* A request of the page is answered at some moment after it was sent, and *)
(* the answers to its refreshes come in the order it asked.                *)
(***************************************************************************)
EXTENDS Naturals, Sequences

CONSTANTS
  Block,         \* blocks of the disk
  Cap,           \* frames a client's channel holds
  MaxRounds,     \* bound on the rounds that begin
  MaxWrites,     \* bound on the values the rounds record
  MaxFrames,     \* bound on the frames that are sent
  MaxRefresh,    \* bound on the refreshes a page has under way
  MaxBreaks      \* bound on lost connections and restarts of the daemon

ASSUME StreamAssumption ==
  /\ Cap \in Nat \ {0}
  /\ MaxRounds \in Nat /\ MaxWrites \in Nat /\ MaxFrames \in Nat
  /\ MaxRefresh \in Nat /\ MaxBreaks \in Nat

VARIABLES
  round,    \* the goroutine of the disk's round
  ender,    \* how far the round that ended last has got with saying so
  past,     \* RoundSeq: the number of the last round recorded
  live,     \* st.live, the supervisor's copy of the running round's map
  snap,     \* st.Live: the round its newest snapshot is of, 0 if it has none
  pend,     \* the disk's pendingFrame
  pub,      \* what RunPublisher has drained and not yet published
  conn,     \* whether the page's stream is subscribed to the hub
  inbox,    \* what the page's stream has still to deliver
  page,     \* the page's state
  refresh,  \* its refreshes that wait for the list or the detail
  load,     \* its loadLive, if one is in flight
  breaks,   \* connections lost and restarts so far
  stale,    \* history: since the last round ended something has passed the page by
            \* that it was never told of
  raced     \* history: the running round has met one of the races by which a page
            \* may lose blocks, or some of an earlier round was left when it began

server == <<round, ender, past, live, snap, pend, pub>>
client == <<page, refresh, load>>
history == <<stale, raced>>
vars == <<server, client, conn, inbox, breaks, history>>

-----------------------------------------------------------------------------
(* What the variables hold.                                                *)

\* The k-th value the rounds record is the number k, and 0 is a block that has
\* none: a map, or what a frame carries, is the newest number of each block.
Values == [Block -> 0 .. MaxWrites]
Nothing == [b \in Block |-> 0]
Over(new, old) == [b \in Block |-> IF new[b] = 0 THEN old[b] ELSE new[b]]

Seq0 == 0 .. MaxRounds
Map == [seq : Seq0, vals : Values]
NoMap == [seq |-> 0, vals |-> Nothing]

RoundPc == {"idle", "open", "run"}
Round == [pc : RoundPc, begun : 0 .. MaxRounds, writes : 0 .. MaxWrites,
          frames : 0 .. MaxFrames]
Scanning == round.pc \in {"open", "run"}
\* No round runs, and the last one has said so.
Between == round.pc = "idle" /\ ender = "none"

\* A slot that has just been made is the same as none.
Pending == [has : BOOLEAN, dirty : BOOLEAN, blocks : Values, n : 0 .. MaxFrames, seq : Seq0]
NoPending == [has |-> FALSE, dirty |-> FALSE, blocks |-> Nothing, n |-> 0, seq |-> 0]

\* Frames count from 1.
Progress == [ev : {"progress"}, seq : Seq0 \ {0}, n : 1 .. MaxFrames, blocks : Values]
Event == [ev : {"hello", "start", "end", "resync"}]
NoFrame == [ev |-> "none"]

\* state.detail (scanning, and the round of its live frame), state.profile,
\* liveProfile, liveFrameN (0 is null) and liveQueue; whether a loadProfiles
\* waits for its fetches; and how far boot has come.
Detail == [scanning : BOOLEAN, live : Seq0]
Page == [pc : {"closed", "boot", "on"}, greeted : BOOLEAN, detail : Detail, profile : BOOLEAN,
         map : Map, frameN : 0 .. MaxFrames, queue : Values, fetching : BOOLEAN]
Refresh == [pc : {"list", "detail", "answered"}, hard : BOOLEAN, detail : Detail]
Load == [pc : {"none", "asked", "answered"}, seq : Seq0, again : BOOLEAN, map : Map]
NoLoad == [pc |-> "none", seq |-> 0, again |-> FALSE, map |-> NoMap]
NoDetail == [scanning |-> FALSE, live |-> 0]

Init ==
  /\ round = [pc |-> "idle", begun |-> 0, writes |-> 0, frames |-> 0]
  /\ past = 0
  /\ live = NoMap
  /\ snap = 0
  /\ pend = NoPending
  /\ pub = NoFrame
  /\ conn = "down"
  /\ inbox = <<>>
  /\ page = [pc |-> "closed", greeted |-> FALSE, detail |-> NoDetail, profile |-> FALSE,
             map |-> NoMap, frameN |-> 0, queue |-> Nothing, fetching |-> FALSE]
  /\ refresh = <<>>
  /\ load = NoLoad
  /\ breaks = 0
  /\ ender = "none"
  /\ stale = FALSE /\ raced = FALSE

-----------------------------------------------------------------------------
(* The hub.                                                                *)

Room == conn = "up" /\ Len(inbox) < Cap
Full == conn = "up" /\ Len(inbox) >= Cap

\* A page that is open and has not had its first hello will not ask on the next.
Deaf == page.pc # "closed" /\ ~page.greeted

\* The page has a map, or the answer with one, and no frame to count from: it
\* does not notice that one is missing.
Uncounted ==
  /\ load.pc = "answered" \/ page.map # NoMap
  /\ page.frameN = 0 /\ \A i \in 1 .. Len(inbox) : inbox[i].ev # "progress"

\* The stream has more for the page than its hello.
Missing == \E i \in 1 .. Len(inbox) : inbox[i].ev # "hello"

\* What passes the page by is kept between rounds, where nothing else will come,
\* and what may cost it blocks while a round runs.
Unheard(c) == stale' = (stale \/ (Between /\ c))
Races(c) == raced' = (raced \/ (Scanning /\ c))

\* Publish: a full channel loses a progress frame, and turns an event into a
\* resync, which is lost as well unless the reader has made room meanwhile.  A
\* frame that gets to the page between rounds is of a round that has said it is
\* over.
PublishProgress(f) ==
  /\ inbox' = IF Room THEN Append(inbox, f) ELSE inbox
  /\ Unheard(Room)
  /\ Races(~Room /\ Uncounted)
PublishEvent(ev) ==
  \/ Room /\ inbox' = Append(inbox, [ev |-> ev])
  \/ Full /\ inbox' \in {Append(inbox, [ev |-> "resync"]), inbox}
  \/ conn = "down" /\ UNCHANGED inbox

-----------------------------------------------------------------------------
(* The round, as the page hears of it: considerDisk, runRound, OnBlock,    *)
(* OnProgress and OnChange.                                                *)

RoundAt(pc) == round.pc = pc
RoundGoes(pc) == round' = [round EXCEPT !.pc = pc]

\* Nothing of an earlier round is left: it has said that it is over, none of its
\* frames is on its way, and the page shows, fetches and loads nothing.
Fresh ==
  /\ ender = "none" /\ pub = NoFrame /\ load = NoLoad /\ ~page.fetching
  /\ page.map = NoMap /\ page.queue = Nothing /\ page.frameN = 0
  /\ \A i \in 1 .. Len(inbox) : inbox[i].ev # "progress"

\* considerDisk has set Scanning when the round's goroutine announces it.  The
\* last round is over by then, but it need not have announced its end.
ScanStart ==
  /\ RoundAt("idle") /\ round.begun < MaxRounds
  /\ round' = [round EXCEPT !.pc = "open", !.begun = @ + 1]
  /\ PublishEvent("start")
  /\ raced' = ~Fresh /\ stale' = FALSE
  /\ UNCHANGED <<ender, past, live, snap, pend, pub, client, conn, breaks>>

\* The deferred function clears the flags, from which on the disk may begin its
\* next round, and OnChange follows in two halves.  One round at a time is between
\* the two: a bound.
Finish ==
  /\ RoundGoes("idle")
  /\ ender = "none" /\ ender' = "ended"
  /\ raced' = FALSE /\ UNCHANGED stale

\* The device opens, or the round is over.
OpenRound ==
  /\ RoundAt("open")
  /\ \/ /\ RoundGoes("run")
        /\ live' = [seq |-> past + 1, vals |-> Nothing]
        /\ UNCHANGED <<ender, history>>
     \/ Finish /\ UNCHANGED live
  /\ UNCHANGED <<past, snap, pend, pub, client, conn, inbox, breaks>>

\* LatencyMap.Set: OnBlock fills the supervisor's copy in, and then hands the
\* value to the server.
OnBlock(b) ==
  /\ RoundAt("run") /\ round.writes < MaxWrites
  /\ round' = [round EXCEPT !.writes = @ + 1]
  /\ live' = [live EXCEPT !.vals[b] = round.writes + 1]
  /\ pend' = [pend EXCEPT !.blocks[b] = round.writes + 1, !.dirty = TRUE]
  /\ UNCHANGED <<ender, past, snap, pub, client, conn, inbox, breaks, history>>

\* OnProgress keeps the snapshot for whoever asks, and onLive for the publisher.
OnLive ==
  /\ RoundAt("run")
  /\ snap' = past + 1
  /\ pend' = [pend EXCEPT !.has = TRUE, !.dirty = TRUE, !.seq = past + 1]
  /\ UNCHANGED <<round, ender, past, live, pub, client, conn, inbox, breaks, history>>

\* The round returns and is recorded, unless it was cancelled before it read
\* anything: then the next one has its number.
EndRound ==
  /\ RoundAt("run")
  /\ Finish
  /\ past' \in {past + 1} \cup (IF live.vals = Nothing THEN {past} ELSE {})
  /\ live' = NoMap
  /\ snap' = 0
  /\ UNCHANGED <<pend, pub, client, conn, inbox, breaks>>

KeepPending == pend   \* mutant of Dropped
Dropped == NoPending
DropPending ==
  /\ ender = "ended"
  /\ ender' = "dropped"
  /\ pend' = Dropped
  /\ UNCHANGED <<round, past, live, snap, pub, client, conn, inbox, breaks, history>>

ScanEnd ==
  /\ ender = "dropped"
  /\ ender' = "none"
  /\ PublishEvent("end")
  /\ stale' = (round.pc = "idle" /\ IF conn = "up" THEN inbox' = inbox ELSE Deaf)
  /\ UNCHANGED <<round, past, live, snap, pend, pub, client, conn, breaks, raced>>

-----------------------------------------------------------------------------
(* RunPublisher.                                                           *)

NextFrame(e) == [ev |-> "progress", seq |-> e.seq, n |-> e.n + 1, blocks |-> e.blocks]

Drain ==
  /\ pub = NoFrame
  /\ pend.has /\ pend.dirty /\ round.frames < MaxFrames
  /\ pub' = NextFrame(pend)
  /\ pend' = [pend EXCEPT !.n = @ + 1, !.blocks = Nothing, !.dirty = FALSE]
  /\ round' = [round EXCEPT !.frames = @ + 1]
  /\ UNCHANGED <<ender, past, live, snap, client, conn, inbox, breaks, history>>

SendFrame ==
  /\ pub # NoFrame
  /\ PublishProgress(pub)
  /\ pub' = NoFrame
  /\ UNCHANGED <<round, ender, past, live, snap, pend, client, conn, breaks>>

RoundStep ==
  \/ ScanStart \/ OpenRound \/ (\E b \in Block : OnBlock(b)) \/ OnLive
  \/ EndRound \/ DropPending \/ ScanEnd
Publisher == Drain \/ SendFrame

-----------------------------------------------------------------------------
(* The connection.                                                         *)

\* boot opens the stream when its first refresh is through, and open() opens
\* another after an error: a new EventSource, which names no last frame.
Subscribe ==
  /\ conn = "down"
  /\ page.pc = "on" \/ (page.pc = "boot" /\ refresh = <<>> /\ ~page.fetching /\ load = NoLoad)
  /\ conn' = "up"
  /\ inbox' = <<[ev |-> "hello"]>>
  /\ page' = [page EXCEPT !.pc = "on"]
  /\ stale' = (stale /\ Deaf)
  /\ UNCHANGED <<server, refresh, load, breaks, raced>>

Disconnect ==
  /\ conn = "up" /\ breaks < MaxBreaks
  /\ conn' = "down"
  /\ inbox' = <<>>
  /\ breaks' = breaks + 1
  /\ Unheard(Deaf /\ Missing)
  /\ Races(Deaf /\ Missing)
  /\ UNCHANGED <<server, client>>

\* The daemon dies, and another one takes over with what is on disk.
Restart ==
  /\ breaks < MaxBreaks
  /\ round' = [round EXCEPT !.pc = "idle"] /\ ender' = "none"
  /\ live' = NoMap /\ snap' = 0 /\ pend' = NoPending /\ pub' = NoFrame
  /\ conn' = "down"
  /\ inbox' = <<>>
  /\ breaks' = breaks + 1
  /\ stale' = Deaf /\ raced' = FALSE
  /\ UNCHANGED <<past, client>>

-----------------------------------------------------------------------------
(* The page's handlers of the stream.                                      *)

Asking(hard) == [pc |-> "detail", hard |-> hard, detail |-> NoDetail]
AskingAtEnd == [pc |-> "list", hard |-> TRUE, detail |-> NoDetail]
DropLive(p) == [p EXCEPT !.map = NoMap, !.queue = Nothing, !.frameN = 0]
\* loadLive, called while another is in flight, does nothing.
LoadLive(l, seq) == IF l.pc = "none" THEN [NoLoad EXCEPT !.pc = "asked", !.seq = seq] ELSE l

Open ==
  /\ page.pc = "closed"
  /\ page' = [page EXCEPT !.pc = "boot"]
  /\ refresh' = <<Asking(TRUE)>>
  /\ UNCHANGED <<server, load, conn, inbox, breaks, history>>

Arrives(ev) ==
  /\ inbox # <<>> /\ Head(inbox).ev = ev
  /\ ev = "progress" \/ Len(refresh) < MaxRefresh
  /\ inbox' = Tail(inbox)

\* The first hello follows boot's own refresh.
HelloAlone == refresh   \* mutant of HelloRefresh
HelloRefresh == IF page.greeted THEN Append(refresh, Asking(TRUE)) ELSE refresh
OnHello ==
  /\ Arrives("hello")
  /\ page' = [page EXCEPT !.greeted = TRUE]
  /\ refresh' = HelloRefresh
  /\ UNCHANGED <<server, load, conn, breaks, history>>

OnState ==
  /\ \/ Arrives("start") /\ refresh' = Append(refresh, Asking(FALSE))
     \/ Arrives("end") /\ refresh' = Append(refresh, AskingAtEnd)
  /\ UNCHANGED <<server, page, load, conn, breaks, history>>

OnResync ==
  /\ Arrives("resync")
  /\ refresh' = Append(refresh, Asking(TRUE))
  /\ UNCHANGED <<server, page, load, conn, breaks, history>>

\* A gap in the count means the map has holes, and so has the one that is
\* loading.
Gap(f) == page.frameN # 0 /\ f.n # page.frameN + 1
NoReload(l) == l   \* mutant of Reload
Reload(l) == [l EXCEPT !.again = (l.pc # "none")]

OnProgress ==
  /\ Arrives("progress")
  /\ LET f == Head(inbox)
         p == [(IF Gap(f) THEN DropLive(page) ELSE page)
                 EXCEPT !.detail.live = f.seq, !.frameN = f.n]
         l == IF Gap(f) THEN Reload(load) ELSE load
     IN IF p.map.seq # f.seq
        THEN /\ page' = [p EXCEPT !.queue = Over(f.blocks, @)]
             /\ load' = LoadLive(l, f.seq)
        ELSE /\ page' = [p EXCEPT !.map.vals = Over(f.blocks, @)]
             /\ load' = l
  /\ Races(page.fetching)
  /\ UNCHANGED <<server, refresh, conn, breaks, stale>>

-----------------------------------------------------------------------------
(* The page's fetches: refreshAll and onState, refreshDetail, loadProfiles *)
(* and loadLive, from one await to the next.                               *)

RefreshAt(pc) == refresh # <<>> /\ Head(refresh).pc = pc
Became(r) == refresh' = <<r>> \o Tail(refresh)

\* getDisks is back.  Its answer is drawn and no more, so the list is left out
\* but for the end of a round, which drops its map before asking for the detail.
ListReturns ==
  /\ RefreshAt("list")
  /\ Became([Head(refresh) EXCEPT !.pc = "detail"])
  /\ page' = DropLive(page)
  /\ UNCHANGED <<server, load, conn, inbox, breaks, history>>

DetailAnswered ==
  /\ RefreshAt("detail")
  /\ Became([Head(refresh) EXCEPT !.pc = "answered",
                                  !.detail = [scanning |-> Scanning, live |-> snap]])
  /\ UNCHANGED <<server, page, load, conn, inbox, breaks, history>>

\* loadProfiles makes an older one that is still fetching give up.
DetailReturns ==
  /\ RefreshAt("answered")
  /\ LET p == [page EXCEPT !.detail = Head(refresh).detail]
     IN page' = IF Head(refresh).hard \/ ~page.profile
                THEN [DropLive(p) EXCEPT !.profile = FALSE, !.fetching = TRUE] ELSE p
  /\ refresh' = Tail(refresh)
  /\ Races(load # NoLoad)
  /\ UNCHANGED <<server, load, conn, inbox, breaks, stale>>

\* The latest pass and the freshness are back.
ProfilesReturn ==
  /\ page.fetching
  /\ page' = [page EXCEPT !.fetching = FALSE, !.profile = past > 0]
  /\ load' = IF page.detail.live # 0 THEN LoadLive(load, page.detail.live) ELSE load
  /\ UNCHANGED <<server, refresh, conn, inbox, breaks, history>>

\* handleLiveProfile.  Between rounds it is a 404.
LoadAnswered ==
  /\ load.pc = "asked"
  /\ load' = [load EXCEPT !.pc = "answered", !.map = live]
  /\ UNCHANGED <<server, page, refresh, conn, inbox, breaks, history>>

Wanted(m) == m.seq = load.seq /\ page.detail.live = load.seq
LoadReturns ==
  /\ load.pc = "answered"
  /\ IF load.again
     THEN load' = LoadLive(NoLoad, load.seq) /\ UNCHANGED page
     ELSE /\ load' = NoLoad
          /\ page' = IF Wanted(load.map)
                     THEN [page EXCEPT !.map = [load.map EXCEPT !.vals = Over(page.queue, @)],
                                       !.queue = Nothing]
                     ELSE [page EXCEPT !.queue = Nothing]
  /\ UNCHANGED <<server, refresh, conn, inbox, breaks, history>>

PageStep ==
  \/ Open \/ OnHello \/ OnState \/ OnResync \/ OnProgress
  \/ ListReturns \/ DetailReturns \/ ProfilesReturn \/ LoadReturns
Answer == DetailAnswered \/ LoadAnswered

Next == RoundStep \/ Publisher \/ Subscribe \/ Disconnect \/ Restart \/ PageStep \/ Answer

Spec == Init /\ [][Next]_vars

-----------------------------------------------------------------------------
(* Safety.                                                                 *)

\* Every variable holds what the code's types let it hold; in particular a frame
\* is counted from 1 and names a round (server.go:65-68).
TypeOK ==
  /\ round \in Round
  /\ past \in 0 .. MaxRounds
  /\ live \in Map
  /\ snap \in Seq0
  /\ pend \in Pending
  /\ pub \in Progress \cup {NoFrame}
  /\ conn \in {"up", "down"}
  /\ inbox \in Seq(Progress \cup Event)
  /\ page \in Page
  /\ refresh \in Seq(Refresh)
  /\ load \in Load
  /\ breaks \in 0 .. MaxBreaks
  /\ ender \in {"none", "ended", "dropped"}
  /\ {stale, raced} \subseteq BOOLEAN

\* The page has heard all there is and waits for no answer.
Settled ==
  /\ page.pc = "on" /\ conn = "up" /\ inbox = <<>>
  /\ refresh = <<>> /\ ~page.fetching /\ load = NoLoad

\* A page that shows a map while a round runs, and has had the round's newest
\* frame, shows every block as the daemon has it: no frame that a full channel
\* dropped, and no snapshot that crossed a frame on its way, has left a hole or an
\* older value for the rest of the round (app.js:1006-1008).  Four races do, and
\* from the first of them on the round is not spoken for: a frame goes missing
\* before the page has one to count from; a frame arrives while the profiles are
\* being fetched; a refresh drops the map while one is loading; the round begins
\* with something of the last one left.
MapWhole ==
  Settled /\ ~raced /\ page.map # NoMap /\ round.pc = "run" /\ pub = NoFrame
    /\ page.frameN = pend.n /\ pend.blocks = Nothing => page.map = live

\* A page never goes on showing a round that is over, whatever it missed while
\* its stream was down or its channel full (app.js:105-109, sse.go:88-91), but for
\* three ways, and none of them lasts past the next round: SCAN_END met a full
\* channel and its resync met it too; the publisher's last frame came behind
\* SCAN_END; or the page had not had its first hello, and what it missed before it
\* is not made up for.
ShowsTheTruth ==
  Settled /\ Between /\ ~stale => page.detail = NoDetail /\ page.map = NoMap

\* Behind every frame in q comes an event that has the page ask again.
Closed(q) ==
  \A i \in 1 .. Len(q) : q[i].ev = "progress" =>
    \E j \in i + 1 .. Len(q) : q[j].ev \in {"end", "resync"}

\* What SCAN_END leaves (server.go:83-88): nothing is queued, so that the frame in
\* the publisher's hand is the last that can come behind it, and every frame that
\* is on its way has an event behind it, unless it is that one or SCAN_END itself
\* was lost.
QuietAfterEnd ==
  Between => pend = NoPending /\ (stale \/ Closed(inbox))
=============================================================================
