------------------------------ MODULE History ------------------------------
(***************************************************************************)
(* What the state directory keeps of one disk (store.go), across crashes:  *)
(* the files written whole (meta.json, schedule.json, the latency maps),   *)
(* the logs appended to (rounds.jsonl, events.jsonl), what a start makes   *)
(* of them, and who deletes them.  Supervisor has the goroutines and the   *)
(* dropout's window; here a step is a write, and a crash may fall between  *)
(* any two.                                                                *)
(*                                                                         *)
(* writeAtomic is one step: after a crash inside it the file is the old    *)
(* one or the new one, and either is where another step ends.  A line      *)
(* appended to a log is not synced, and a power cut may take it, all or    *)
(* half of it.                                                             *)
(***************************************************************************)
EXTENDS Integers, Sequences, FiniteSets

CONSTANTS
  KeepFull, KeepCoarse,   \* keep_full_profiles, keep_coarse_profiles
  Rots,        \* files that may be unreadable at the next start
  MaxRounds,   \* bound: rounds in all
  MaxEvents,   \* bound: event ids
  MaxCuts      \* bound: power cuts

ASSUME HistoryAssumption ==
  /\ {KeepFull, KeepCoarse} \subseteq Nat \ {0}
  /\ Rots \subseteq {"meta", "sched"}
  /\ {MaxRounds, MaxEvents, MaxCuts} \subseteq Nat

VARIABLES
  file,    \* meta.json, schedule.json and the maps in history/ and latest.lat
  log,     \* rounds.jsonl and events.jsonl
  disk,    \* the diskState, if the supervisor has one
  pc,      \* where the round, or the adoption, is
  retry,   \* the id of the event of the block to probe again, 0 for none
  eventID, \* Store.eventID
  present, \* the disk is plugged in
  made,    \* history: rounds begun, power cuts, what the user last chose, and
           \* whether no round has begun since the user forgot the disk
  lines    \* history: what was appended to each log since the last power cut

vars == <<file, log, disk, pc, retry, eventID, present, made, lines>>

Logs == {"rounds", "events"}

\* What a diskState and meta.json say of the disk; number is the RoundSeq.
NoDisk == [adopted |-> FALSE, enabled |-> FALSE, number |-> -1]
NewDisk == [adopted |-> FALSE, enabled |-> TRUE, number |-> 0]

\* sched is the RoundSeq in schedule.json, -1 for no file.  full and coarse are
\* the maps in history/, by number; a map is the round it is of.
NoFiles == [meta |-> NoDisk, sched |-> -1, rotten |-> {}, full |-> <<>>, coarse |-> <<>>, latest |-> 0]
NoLog == [lines |-> <<>>, loose |-> 0, torn |-> FALSE]

(***************************************************************************)
(* The logs.                                                               *)
(***************************************************************************)

\* A line that follows half a line is one line with it, which nothing parses.
Garbled == [what |-> "garbled", id |-> 0, round |-> 0, ref |-> 0]

Extended(l, line) ==
  [lines |-> Append(l.lines, IF l.torn THEN Garbled ELSE line),
   loose |-> l.loose + 1, torn |-> FALSE]

Appended(name, line) ==
  /\ log' = [log EXCEPT ![name] = Extended(@, line)]
  /\ lines' = [lines EXCEPT ![name] = Append(@, line)]

\* Mutant: reading stops at a line that does not parse.
LegibleUpToGarbled(name) ==
  {i \in DOMAIN log[name].lines : \A j \in 1 .. i : log[name].lines[j] # Garbled}

\* ListRounds and ListEvents skip what does not parse.
Legible(name) == {i \in DOMAIN log[name].lines : log[name].lines[i] # Garbled}
Lines(name) == {log[name].lines[i] : i \in Legible(name)}

\* Mutant: ids are counted on from the number of events.
HighestByCount == Cardinality(Legible("events"))

HighestEventID ==
  LET ids == {e.id : e \in Lines("events")} \cup {0}
  IN  CHOOSE n \in ids : \A k \in ids : k <= n

Event(what, ref) ==
  /\ eventID < MaxEvents /\ eventID' = eventID + 1
  /\ Appended("events", [what |-> what, id |-> eventID + 1, round |-> made.round, ref |-> ref])

(***************************************************************************)
(* The latency maps.                                                       *)
(***************************************************************************)

Put(maps, n, round) == [m \in DOMAIN maps \cup {n} |-> IF m = n THEN round ELSE maps[m]]

Newest(maps, keep) == {m \in DOMAIN maps : Cardinality({n \in DOMAIN maps : n > m}) < keep}

\* Mutant: one map too many goes.
PrunedByOne(maps, keep) == [m \in Newest(maps, keep - 1) |-> maps[m]]
Pruned(maps, keep) == [m \in Newest(maps, keep) |-> maps[m]]

(***************************************************************************)
(* Starting, finding the disk, adopting it and letting go of it.           *)
(***************************************************************************)

Up == pc # "down"

Init ==
  /\ file = NoFiles /\ log = [n \in Logs |-> NoLog]
  /\ disk = NoDisk /\ pc = "idle" /\ retry = 0 /\ eventID = 0
  /\ present = FALSE
  /\ made = [round |-> 0, cuts |-> 0, enabled |-> TRUE, forgot |-> FALSE]
  /\ lines = [n \in Logs |-> <<>>]

\* loadKnownDisks: no schedule is a new one, and a file it cannot read makes the
\* supervisor go without the disk.
Loaded(f) ==
  IF f.meta = NoDisk \/ f.rotten # {} THEN NoDisk
  ELSE [f.meta EXCEPT !.number = IF f.sched = -1 THEN 0 ELSE f.sched]

Start ==
  /\ ~Up /\ pc' = "idle"
  /\ eventID' = HighestEventID
  /\ disk' = Loaded(file)
  /\ UNCHANGED <<file, log, retry, present, made, lines>>

SaveMeta(d) ==
  file' = [file EXCEPT !.meta = [d EXCEPT !.number = 0], !.rotten = @ \ {"meta"}]
SaveSchedule(d) ==
  file' = [file EXCEPT !.sched = d.number, !.rotten = @ \ {"sched"}]

\* A disk the supervisor has no state for gets a meta.json of its own, whatever
\* the directory holds.
Discover ==
  /\ pc = "idle" /\ present /\ disk = NoDisk
  /\ disk' = NewDisk /\ SaveMeta(NewDisk)
  /\ UNCHANGED <<log, pc, retry, eventID, present, made, lines>>

Adopt ==
  /\ pc = "idle" /\ present /\ disk # NoDisk /\ ~disk.adopted
  /\ disk' = [disk EXCEPT !.adopted = TRUE, !.number = 0]
  /\ SaveMeta(disk') /\ pc' = "adopting"
  /\ UNCHANGED <<log, retry, eventID, present, made, lines>>

AdoptSchedule ==
  /\ pc = "adopting" /\ pc' = "idle"
  /\ SaveSchedule(disk)
  /\ Event("adopted", 0)
  /\ UNCHANGED <<disk, retry, present, made>>

DeleteDisk ==
  /\ file' = NoFiles /\ log' = [n \in Logs |-> NoLog]
  /\ lines' = [n \in Logs |-> <<>>]
  /\ disk' = NoDisk

\* Mutants: an excluded disk is swept as well, or an adopted one.
SweptIfUnadopted == ~disk.adopted
SweptIfEnabled == disk.enabled
Swept == ~disk.adopted /\ disk.enabled

Leaves ==
  /\ pc = "idle" /\ ~present /\ disk # NoDisk /\ Swept
  /\ DeleteDisk
  /\ UNCHANGED <<pc, retry, eventID, present, made>>

Forget ==
  /\ pc = "idle" /\ disk # NoDisk
  /\ DeleteDisk
  /\ made' = [made EXCEPT !.enabled = TRUE, !.forgot = TRUE]
  /\ UNCHANGED <<pc, retry, eventID, present>>

\* Supervisor has what a switch during persistRound does.
SetEnabled ==
  /\ pc \in {"idle", "reading"} /\ disk # NoDisk
  /\ disk' = [disk EXCEPT !.enabled = ~@] /\ SaveMeta(disk')
  /\ made' = [made EXCEPT !.enabled = disk'.enabled]
  /\ UNCHANGED <<log, pc, retry, eventID, present, lines>>

Plug == present' = ~present /\ UNCHANGED <<file, log, disk, pc, retry, eventID, made, lines>>

(***************************************************************************)
(* A round (scanner.go), and what is written at its end (persistRound).    *)
(***************************************************************************)

At(step) == pc = step /\ disk # NoDisk
Number == disk.number + 1

\* The line of the round before has long been written back by then.
Begins ==
  /\ log["rounds"].loose = 0
  /\ At("idle") /\ present /\ disk.adopted /\ disk.enabled /\ made.round < MaxRounds
  /\ pc' = "reading" /\ made' = [made EXCEPT !.round = @ + 1, !.forgot = FALSE]
  /\ UNCHANGED <<file, log, disk, retry, eventID, present, lines>>

\* deferBlock takes the id and keeps it for the re-probe.
Defers ==
  /\ At("reading") /\ retry = 0
  /\ Event("deferred", 0) /\ retry' = eventID'
  /\ UNCHANGED <<file, disk, pc, present, made>>

Heals ==
  /\ At("reading") /\ retry # 0
  /\ Event("healed", retry) /\ retry' = 0
  /\ UNCHANGED <<file, disk, pc, present, made>>

Ends ==
  /\ At("reading") /\ pc' = "full" /\ retry' = 0
  /\ UNCHANGED <<file, log, disk, eventID, present, made, lines>>

\* SaveProfile
SaveFull ==
  /\ At("full") /\ pc' = "latest"
  /\ file' = [file EXCEPT !.full = Put(@, Number, made.round)]
  /\ UNCHANGED <<log, disk, retry, eventID, present, made, lines>>

SaveLatest ==
  /\ At("latest") /\ pc' = "coarse"
  /\ file' = [file EXCEPT !.latest = made.round]
  /\ UNCHANGED <<log, disk, retry, eventID, present, made, lines>>

SaveCoarse ==
  /\ At("coarse") /\ pc' = "prune"
  /\ file' = [file EXCEPT !.coarse = Put(@, Number, made.round)]
  /\ UNCHANGED <<log, disk, retry, eventID, present, made, lines>>

Prune ==
  /\ At("prune") /\ pc' = "round"
  /\ file' = [file EXCEPT !.full = Pruned(@, KeepFull), !.coarse = Pruned(@, KeepCoarse)]
  /\ UNCHANGED <<log, disk, retry, eventID, present, made, lines>>

AppendRound ==
  /\ At("round") /\ pc' = "sched"
  /\ Appended("rounds", [what |-> "round", id |-> Number, round |-> made.round, ref |-> 0])
  /\ UNCHANGED <<file, disk, retry, eventID, present, made>>

\* The new schedule is in memory first.
NextSchedule ==
  /\ At("sched") /\ pc' = "event"
  /\ disk' = [disk EXCEPT !.number = Number] /\ SaveSchedule(disk')
  /\ UNCHANGED <<log, retry, eventID, present, made, lines>>

AppendEvent ==
  /\ At("event") /\ pc' = "meta"
  /\ Event("round", 0)
  /\ UNCHANGED <<file, disk, retry, present, made>>

\* With the bytes that were written.
FoldBytes ==
  /\ At("meta") /\ pc' = "idle" /\ SaveMeta(disk)
  /\ UNCHANGED <<log, disk, retry, eventID, present, made, lines>>

(***************************************************************************)
(* Crashes.                                                                *)
(***************************************************************************)

Down == pc' = "down" /\ disk' = NoDisk /\ retry' = 0 /\ eventID' = 0

Killed == Up /\ Down /\ UNCHANGED <<file, log, present, made, lines>>

\* What is left of a log: some of what was not synced, and perhaps half a line.
Cut(l) ==
  LET n == Len(l.lines) IN
  {[lines |-> SubSeq(l.lines, 1, n - k), loose |-> 0, torn |-> l.torn /\ k = 0] : k \in 0 .. l.loose}
  \cup {[lines |-> SubSeq(l.lines, 1, n - k), loose |-> 0, torn |-> TRUE] : k \in 1 .. l.loose}

PowerCut ==
  /\ made.cuts < MaxCuts /\ Down
  /\ \E r \in Cut(log["rounds"]), e \in Cut(log["events"]) :
       log' = [n \in Logs |-> IF n = "rounds" THEN r ELSE e]
  /\ made' = [made EXCEPT !.cuts = @ + 1]
  /\ lines' = [n \in Logs |-> <<>>]
  /\ \E rotten \in SUBSET Rots : file' = [file EXCEPT !.rotten = @ \cup rotten]
  /\ UNCHANGED present

\* The kernel writes the logs back.
WrittenBack ==
  /\ log' = [n \in Logs |-> [log[n] EXCEPT !.loose = 0]]
  /\ UNCHANGED <<file, disk, pc, retry, eventID, present, made, lines>>

Next ==
  \/ Start \/ Discover \/ Adopt \/ AdoptSchedule \/ Leaves \/ Forget \/ SetEnabled \/ Plug
  \/ Begins \/ Defers \/ Heals \/ Ends \/ SaveFull \/ SaveLatest \/ SaveCoarse \/ Prune
  \/ AppendRound \/ NextSchedule \/ AppendEvent \/ FoldBytes
  \/ Killed \/ PowerCut \/ WrittenBack

Spec == Init /\ [][Next]_vars

(***************************************************************************)
(* What is kept.                                                           *)
(***************************************************************************)

Kept(maps, keep) ==
  \A line \in Lines("rounds") :
    (\A n \in DOMAIN maps : n < line.id + keep) => line.id \in DOMAIN maps

\* A round that is listed can be looked at, whatever was cut short: unless as
\* many later rounds as are kept have a map, it has its full and its coarse one
\* (persistRound saves the maps before the line, supervisor.go:456-463).
RowHasProfile == Kept(file.full, KeepFull) /\ Kept(file.coarse, KeepCoarse)

\* No two events have one id, and the event a healed block points to, where it
\* is listed, is the deferral of that round: what a power cut takes of the log
\* never corrupts the links (highestEventID, store.go:466-468).
RefsHold ==
  /\ \A i, j \in Legible("events") :
       log["events"].lines[i].id = log["events"].lines[j].id => i = j
  /\ \A e, x \in Lines("events") :
       e.what = "healed" /\ x.id = e.ref => x.what = "deferred" /\ x.round = e.round

\* The rounds of a disk are deleted by Forget only: what is swept when a disk
\* leaves during its probation was never scanned (supervisor.go:234-239).
HistoryOnlyForgotten ==
  [][log["rounds"].lines # <<>> /\ log'["rounds"].lines = <<>> => made'.forgot \/ PowerCut]_vars

\* A disk its owner excluded stays excluded, wherever it goes and whatever
\* crashes, until its owner says otherwise (supervisor.go:241-245).
ExclusionKept == disk # NoDisk => disk.enabled = made.enabled

\* A power cut costs what was not written back, and of what comes after it at
\* most the first line of each log (store.go:365-367 and 406).
TornCostsOne ==
  \A n \in Logs : \A i \in 2 .. Len(lines[n]) : lines[n][i] \in Lines(n)
=============================================================================
