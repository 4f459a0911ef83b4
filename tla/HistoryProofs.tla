---------------------------- MODULE HistoryProofs ----------------------------
(***************************************************************************)
(* What the state directory keeps of a disk, for any number of rounds,     *)
(* events, maps kept and power cuts.  First who may delete the history of  *)
(* a disk and who may switch it on again, as long as every file can be     *)
(* read at the next start; then what the logs and the maps say, whatever   *)
(* cannot be read.                                                         *)
(***************************************************************************)
EXTENDS History, FiniteSetTheorems, WellFoundedInduction, TLAPS

Meta == [adopted : BOOLEAN, enabled : BOOLEAN, number : Nat \cup {-1}]
Row == [what : {"round", "garbled"}, id : Nat, round : Nat, ref : Nat]
Rows == log["rounds"].lines

Shaped ==
  /\ disk \in Meta /\ (disk # NoDisk => disk.number \in Nat)
  /\ file.meta \in Meta /\ (file.meta # NoDisk => file.meta.number = 0)
  /\ file.sched \in Nat \cup {-1}
  /\ file = [meta |-> file.meta, sched |-> file.sched, rotten |-> file.rotten,
             full |-> file.full, coarse |-> file.coarse, latest |-> file.latest]
  /\ made \in [round : Nat, cuts : Nat, enabled : BOOLEAN, forgot : BOOLEAN]
  /\ DOMAIN log = Logs
  /\ log["rounds"] \in [lines : Seq(Row), loose : Nat, torn : BOOLEAN]

\* The record on disk is that of the diskState, and there is one for as long as
\* there is a disk or a history.
Recorded ==
  /\ file.rotten = {}
  /\ file.meta = NoDisk => disk = NoDisk /\ made.enabled
  /\ file.meta # NoDisk => file.meta.enabled = made.enabled
  /\ disk = NoDisk => ~Up \/ file.meta = NoDisk
  /\ disk # NoDisk => /\ Up /\ disk.enabled = file.meta.enabled
                      /\ disk.adopted = file.meta.adopted

\* Only an adopted disk has a round, or a history.
Scanned ==
  /\ pc \notin {"idle", "down"} => disk.adopted
  /\ Rows # <<>> => file.meta.adopted

HistInv == Shaped /\ Recorded /\ Scanned

LEMMA Records ==
  /\ NoDisk \in Meta /\ NewDisk \in Meta /\ NewDisk # NoDisk
  /\ ~NoDisk.adopted /\ NewDisk.enabled /\ ~NewDisk.adopted /\ NewDisk.number = 0
  /\ \A d \in Meta : d.number \in Nat => d # NoDisk
BY DEF NoDisk, NewDisk, Meta

\* Saving a record, or a schedule, and nothing else.
LEMMA SaveMetaFields ==
  ASSUME Shaped, NEW d \in Meta, SaveMeta(d)
  PROVE  /\ file'.meta = [d EXCEPT !.number = 0] /\ file'.meta \in Meta /\ file'.meta # NoDisk
         /\ file'.meta.number = 0 /\ file'.meta.enabled = d.enabled
         /\ file'.meta.adopted = d.adopted
         /\ file'.sched = file.sched /\ file'.rotten \subseteq file.rotten
         /\ file' = [meta |-> file'.meta, sched |-> file'.sched, rotten |-> file'.rotten,
                     full |-> file'.full, coarse |-> file'.coarse, latest |-> file'.latest]
<1> DEFINE m == [d EXCEPT !.number = 0]
<1>1. m \in Meta /\ m.number = 0 /\ m.enabled = d.enabled /\ m.adopted = d.adopted
  BY DEF Meta
<1> HIDE DEF m
<1>2. m # NoDisk
  BY <1>1, Records
<1>3. file' = [file EXCEPT !.meta = m, !.rotten = file.rotten \ {"meta"}]
  BY DEF SaveMeta, Shaped, m
<1>4. file' = [meta |-> m, sched |-> file.sched, rotten |-> file.rotten \ {"meta"},
               full |-> file.full, coarse |-> file.coarse, latest |-> file.latest]
  BY <1>3 DEF Shaped
<1> QED
  BY <1>1, <1>2, <1>4 DEF m

\* What is said of the files afterwards.
LEMMA SavedShape ==
  ASSUME Shaped, NEW d \in Meta, SaveMeta(d), UNCHANGED log, disk' \in Meta,
         disk'.number \in Nat,
         made' \in [round : Nat, cuts : Nat, enabled : BOOLEAN, forgot : BOOLEAN]
  PROVE  Shaped'
<1>1. /\ file'.meta \in Meta /\ file'.meta.number = 0 /\ file'.sched = file.sched
      /\ file' = [meta |-> file'.meta, sched |-> file'.sched, rotten |-> file'.rotten,
                  full |-> file'.full, coarse |-> file'.coarse, latest |-> file'.latest]
  BY SaveMetaFields
<1> QED
  BY <1>1 DEF Shaped

LEMMA SaveScheduleFields ==
  ASSUME Shaped, NEW d \in Meta, d.number \in Nat, SaveSchedule(d)
  PROVE  /\ file'.meta = file.meta /\ file'.sched \in Nat
         /\ file'.rotten \subseteq file.rotten
         /\ file' = [meta |-> file'.meta, sched |-> file'.sched, rotten |-> file'.rotten,
                     full |-> file'.full, coarse |-> file'.coarse, latest |-> file'.latest]
<1>1. file' = [meta |-> file.meta, sched |-> d.number, rotten |-> file.rotten \ {"sched"},
               full |-> file.full, coarse |-> file.coarse, latest |-> file.latest]
  BY DEF SaveSchedule, Shaped
<1> QED
  BY <1>1

LEMMA LoadedFields ==
  ASSUME HistInv
  PROVE  /\ Loaded(file) \in Meta
         /\ file.meta = NoDisk => Loaded(file) = NoDisk
         /\ file.meta # NoDisk => /\ Loaded(file) # NoDisk /\ Loaded(file).number \in Nat
                                  /\ Loaded(file).adopted = file.meta.adopted
                                  /\ Loaded(file).enabled = file.meta.enabled
<1>1. CASE file.meta = NoDisk
  BY <1>1, Records DEF Loaded
<1>2. CASE file.meta # NoDisk
  <2> DEFINE n == IF file.sched = -1 THEN 0 ELSE file.sched
  <2>1. n \in Nat
    BY DEF HistInv, Shaped
  <2>2. Loaded(file) = [file.meta EXCEPT !.number = n]
    BY <1>2 DEF Loaded, HistInv, Recorded
  <2> HIDE DEF n
  <2>3. /\ Loaded(file) \in Meta /\ Loaded(file).number \in Nat
        /\ Loaded(file).adopted = file.meta.adopted
        /\ Loaded(file).enabled = file.meta.enabled
    BY <2>1, <2>2 DEF Meta, HistInv, Shaped
  <2> QED
    BY <1>2, <2>3, Records
<1> QED
  BY <1>1, <1>2

\* An event touches nothing this is about.
LEMMA EventFields ==
  ASSUME Shaped, NEW what, NEW ref, Event(what, ref)
  PROVE  DOMAIN log' = Logs /\ log'["rounds"] = log["rounds"] /\ Rows' = Rows
BY DEF Event, Appended, Logs, Shaped, Rows

-----------------------------------------------------------------------------
LEMMA InitInv == Init => HistInv
BY Records, SMT DEF Init, HistInv, Shaped, Recorded, Scanned, NoFiles, NoLog, Logs, Rows, Up, Row

LEMMA StartInv == HistInv /\ Start => HistInv'
<1> SUFFICES ASSUME HistInv, Start PROVE HistInv'
  OBVIOUS
<1>1. /\ disk' = Loaded(file) /\ pc' = "idle" /\ UNCHANGED <<file, log, made>>
  BY DEF Start
<1> QED
  BY <1>1, LoadedFields, Records DEF HistInv, Shaped, Recorded, Scanned, Rows, Up

LEMMA DiscoverInv == HistInv /\ Discover => HistInv'
<1> SUFFICES ASSUME HistInv, Discover PROVE HistInv'
  OBVIOUS
<1>1. /\ disk = NoDisk /\ disk' = NewDisk /\ SaveMeta(NewDisk) /\ pc = "idle"
      /\ UNCHANGED <<log, pc, made>>
  BY DEF Discover
<1>2. file.meta = NoDisk /\ made.enabled /\ Rows = <<>>
  BY <1>1, Records DEF HistInv, Recorded, Scanned, Up
<1>3. Shaped'
  <2>1. Shaped /\ UNCHANGED log /\ disk' \in Meta /\ disk'.number \in Nat
    BY <1>1, Records DEF HistInv
  <2>2. made' \in [round : Nat, cuts : Nat, enabled : BOOLEAN, forgot : BOOLEAN]
    BY <1>1 DEF HistInv, Shaped
  <2> QED
    BY <1>1, <2>1, <2>2, Records, SavedShape
<1>4. Recorded' /\ Scanned'
  BY <1>1, <1>2, SaveMetaFields, Records DEF HistInv, Recorded, Scanned, Rows, Up, Shaped
<1> QED
  BY <1>3, <1>4 DEF HistInv

LEMMA AdoptInv == HistInv /\ Adopt => HistInv'
<1> SUFFICES ASSUME HistInv, Adopt PROVE HistInv'
  OBVIOUS
<1>1. /\ disk # NoDisk /\ disk' = [disk EXCEPT !.adopted = TRUE, !.number = 0]
      /\ SaveMeta(disk') /\ pc = "idle" /\ pc' = "adopting" /\ UNCHANGED <<log, made>>
  BY DEF Adopt
<1>2. /\ disk' \in Meta /\ disk'.number = 0 /\ disk'.adopted /\ disk'.enabled = disk.enabled
  BY <1>1 DEF HistInv, Shaped, Meta
<1>3. Shaped'
  <2>1. made' \in [round : Nat, cuts : Nat, enabled : BOOLEAN, forgot : BOOLEAN]
    BY <1>1 DEF HistInv, Shaped
  <2> QED
    BY <1>1, <1>2, <2>1, SavedShape DEF HistInv
<1>4. file.meta # NoDisk /\ disk' # NoDisk
  BY <1>1, <1>2, Records DEF HistInv, Recorded
<1>5. Recorded' /\ Scanned'
  BY <1>1, <1>2, <1>4, SaveMetaFields DEF HistInv, Recorded, Scanned, Rows, Up
<1> QED
  BY <1>3, <1>5 DEF HistInv

LEMMA DeletedInv ==
  ASSUME HistInv, DeleteDisk, made'.enabled, pc' = "idle",
         made' \in [round : Nat, cuts : Nat, enabled : BOOLEAN, forgot : BOOLEAN]
  PROVE  HistInv'
<1>1. /\ disk' = NoDisk /\ file' = NoFiles /\ DOMAIN log' = Logs /\ log'["rounds"] = NoLog
  BY DEF DeleteDisk, Logs
<1>2. Shaped'
  BY <1>1, Records DEF Shaped, NoFiles, NoLog
<1>3. Recorded' /\ Scanned'
  BY <1>1, Records DEF Recorded, Scanned, NoFiles, NoLog, Rows, Up
<1> QED
  BY <1>2, <1>3 DEF HistInv

LEMMA LeavesInv == HistInv /\ Leaves => HistInv'
<1> SUFFICES ASSUME HistInv, Leaves PROVE HistInv'
  OBVIOUS
<1>1. DeleteDisk /\ disk # NoDisk /\ disk.enabled /\ pc = "idle" /\ UNCHANGED <<pc, made>>
  BY DEF Leaves, Swept
<1>2. made'.enabled
  BY <1>1 DEF HistInv, Recorded
<1> QED
  BY <1>1, <1>2, DeletedInv DEF HistInv, Shaped

LEMMA ForgetInv == HistInv /\ Forget => HistInv'
<1> SUFFICES ASSUME HistInv, Forget PROVE HistInv'
  OBVIOUS
<1>1. /\ DeleteDisk /\ made' = [made EXCEPT !.enabled = TRUE, !.forgot = TRUE]
      /\ pc' = "idle"
  BY DEF Forget
<1>2. /\ made'.enabled
      /\ made' \in [round : Nat, cuts : Nat, enabled : BOOLEAN, forgot : BOOLEAN]
  BY <1>1 DEF HistInv, Shaped
<1> QED
  BY <1>1, <1>2, DeletedInv

LEMMA SetEnabledInv == HistInv /\ SetEnabled => HistInv'
<1> SUFFICES ASSUME HistInv, SetEnabled PROVE HistInv'
  OBVIOUS
<1>1. /\ disk # NoDisk /\ disk' = [disk EXCEPT !.enabled = ~disk.enabled] /\ SaveMeta(disk')
      /\ made' = [made EXCEPT !.enabled = disk'.enabled] /\ UNCHANGED <<log, pc>>
  BY DEF SetEnabled, HistInv, Shaped, Meta
<1>2. /\ disk' \in Meta /\ disk'.number = disk.number /\ disk'.adopted = disk.adopted
      /\ disk'.enabled \in BOOLEAN
  BY <1>1 DEF HistInv, Shaped, Meta
<1>3. disk' # NoDisk
  BY <1>1, <1>2, Records DEF HistInv, Shaped
<1>4. /\ made' \in [round : Nat, cuts : Nat, enabled : BOOLEAN, forgot : BOOLEAN]
      /\ made'.enabled = disk'.enabled
  BY <1>1, <1>2 DEF HistInv, Shaped
<1>5. Shaped'
  <2>1. disk'.number \in Nat
    BY <1>1, <1>2 DEF HistInv, Shaped
  <2> QED
    BY <1>1, <1>2, <1>4, <2>1, SavedShape DEF HistInv
<1>6. Recorded' /\ Scanned'
  BY <1>1, <1>2, <1>3, <1>4, SaveMetaFields DEF HistInv, Recorded, Scanned, Rows, Up
<1> QED
  BY <1>5, <1>6 DEF HistInv

\* Steps that leave the record as it is: the disk may get a new number.
LEMMA Beside ==
  ASSUME HistInv, disk' \in Meta, disk'.number \in Nat, disk # NoDisk,
         disk'.adopted = disk.adopted, disk'.enabled = disk.enabled,
         file'.meta = file.meta, file'.sched \in Nat \cup {-1}, file'.rotten \subseteq file.rotten,
         file' = [meta |-> file'.meta, sched |-> file'.sched, rotten |-> file'.rotten,
                  full |-> file'.full, coarse |-> file'.coarse, latest |-> file'.latest],
         made' \in [round : Nat, cuts : Nat, enabled : BOOLEAN, forgot : BOOLEAN],
         made'.enabled = made.enabled, pc' # "down",
         pc' # "idle" => disk.adopted,
         DOMAIN log' = Logs, log'["rounds"] \in [lines : Seq(Row), loose : Nat, torn : BOOLEAN],
         Rows' # <<>> => Rows # <<>> \/ disk.adopted
  PROVE  HistInv'
<1>1. disk' # NoDisk
  BY Records
<1>2. Shaped'
  BY <1>1 DEF HistInv, Shaped
<1>3. Recorded'
  BY <1>1 DEF HistInv, Recorded, Up
<1>4. Scanned'
  BY DEF HistInv, Recorded, Scanned
<1> QED
  BY <1>2, <1>3, <1>4 DEF HistInv

\* The steps of a round but for its line and its schedule, and of its adoption.
LEMMA QuietInv ==
  ASSUME HistInv, disk # NoDisk, UNCHANGED disk, UNCHANGED <<log, made>> \/
           (\E what, ref : Event(what, ref) /\ UNCHANGED made),
         file'.meta = file.meta, file'.sched = file.sched, file'.rotten = file.rotten,
         file' = [meta |-> file'.meta, sched |-> file'.sched, rotten |-> file'.rotten,
                  full |-> file'.full, coarse |-> file'.coarse, latest |-> file'.latest],
         pc' # "down", pc' # "idle" => disk.adopted
  PROVE  HistInv'
<1>1. /\ DOMAIN log' = Logs /\ log'["rounds"] = log["rounds"] /\ UNCHANGED made
      /\ Rows' = Rows
  BY EventFields DEF HistInv, Shaped, Rows
<1>2. /\ disk \in Meta /\ disk.number \in Nat /\ file.sched \in Nat \cup {-1}
      /\ made \in [round : Nat, cuts : Nat, enabled : BOOLEAN, forgot : BOOLEAN]
      /\ log["rounds"] \in [lines : Seq(Row), loose : Nat, torn : BOOLEAN]
  BY DEF HistInv, Shaped
<1> QED
  BY <1>1, <1>2, Beside

\* Whoever is at a step of a round has an adopted disk.
LEMMA AtRound ==
  ASSUME HistInv, NEW step, At(step), step \notin {"idle", "down"}
  PROVE  disk # NoDisk /\ disk.adopted /\ disk \in Meta /\ disk.number \in Nat
BY DEF HistInv, Shaped, Scanned, At

LEMMA FileKept == HistInv /\ UNCHANGED file =>
  /\ file'.meta = file.meta /\ file'.sched = file.sched /\ file'.rotten = file.rotten
  /\ file' = [meta |-> file'.meta, sched |-> file'.sched, rotten |-> file'.rotten,
              full |-> file'.full, coarse |-> file'.coarse, latest |-> file'.latest]
BY DEF HistInv, Shaped

\* A map that is saved, or pruned.
FileOf(full, coarse, latest) ==
  [meta |-> file.meta, sched |-> file.sched, rotten |-> file.rotten,
   full |-> full, coarse |-> coarse, latest |-> latest]
MapsOnly ==
  /\ file'.meta = file.meta /\ file'.sched = file.sched /\ file'.rotten = file.rotten
  /\ file' = [meta |-> file'.meta, sched |-> file'.sched, rotten |-> file'.rotten,
              full |-> file'.full, coarse |-> file'.coarse, latest |-> file'.latest]

LEMMA RoundInv ==
  ASSUME HistInv,
         Begins \/ Defers \/ Heals \/ Ends \/ SaveFull \/ SaveLatest \/ SaveCoarse \/ Prune
           \/ AppendEvent
  PROVE  HistInv'
<1>1. CASE Begins
  <2>1. /\ disk # NoDisk /\ disk.adopted /\ pc' = "reading" /\ UNCHANGED <<file, log, disk>>
        /\ made' = [made EXCEPT !.round = made.round + 1, !.forgot = FALSE]
    BY <1>1 DEF Begins, At
  <2>2. /\ made' \in [round : Nat, cuts : Nat, enabled : BOOLEAN, forgot : BOOLEAN]
        /\ made'.enabled = made.enabled
    <3>1. made \in [round : Nat, cuts : Nat, enabled : BOOLEAN, forgot : BOOLEAN]
      BY DEF HistInv, Shaped
    <3>2. made.round + 1 \in Nat
      BY <3>1
    <3> QED
      BY <2>1, <3>1, <3>2
  <2>3. /\ disk \in Meta /\ disk.number \in Nat /\ file.sched \in Nat \cup {-1}
        /\ DOMAIN log = Logs /\ Rows' = Rows
        /\ log["rounds"] \in [lines : Seq(Row), loose : Nat, torn : BOOLEAN]
    BY <2>1 DEF HistInv, Shaped, Rows
  <2> QED
    BY <2>1, <2>2, <2>3, FileKept, Beside
<1>2. CASE Defers \/ Heals \/ AppendEvent
  <2>1. /\ disk # NoDisk /\ disk.adopted /\ pc' # "down" /\ UNCHANGED <<file, disk, made>>
        /\ \E what, ref : Event(what, ref)
    BY <1>2, AtRound DEF Defers, Heals, AppendEvent, At
  <2> QED
    BY <2>1, FileKept, QuietInv
<1>3. CASE Ends
  <2>1. disk # NoDisk /\ disk.adopted /\ pc' # "down" /\ UNCHANGED <<file, disk, made, log>>
    BY <1>3, AtRound DEF Ends
  <2> QED
    BY <2>1, FileKept, QuietInv
<1>4. CASE SaveFull \/ SaveLatest \/ SaveCoarse \/ Prune
  <2>1. disk # NoDisk /\ disk.adopted /\ pc' # "down" /\ UNCHANGED <<disk, made, log>>
    BY <1>4, AtRound DEF SaveFull, SaveLatest, SaveCoarse, Prune
  <2>2. MapsOnly
    <3> DEFINE F == Put(file.full, Number, made.round)
               C == Put(file.coarse, Number, made.round)
               PF == Pruned(file.full, KeepFull)
               PC == Pruned(file.coarse, KeepCoarse)
    <3>1. file = FileOf(file.full, file.coarse, file.latest)
      BY DEF HistInv, Shaped, FileOf
    <3>2. \/ file' = [file EXCEPT !.full = F]
          \/ file' = [file EXCEPT !.coarse = C]
          \/ file' = [file EXCEPT !.latest = made.round]
          \/ file' = [file EXCEPT !.full = PF, !.coarse = PC]
      BY <1>4 DEF SaveFull, SaveLatest, SaveCoarse, Prune
    <3> HIDE DEF F, C, PF, PC
    <3>3. CASE file' = [file EXCEPT !.full = F]
      BY <3>1, <3>3 DEF FileOf, MapsOnly
    <3>4. CASE file' = [file EXCEPT !.coarse = C]
      BY <3>1, <3>4 DEF FileOf, MapsOnly
    <3>5. CASE file' = [file EXCEPT !.latest = made.round]
      BY <3>1, <3>5 DEF FileOf, MapsOnly
    <3>6. CASE file' = [file EXCEPT !.full = PF, !.coarse = PC]
      BY <3>1, <3>6 DEF FileOf, MapsOnly
    <3> QED
      BY <3>2, <3>3, <3>4, <3>5, <3>6
  <2> QED
    BY <2>1, <2>2, QuietInv DEF MapsOnly
<1> QED
  BY <1>1, <1>2, <1>3, <1>4

LEMMA AdoptScheduleInv == HistInv /\ AdoptSchedule => HistInv'
<1> SUFFICES ASSUME HistInv, AdoptSchedule PROVE HistInv'
  OBVIOUS
<1>1. /\ pc = "adopting" /\ pc' = "idle" /\ SaveSchedule(disk) /\ UNCHANGED <<disk, made>>
      /\ \E what, ref : Event(what, ref)
  BY DEF AdoptSchedule
<1>2. /\ disk # NoDisk /\ disk \in Meta /\ disk.number \in Nat
      /\ made \in [round : Nat, cuts : Nat, enabled : BOOLEAN, forgot : BOOLEAN]
      /\ log["rounds"] \in [lines : Seq(Row), loose : Nat, torn : BOOLEAN]
  BY <1>1, Records DEF HistInv, Shaped, Scanned
<1>3. /\ file'.meta = file.meta /\ file'.sched \in Nat /\ file'.rotten \subseteq file.rotten
      /\ file' = [meta |-> file'.meta, sched |-> file'.sched, rotten |-> file'.rotten,
                  full |-> file'.full, coarse |-> file'.coarse, latest |-> file'.latest]
  BY <1>1, <1>2, SaveScheduleFields DEF HistInv
<1>4. DOMAIN log' = Logs /\ log'["rounds"] = log["rounds"] /\ Rows' = Rows
  BY <1>1, EventFields DEF HistInv
<1> QED
  BY <1>1, <1>2, <1>3, <1>4, Beside

LEMMA NextScheduleInv == HistInv /\ NextSchedule => HistInv'
<1> SUFFICES ASSUME HistInv, NextSchedule PROVE HistInv'
  OBVIOUS
<1>1. /\ At("sched") /\ pc' = "event" /\ disk' = [disk EXCEPT !.number = disk.number + 1]
      /\ SaveSchedule(disk') /\ UNCHANGED <<log, made>>
  BY DEF NextSchedule, Number
<1>2. disk # NoDisk /\ disk.adopted /\ disk \in Meta /\ disk.number \in Nat
  BY <1>1, AtRound
<1> DEFINE n == disk.number + 1
<1>3. /\ disk' \in Meta /\ disk'.number \in Nat /\ disk'.adopted = disk.adopted
      /\ disk'.enabled = disk.enabled
  <2>1. n \in Nat /\ disk' = [disk EXCEPT !.number = n]
    BY <1>1, <1>2
  <2> HIDE DEF n
  <2> QED
    BY <1>2, <2>1 DEF Meta
<1>4. /\ file'.meta = file.meta /\ file'.sched \in Nat /\ file'.rotten \subseteq file.rotten
      /\ file' = [meta |-> file'.meta, sched |-> file'.sched, rotten |-> file'.rotten,
                  full |-> file'.full, coarse |-> file'.coarse, latest |-> file'.latest]
  BY <1>1, <1>3, SaveScheduleFields DEF HistInv
<1>5. /\ made \in [round : Nat, cuts : Nat, enabled : BOOLEAN, forgot : BOOLEAN]
      /\ DOMAIN log = Logs /\ Rows' = Rows
      /\ log["rounds"] \in [lines : Seq(Row), loose : Nat, torn : BOOLEAN]
  BY <1>1 DEF HistInv, Shaped, Rows
<1> QED
  BY <1>1, <1>2, <1>3, <1>4, <1>5, Beside

LEMMA LogType ==
  ASSUME NEW S, NEW a \in S, NEW n \in Nat
  PROVE  [lines |-> a, loose |-> n, torn |-> FALSE] \in [lines : S, loose : Nat, torn : BOOLEAN]
OBVIOUS

LEMMA RowType ==
  ASSUME HistInv, NEW n \in Nat, NEW line, line = [what |-> "round", id |-> n, round |-> made.round, ref |-> 0]
  PROVE  /\ Extended(log["rounds"], line) \in [lines : Seq(Row), loose : Nat, torn : BOOLEAN]
         /\ Extended(log["rounds"], line).lines # <<>>
<1> DEFINE l == log["rounds"]
           x == IF l.torn THEN Garbled ELSE line
<1>1. line \in Row /\ Garbled \in Row
  BY DEF HistInv, Shaped, Row, Garbled
<1>2. l \in [lines : Seq(Row), loose : Nat, torn : BOOLEAN]
  BY DEF HistInv, Shaped
<1> HIDE DEF l
<1>3. x \in Row
  BY <1>1
<1>4. Extended(l, line) = [lines |-> Append(l.lines, x), loose |-> l.loose + 1, torn |-> FALSE]
  BY DEF Extended
<1> HIDE DEF x
<1>7. Append(l.lines, x) \in Seq(Row) /\ Append(l.lines, x) # <<>>
  <2>1. l.lines \in Seq(Row)
    BY <1>2
  <2>2. Append(l.lines, x) \in Seq(Row) /\ Len(Append(l.lines, x)) = Len(l.lines) + 1
    BY <1>3, <2>1
  <2>3. Len(l.lines) \in Nat
    BY <2>1
  <2> QED
    BY <2>2, <2>3
<1>5. Extended(l, line) \in [lines : Seq(Row), loose : Nat, torn : BOOLEAN]
  <2>1. l.loose + 1 \in Nat
    BY <1>2
  <2>2. [lines |-> Append(l.lines, x), loose |-> l.loose + 1, torn |-> FALSE]
          \in [lines : Seq(Row), loose : Nat, torn : BOOLEAN]
    BY <1>7, <2>1, LogType
  <2> QED
    BY <1>4, <2>2, Zenon
<1>6. Extended(l, line).lines # <<>>
  BY <1>4, <1>7
<1> QED
  BY <1>5, <1>6 DEF l

LEMMA AppendRoundInv == HistInv /\ AppendRound => HistInv'
<1> SUFFICES ASSUME HistInv, AppendRound PROVE HistInv'
  OBVIOUS
<1> DEFINE line == [what |-> "round", id |-> Number, round |-> made.round, ref |-> 0]
<1>1. /\ At("round") /\ pc' = "sched" /\ UNCHANGED <<file, disk, made>>
      /\ log' = [log EXCEPT !["rounds"] = Extended(log["rounds"], line)]
  BY DEF AppendRound, Appended
<1>2. disk # NoDisk /\ disk.adopted /\ disk \in Meta /\ disk.number \in Nat /\ Number \in Nat
  BY <1>1, AtRound DEF Number
<1>3. Extended(log["rounds"], line) \in [lines : Seq(Row), loose : Nat, torn : BOOLEAN]
  BY <1>2, RowType
<1> HIDE DEF line
<1>4. /\ DOMAIN log' = Logs
      /\ log'["rounds"] \in [lines : Seq(Row), loose : Nat, torn : BOOLEAN]
  BY <1>1, <1>3 DEF HistInv, Shaped, Logs
<1>5. /\ made \in [round : Nat, cuts : Nat, enabled : BOOLEAN, forgot : BOOLEAN]
      /\ file.sched \in Nat \cup {-1}
  BY DEF HistInv, Shaped
<1> QED
  BY <1>1, <1>2, <1>4, <1>5, FileKept, Beside

LEMMA FoldBytesInv == HistInv /\ FoldBytes => HistInv'
<1> SUFFICES ASSUME HistInv, FoldBytes PROVE HistInv'
  OBVIOUS
<1>1. At("meta") /\ pc' = "idle" /\ SaveMeta(disk) /\ UNCHANGED <<log, disk, made>>
  BY DEF FoldBytes
<1>2. disk # NoDisk /\ disk.adopted /\ disk \in Meta /\ disk.number \in Nat
  BY <1>1, AtRound
<1>3. Shaped'
  <2>1. made' \in [round : Nat, cuts : Nat, enabled : BOOLEAN, forgot : BOOLEAN]
    BY <1>1 DEF HistInv, Shaped
  <2> QED
    BY <1>1, <1>2, <2>1, SavedShape DEF HistInv
<1>4. file.meta # NoDisk
  BY <1>2 DEF HistInv, Recorded
<1>5. Recorded' /\ Scanned'
  BY <1>1, <1>2, <1>4, SaveMetaFields DEF HistInv, Recorded, Scanned, Rows, Up
<1> QED
  BY <1>3, <1>5 DEF HistInv

\* What a power cut leaves of a log is a part of it.
LEMMA CutType ==
  ASSUME HistInv, NEW r \in Cut(log["rounds"])
  PROVE  /\ r \in [lines : Seq(Row), loose : Nat, torn : BOOLEAN]
         /\ r.lines # <<>> => Rows # <<>>
<1> DEFINE l == log["rounds"]
<1>1. l \in [lines : Seq(Row), loose : Nat, torn : BOOLEAN]
  BY DEF HistInv, Shaped
<1> HIDE DEF l
<1>2. \E k \in 0 .. l.loose, t \in BOOLEAN :
        r = [lines |-> SubSeq(l.lines, 1, Len(l.lines) - k), loose |-> 0, torn |-> t]
  <2>1. \/ \E k \in 0 .. l.loose :
             r = [lines |-> SubSeq(l.lines, 1, Len(l.lines) - k), loose |-> 0, torn |-> l.torn /\ k = 0]
        \/ \E k \in 1 .. l.loose :
             r = [lines |-> SubSeq(l.lines, 1, Len(l.lines) - k), loose |-> 0, torn |-> TRUE]
    BY DEF Cut, l
  <2>2. \A k : (l.torn /\ k = 0) \in BOOLEAN
    BY <1>1
  <2>3. 1 .. l.loose \subseteq 0 .. l.loose
    BY <1>1
  <2> QED
    BY <2>1, <2>2, <2>3, Zenon
<1>3. PICK k \in 0 .. l.loose, t \in BOOLEAN :
        r = [lines |-> SubSeq(l.lines, 1, Len(l.lines) - k), loose |-> 0, torn |-> t]
  BY <1>2
<1>4. /\ Len(l.lines) \in Nat /\ Len(l.lines) - k \in Int /\ Len(l.lines) - k <= Len(l.lines)
      /\ l.lines \in Seq(Row)
  BY <1>1
<1>5. /\ SubSeq(l.lines, 1, Len(l.lines) - k) \in Seq(Row)
      /\ l.lines = <<>> => SubSeq(l.lines, 1, Len(l.lines) - k) = <<>>
  BY <1>4
<1> QED
  BY <1>3, <1>5 DEF l, Rows

LEMMA DownInv ==
  ASSUME HistInv, Down, UNCHANGED file, made'.enabled = made.enabled,
         made' \in [round : Nat, cuts : Nat, enabled : BOOLEAN, forgot : BOOLEAN],
         DOMAIN log' = Logs, log'["rounds"] \in [lines : Seq(Row), loose : Nat, torn : BOOLEAN],
         Rows' # <<>> => Rows # <<>>
  PROVE  HistInv'
<1>1. disk' = NoDisk /\ pc' = "down"
  BY DEF Down
<1>2. Shaped'
  BY <1>1, Records DEF HistInv, Shaped
<1>3. Recorded' /\ Scanned'
  BY <1>1 DEF HistInv, Recorded, Scanned, Up
<1> QED
  BY <1>2, <1>3 DEF HistInv

LEMMA KilledInv == HistInv /\ Killed => HistInv'
<1> SUFFICES ASSUME HistInv, Killed PROVE HistInv'
  OBVIOUS
<1>1. Down /\ UNCHANGED <<file, log, made>>
  BY DEF Killed
<1>2. /\ made \in [round : Nat, cuts : Nat, enabled : BOOLEAN, forgot : BOOLEAN]
      /\ DOMAIN log = Logs /\ Rows' = Rows
      /\ log["rounds"] \in [lines : Seq(Row), loose : Nat, torn : BOOLEAN]
  BY <1>1 DEF HistInv, Shaped, Rows
<1> QED
  BY <1>1, <1>2, DownInv

LEMMA PowerCutInv == Rots = {} => (HistInv /\ PowerCut => HistInv')
<1> SUFFICES ASSUME Rots = {}, HistInv, PowerCut PROVE HistInv'
  OBVIOUS
<1>1. made' = [made EXCEPT !.cuts = made.cuts + 1] /\ Down
  BY DEF PowerCut
<1>2. PICK r \in Cut(log["rounds"]), e \in Cut(log["events"]) :
        log' = [n \in Logs |-> IF n = "rounds" THEN r ELSE e]
  BY DEF PowerCut
<1>3. DOMAIN log' = Logs /\ log'["rounds"] = r
  BY <1>2 DEF Logs
<1>4. /\ r \in [lines : Seq(Row), loose : Nat, torn : BOOLEAN]
      /\ r.lines # <<>> => Rows # <<>>
  BY CutType
<1>5. UNCHANGED file
  <2>1. file' = [file EXCEPT !.rotten = file.rotten]
    BY DEF PowerCut, HistInv, Recorded
  <2> QED
    BY <2>1 DEF HistInv, Shaped
<1>6. /\ made' \in [round : Nat, cuts : Nat, enabled : BOOLEAN, forgot : BOOLEAN]
      /\ made'.enabled = made.enabled
  <2>1. made \in [round : Nat, cuts : Nat, enabled : BOOLEAN, forgot : BOOLEAN]
    BY DEF HistInv, Shaped
  <2>2. made.cuts + 1 \in Nat
    BY <2>1
  <2> QED
    BY <1>1, <2>1, <2>2
<1>7. Rows' = r.lines
  BY <1>3 DEF Rows
<1> QED
  BY <1>1, <1>3, <1>4, <1>5, <1>6, <1>7, DownInv

LEMMA WrittenBackInv == HistInv /\ WrittenBack => HistInv'
<1> SUFFICES ASSUME HistInv, WrittenBack PROVE HistInv'
  OBVIOUS
<1>1. /\ log' = [n \in Logs |-> [log[n] EXCEPT !.loose = 0]]
      /\ UNCHANGED <<file, disk, pc, made>>
  BY DEF WrittenBack
<1>2. log["rounds"] \in [lines : Seq(Row), loose : Nat, torn : BOOLEAN]
  BY DEF HistInv, Shaped
<1>3. DOMAIN log' = Logs /\ log'["rounds"] = [log["rounds"] EXCEPT !.loose = 0]
  BY <1>1 DEF Logs
<1>4. /\ log'["rounds"] \in [lines : Seq(Row), loose : Nat, torn : BOOLEAN]
      /\ Rows' = Rows
  BY <1>2, <1>3 DEF Rows
<1>5. Shaped'
  BY <1>1, <1>3, <1>4 DEF HistInv, Shaped
<1> QED
  BY <1>1, <1>4, <1>5 DEF HistInv, Recorded, Scanned, Up

LEMMA HistoryNext == Rots = {} => (HistInv /\ [Next]_vars => HistInv')
<1> SUFFICES ASSUME Rots = {}, HistInv, [Next]_vars PROVE HistInv'
  OBVIOUS
<1>1. CASE Plug \/ UNCHANGED vars
  BY <1>1 DEF Plug, vars, HistInv, Shaped, Recorded, Scanned, Rows, Up
<1> QED
  BY <1>1, StartInv, DiscoverInv, AdoptInv, AdoptScheduleInv, LeavesInv, ForgetInv, SetEnabledInv,
     RoundInv, AppendRoundInv, NextScheduleInv, FoldBytesInv, KilledInv, PowerCutInv,
     WrittenBackInv
  DEF Next

LEMMA HistoryAlways == ASSUME Rots = {} PROVE Spec => []HistInv
BY InitInv, HistoryNext, PTL DEF Spec

-----------------------------------------------------------------------------
(***************************************************************************)
(* What follows.                                                           *)
(***************************************************************************)

\* As long as a start can read meta.json and schedule.json, a disk its owner
\* excluded stays excluded, through every kill and power cut, unplugging, sweep
\* and round in between (supervisor.go:241-245).
THEOREM ExclusionStays == ASSUME Rots = {} PROVE Spec => []ExclusionKept
<1>1. HistInv => ExclusionKept
  BY DEF HistInv, Recorded, ExclusionKept
<1> QED
  BY <1>1, HistoryAlways, PTL

\* As long as a start can read meta.json and schedule.json, the rounds of a disk
\* are deleted by Forget only, or lost in a power cut: the sweep of a disk that
\* leaves in its probation finds none (supervisor.go:234-239).
THEOREM OnlyForgetDeletes == ASSUME Rots = {} PROVE Spec => HistoryOnlyForgotten
<1> DEFINE Lost == log["rounds"].lines # <<>> /\ log'["rounds"].lines = <<>>
           Explained == Lost => made'.forgot \/ PowerCut
<1>1. HistInv /\ [Next]_vars => [Explained]_vars
  <2> SUFFICES ASSUME HistInv, [Next]_vars, Lost, ~made'.forgot, ~PowerCut PROVE FALSE
    OBVIOUS
  <2>1. log'["rounds"] # log["rounds"] /\ Rows # <<>> /\ file.meta.adopted
    BY DEF HistInv, Scanned, Rows
  <2>2. CASE Leaves
    BY <2>1, <2>2 DEF Leaves, Swept, HistInv, Recorded
  <2>3. CASE Forget
    BY <2>3 DEF Forget, HistInv, Shaped
  <2>4. CASE AppendRound
    <3> DEFINE line == [what |-> "round", id |-> Number, round |-> made.round, ref |-> 0]
    <3>1. At("round") /\ log' = [log EXCEPT !["rounds"] = Extended(log["rounds"], line)]
      BY <2>4 DEF AppendRound, Appended
    <3>2. Number \in Nat
      BY <3>1, AtRound DEF Number
    <3>3. Extended(log["rounds"], line).lines # <<>>
      BY <3>2, RowType
    <3> HIDE DEF line
    <3> QED
      BY <3>1, <3>3 DEF HistInv, Shaped, Logs
  <2>5. CASE WrittenBack
    <3>1. log'["rounds"] = [log["rounds"] EXCEPT !.loose = 0]
      BY <2>5 DEF WrittenBack, Logs
    <3>2. log["rounds"] \in [lines : Seq(Row), loose : Nat, torn : BOOLEAN]
      BY DEF HistInv, Shaped
    <3>3. log'["rounds"].lines = log["rounds"].lines
      BY <3>1, <3>2
    <3> QED
      BY <3>3
  <2>6. CASE Defers \/ Heals \/ AppendEvent \/ AdoptSchedule
    <3>1. \E what, ref : Event(what, ref)
      BY <2>6 DEF Defers, Heals, AppendEvent, AdoptSchedule
    <3> QED
      BY <2>1, <3>1, EventFields DEF HistInv
  <2>7. CASE UNCHANGED log
    BY <2>1, <2>7
  <2> QED
    BY <2>2, <2>3, <2>4, <2>5, <2>6, <2>7
    DEF Next, Start, Discover, Adopt, SetEnabled, Plug, Begins, Ends, SaveFull, SaveLatest,
        SaveCoarse, Prune, NextSchedule, FoldBytes, Killed, vars
<1> QED
  BY <1>1, HistoryAlways, PTL DEF Spec, HistoryOnlyForgotten

-----------------------------------------------------------------------------
(***************************************************************************)
(* What the directory lists, whatever is cut short and whatever cannot be  *)
(* read.                                                                   *)
(***************************************************************************)

\* A finite set of numbers has a greatest one.
LEMMA GreatestOf ==
  ASSUME NEW S \in SUBSET Nat, IsFiniteSet(S), S # {}
  PROVE  \E n \in S : \A k \in S : k <= n
<1> DEFINE Bad == {X \in SUBSET Nat : IsFiniteSet(X) /\ X # {} /\ ~ \E n \in X : \A k \in X : k <= n}
<1>1. SUFFICES ASSUME Bad # {} PROVE FALSE
  OBVIOUS
<1>2. Bad \subseteq FiniteSubsetsOf(Nat)
  BY DEF FiniteSubsetsOf
<1>3. PICK X \in Bad : \A Y \in Bad : ~(<<Y, X>> \in StrictSubsetOrdering(Nat))
  <2> HIDE DEF Bad
  <2> QED
    BY <1>1, <1>2, FS_StrictSubsetOrderingWellFounded, WFMin, Zenon
<1>4. PICK x \in X : TRUE
  OBVIOUS
<1>5. X \ {x} \in SUBSET Nat /\ IsFiniteSet(X \ {x}) /\ <<X \ {x}, X>> \in StrictSubsetOrdering(Nat)
  BY <1>4, FS_RemoveElement DEF StrictSubsetOrdering
<1>6. X \ {x} \notin Bad
  BY <1>3, <1>5
<1>7. CASE X = {x}
  BY <1>7
<1>8. CASE X # {x}
  <2>1. PICK m \in X \ {x} : \A k \in X \ {x} : k <= m
    BY <1>4, <1>5, <1>6, <1>8
  <2>2. m \in Nat /\ x \in Nat /\ X \subseteq Nat
    BY <1>4, <2>1
  <2>3. CASE m <= x
    <3>1. \A k \in X : k <= x
      BY <2>1, <2>2, <2>3
    <3> QED
      BY <1>4, <3>1
  <2>4. CASE ~(m <= x)
    <3>1. \A k \in X : k <= m
      BY <2>1, <2>2, <2>4
    <3> QED
      BY <2>1, <3>1
  <2> QED
    BY <2>3, <2>4
<1> QED
  BY <1>7, <1>8

\* The maps of finitely many rounds, by number.
MapSet == UNION {[D -> Nat] : D \in {S \in SUBSET Nat : IsFiniteSet(S)}}

LEMMA MapSetIs ==
  ASSUME NEW maps
  PROVE  maps \in MapSet <=> /\ DOMAIN maps \subseteq Nat /\ IsFiniteSet(DOMAIN maps)
                             /\ maps \in [DOMAIN maps -> Nat]
BY DEF MapSet

LEMMA PutType ==
  ASSUME NEW maps \in MapSet, NEW n \in Nat, NEW r \in Nat
  PROVE  Put(maps, n, r) \in MapSet /\ DOMAIN Put(maps, n, r) = DOMAIN maps \cup {n}
<1>1. /\ DOMAIN maps \subseteq Nat /\ IsFiniteSet(DOMAIN maps) /\ maps \in [DOMAIN maps -> Nat]
  BY MapSetIs
<1>2. IsFiniteSet(DOMAIN maps \cup {n})
  BY <1>1, FS_AddElement
<1>3. DOMAIN Put(maps, n, r) = DOMAIN maps \cup {n}
  BY DEF Put
<1>4. Put(maps, n, r) \in [DOMAIN maps \cup {n} -> Nat]
  BY <1>1 DEF Put
<1> QED
  BY <1>1, <1>2, <1>3, <1>4, MapSetIs

LEMMA PrunedType ==
  ASSUME NEW maps \in MapSet, NEW keep
  PROVE  /\ Pruned(maps, keep) \in MapSet
         /\ DOMAIN Pruned(maps, keep) = Newest(maps, keep)
<1>1. /\ DOMAIN maps \subseteq Nat /\ IsFiniteSet(DOMAIN maps) /\ maps \in [DOMAIN maps -> Nat]
  BY MapSetIs
<1>2. Newest(maps, keep) \subseteq DOMAIN maps
  BY DEF Newest
<1>3. IsFiniteSet(Newest(maps, keep))
  BY <1>1, <1>2, FS_Subset
<1>4. Pruned(maps, keep) \in [Newest(maps, keep) -> Nat]
  BY <1>1, <1>2 DEF Pruned
<1> QED
  BY <1>1, <1>2, <1>3, <1>4, MapSetIs

\* The map of a round is there, unless as many later rounds as are kept have one.
KeptOne(maps, id, keep) == (\A n \in DOMAIN maps : n < id + keep) => id \in DOMAIN maps

\* One more map takes nothing from the others.
LEMMA PutKeeps ==
  ASSUME NEW maps \in MapSet, NEW keep \in Nat \ {0}, NEW id \in Nat, NEW n \in Nat,
         NEW r \in Nat
  PROVE  /\ KeptOne(maps, id, keep) => KeptOne(Put(maps, n, r), id, keep)
         /\ KeptOne(Put(maps, n, r), n, keep)
<1>1. DOMAIN Put(maps, n, r) = DOMAIN maps \cup {n}
  BY PutType
<1> DEFINE M == Put(maps, n, r)
<1> HIDE DEF M
<1> QED
  BY <1>1 DEF KeptOne, M

\* Whatever prune deletes, as many later maps as are kept are left.
LEMMA PrunedKeeps ==
  ASSUME NEW maps \in MapSet, NEW keep \in Nat \ {0}, NEW id \in Nat, KeptOne(maps, id, keep)
  PROVE  KeptOne(Pruned(maps, keep), id, keep)
<1> DEFINE D == DOMAIN maps
           N == Newest(maps, keep)
           Later(n) == {k \in D : k > n}
<1>1. D \subseteq Nat /\ IsFiniteSet(D)
  BY MapSetIs
<1>2. DOMAIN Pruned(maps, keep) = N
  BY PrunedType
<1>3. SUFFICES ASSUME \A n \in N : n < id + keep
               PROVE  id \in N
  BY <1>2 DEF KeptOne
<1>4. \A n \in D : n < id + keep
  <2>1. SUFFICES ASSUME D # {} PROVE \A n \in D : n < id + keep
    OBVIOUS
  <2>2. PICK m \in D : \A n \in D : n <= m
    BY <1>1, <2>1, GreatestOf
  <2>3. Later(m) = {}
    BY <1>1, <2>2
  <2>4. m \in N
    BY <2>2, <2>3, FS_EmptySet DEF Newest
  <2> QED
    BY <1>1, <1>3, <2>2, <2>4
<1>5. id \in D
  BY <1>4 DEF KeptOne
<1>6. Later(id) \subseteq (id + 1) .. (id + keep - 1)
  BY <1>1, <1>4
<1>7. /\ IsFiniteSet((id + 1) .. (id + keep - 1))
      /\ Cardinality((id + 1) .. (id + keep - 1)) = keep - 1
  <2> DEFINE a == id + 1
             b == id + keep - 1
  <2>1. a \in Int /\ b \in Int /\ b - a + 1 = keep - 1 /\ (a > b => keep - 1 = 0)
    OBVIOUS
  <2> HIDE DEF a, b
  <2>2. IsFiniteSet(a .. b) /\ Cardinality(a .. b) = IF a > b THEN 0 ELSE b - a + 1
    BY <2>1, FS_Interval
  <2>3. Cardinality(a .. b) = keep - 1
    BY <2>1, <2>2
  <2> QED
    BY <2>2, <2>3 DEF a, b
<1>8. Cardinality(Later(id)) <= keep - 1 /\ Cardinality(Later(id)) \in Nat
  BY <1>6, <1>7, FS_Subset, FS_CardinalityType
<1> QED
  BY <1>5, <1>8 DEF Newest

-----------------------------------------------------------------------------
\* Types, whatever can be read.
Line == [what : {"round", "deferred", "healed", "adopted", "garbled"}, id : Nat, round : Nat, ref : Nat]
Log == [lines : Seq(Line), loose : Nat, torn : BOOLEAN]
Files == [meta : Meta, sched : Nat \cup {-1}, rotten : SUBSET {"meta", "sched"},
          full : MapSet, coarse : MapSet, latest : Nat]
Made == [round : Nat, cuts : Nat, enabled : BOOLEAN, forgot : BOOLEAN]

HistoryType ==
  /\ disk \in Meta /\ (disk # NoDisk => disk.number \in Nat)
  /\ file \in Files
  /\ made \in Made
  /\ log \in [Logs -> Log] /\ lines \in [Logs -> Seq(Line)]
  /\ retry \in Nat /\ eventID \in Nat

\* The highest of what is listed.
LEMMA HighestIs ==
  ASSUME log \in [Logs -> Log]
  PROVE  HighestEventID \in Nat /\ \A e \in Lines("events") : e.id <= HighestEventID
<1> DEFINE l == log["events"].lines
           P == Legible("events")
           f == [i \in P |-> l[i].id]
           ids == {e.id : e \in Lines("events")} \cup {0}
<1>1. l \in Seq(Line)
  BY DEF Log, Logs
<1>2. P \subseteq 1 .. Len(l) /\ Len(l) \in Nat /\ \A i \in P : l[i] \in Line /\ l[i].id \in Nat
  <2>1. P \subseteq DOMAIN l
    BY DEF Legible
  <2> HIDE DEF l, P
  <2>2. DOMAIN l = 1 .. Len(l) /\ Len(l) \in Nat /\ \A i \in DOMAIN l : l[i] \in Line
    BY <1>1
  <2>3. \A x \in Line : x.id \in Nat
    BY DEF Line
  <2> QED
    BY <2>1, <2>2, <2>3
<1>3. IsFiniteSet(P)
  <2>1. IsFiniteSet(1 .. Len(l))
    BY <1>2, FS_Interval
  <2> QED
    BY <1>2, <2>1, FS_Subset
<1>4. f \in Surjection(P, {f[i] : i \in P})
  BY DEF Surjection
<1>5. IsFiniteSet({f[i] : i \in P})
  <2> HIDE DEF f, P
  <2> QED
    BY <1>3, <1>4, FS_Surjection
<1>6. ids = {f[i] : i \in P} \cup {0}
  BY DEF Lines
<1>7. ids \in SUBSET Nat /\ IsFiniteSet(ids) /\ ids # {}
  <2>1. {f[i] : i \in P} \subseteq Nat
    BY <1>2
  <2> HIDE DEF f, P, ids
  <2> QED
    BY <1>5, <1>6, <2>1, FS_AddElement
<1>8. HighestEventID = CHOOSE n \in ids : \A k \in ids : k <= n
  BY DEF HighestEventID
<1> HIDE DEF ids
<1>9. \E n \in ids : \A k \in ids : k <= n
  BY <1>7, GreatestOf
<1>10. HighestEventID \in ids /\ \A k \in ids : k <= HighestEventID
  BY <1>8, <1>9
<1> QED
  BY <1>7, <1>10 DEF ids

LEMMA ExtendedIs ==
  ASSUME NEW l \in Log, NEW line \in Line
  PROVE  /\ Extended(l, line) \in Log
         /\ Extended(l, line).lines = Append(l.lines, IF l.torn THEN Garbled ELSE line)
         /\ Extended(l, line).torn = FALSE
<1> DEFINE x == IF l.torn THEN Garbled ELSE line
<1>1. Extended(l, line) = [lines |-> Append(l.lines, x), loose |-> l.loose + 1, torn |-> FALSE]
  BY DEF Extended
<1>2. x \in Line
  BY DEF Line, Garbled
<1> HIDE DEF x
<1>3. Append(l.lines, x) \in Seq(Line)
  BY <1>2 DEF Log
<1>4. l.loose + 1 \in Nat
  BY DEF Log
<1>5. [lines |-> Append(l.lines, x), loose |-> l.loose + 1, torn |-> FALSE] \in Log
  BY <1>3, <1>4, LogType DEF Log
<1>6. Extended(l, line).lines = Append(l.lines, x) /\ Extended(l, line).torn = FALSE
  BY <1>1
<1>7. Extended(l, line) \in Log
  BY <1>1, <1>5, Zenon
<1> QED
  BY <1>6, <1>7 DEF x

\* A line joins its log and the record of what was appended.
LEMMA AppendedIs ==
  ASSUME HistoryType, NEW name \in Logs, NEW line \in Line, Appended(name, line)
  PROVE  /\ log' \in [Logs -> Log] /\ lines' \in [Logs -> Seq(Line)]
         /\ log'[name].lines = Append(log[name].lines, IF log[name].torn THEN Garbled ELSE line)
         /\ log'[name].torn = FALSE
         /\ lines'[name] = Append(lines[name], line)
         /\ \A n \in Logs \ {name} : log'[n] = log[n] /\ lines'[n] = lines[n]
<1>1. log[name] \in Log /\ lines[name] \in Seq(Line)
  BY DEF HistoryType
<1> DEFINE l == Extended(log[name], line)
           a == Append(lines[name], line)
<1>2. l \in Log /\ l.lines = Append(log[name].lines, IF log[name].torn THEN Garbled ELSE line)
      /\ l.torn = FALSE
  BY <1>1, ExtendedIs
<1>3. a \in Seq(Line)
  BY <1>1
<1>4. log' = [log EXCEPT ![name] = l] /\ lines' = [lines EXCEPT ![name] = a]
  BY DEF Appended
<1>5. lines'[name] = a
  BY <1>4 DEF HistoryType
<1> HIDE DEF l, a
<1>6. /\ log' \in [Logs -> Log] /\ lines' \in [Logs -> Seq(Line)] /\ log'[name] = l
      /\ \A n \in Logs \ {name} : log'[n] = log[n] /\ lines'[n] = lines[n]
  BY <1>2, <1>3, <1>4 DEF HistoryType
<1> QED
  BY <1>2, <1>5, <1>6 DEF a

\* An event, under the next id.
EventLine(what, ref) == [what |-> what, id |-> eventID + 1, round |-> made.round, ref |-> ref]

LEMMA EventIs ==
  ASSUME HistoryType, NEW what \in {"round", "deferred", "healed", "adopted"}, NEW ref \in Nat,
         Event(what, ref)
  PROVE  /\ EventLine(what, ref) \in Line /\ Appended("events", EventLine(what, ref))
         /\ eventID' = eventID + 1 /\ eventID' \in Nat
<1> DEFINE n == eventID + 1
<1>1. n \in Nat
  BY DEF HistoryType
<1>2. EventLine(what, ref) = [what |-> what, id |-> n, round |-> made.round, ref |-> ref]
  BY DEF EventLine
<1>3. made.round \in Nat
  BY DEF HistoryType, Made
<1> HIDE DEF n
<1>4. EventLine(what, ref) \in Line
  BY <1>1, <1>2, <1>3 DEF Line
<1> QED
  BY <1>1, <1>4 DEF Event, EventLine, n

\* A power cut takes an end of a log, and leaves the rest as it was.
LEMMA CutIs ==
  ASSUME NEW l \in Log, NEW r \in Cut(l)
  PROVE  /\ r \in Log /\ Len(r.lines) <= Len(l.lines)
         /\ \A i \in 1 .. Len(r.lines) : r.lines[i] = l.lines[i]
<1>1. PICK k \in 0 .. l.loose, t \in BOOLEAN :
        r = [lines |-> SubSeq(l.lines, 1, Len(l.lines) - k), loose |-> 0, torn |-> t]
  <2>1. \/ \E k \in 0 .. l.loose :
             r = [lines |-> SubSeq(l.lines, 1, Len(l.lines) - k), loose |-> 0, torn |-> l.torn /\ k = 0]
        \/ \E k \in 1 .. l.loose :
             r = [lines |-> SubSeq(l.lines, 1, Len(l.lines) - k), loose |-> 0, torn |-> TRUE]
    BY DEF Cut
  <2>2. \A k : (l.torn /\ k = 0) \in BOOLEAN
    BY DEF Log
  <2>3. 1 .. l.loose \subseteq 0 .. l.loose
    BY DEF Log
  <2> QED
    BY <2>1, <2>2, <2>3, Zenon
<1> DEFINE n == Len(l.lines) - k
           s == SubSeq(l.lines, 1, n)
<1>2. /\ l.lines \in Seq(Line) /\ n \in Int /\ n <= Len(l.lines) /\ Len(l.lines) \in Nat
  BY DEF Log
<1>3. /\ s \in Seq(Line) /\ Len(s) <= Len(l.lines)
      /\ \A i \in 1 .. Len(s) : s[i] = l.lines[i]
  <2> HIDE DEF n
  <2> QED
    BY <1>2
<1> HIDE DEF s
<1>4. [lines |-> s, loose |-> 0, torn |-> t] \in Log
  BY <1>3 DEF Log
<1> QED
  BY <1>1, <1>3, <1>4 DEF s

LEMMA NothingIs == NoFiles \in Files /\ NoLog \in Log /\ <<>> \in Seq(Line)
<1>1. <<>> \in MapSet
  <2>1. DOMAIN <<>> = {} /\ <<>> \in [{} -> Nat]
    OBVIOUS
  <2> QED
    BY <2>1, FS_EmptySet, MapSetIs
<1>2. NoFiles \in Files
  BY <1>1, Records DEF NoFiles, Files
<1> QED
  BY <1>2 DEF NoLog, Log

LEMMA SaveMetaIs ==
  ASSUME HistoryType, NEW d \in Meta, SaveMeta(d)
  PROVE  file' \in Files /\ file'.full = file.full /\ file'.coarse = file.coarse
<1> DEFINE m == [d EXCEPT !.number = 0]
           r == file.rotten \ {"meta"}
<1>1. m \in Meta
  BY DEF Meta
<1>2. file' = [file EXCEPT !.meta = m, !.rotten = r] /\ file \in Files
  BY DEF SaveMeta, HistoryType
<1>3. r \in SUBSET {"meta", "sched"}
  BY <1>2 DEF Files
<1> HIDE DEF m, r
<1> QED
  BY <1>1, <1>2, <1>3 DEF Files

LEMMA SaveScheduleIs ==
  ASSUME HistoryType, NEW d \in Meta, SaveSchedule(d)
  PROVE  file' \in Files /\ file'.full = file.full /\ file'.coarse = file.coarse
<1> DEFINE r == file.rotten \ {"sched"}
<1>1. /\ file' = [file EXCEPT !.sched = d.number, !.rotten = r] /\ file \in Files
      /\ d.number \in Nat \cup {-1}
  BY DEF SaveSchedule, HistoryType, Meta
<1>2. r \in SUBSET {"meta", "sched"}
  BY <1>1 DEF Files
<1> HIDE DEF r
<1> QED
  BY <1>1, <1>2 DEF Files

LEMMA LoadedIs ==
  ASSUME HistoryType
  PROVE  Loaded(file) \in Meta /\ (Loaded(file) # NoDisk => Loaded(file).number \in Nat)
<1> DEFINE n == IF file.sched = -1 THEN 0 ELSE file.sched
<1>1. n \in Nat /\ file.meta \in Meta
  BY DEF HistoryType, Files
<1>2. Loaded(file) = NoDisk \/ Loaded(file) = [file.meta EXCEPT !.number = n]
  BY DEF Loaded
<1> HIDE DEF n
<1>3. [file.meta EXCEPT !.number = n] \in Meta /\ [file.meta EXCEPT !.number = n].number = n
  BY <1>1 DEF Meta
<1> QED
  BY <1>1, <1>2, <1>3, Records

LEMMA DeleteIs ==
  ASSUME DeleteDisk
  PROVE  /\ file' \in Files /\ log' \in [Logs -> Log] /\ lines' \in [Logs -> Seq(Line)]
         /\ disk' = NoDisk /\ disk' \in Meta
         /\ \A n \in Logs : log'[n] = NoLog /\ lines'[n] = <<>>
BY NothingIs, Records DEF DeleteDisk

LEMMA RoundLineIs ==
  ASSUME HistoryType, disk # NoDisk
  PROVE  /\ Number \in Nat
         /\ [what |-> "round", id |-> Number, round |-> made.round, ref |-> 0] \in Line
<1>1. Number \in Nat /\ made.round \in Nat
  BY DEF HistoryType, Number, Made
<1> HIDE DEF Number
<1> QED
  BY <1>1 DEF Line

\* The steps that write an event.
Eventful == AdoptSchedule \/ Defers \/ Heals \/ AppendEvent

LEMMA EventfulIs ==
  ASSUME HistoryType, Eventful
  PROVE  \E what \in {"round", "deferred", "healed", "adopted"}, ref \in Nat :
           /\ Event(what, ref)
           /\ what = "healed" => Heals /\ ref = retry
           /\ Defers => what = "deferred"
<1>1. Defers => ~AdoptSchedule /\ ~Heals /\ ~AppendEvent
  BY DEF AdoptSchedule, Defers, Heals, AppendEvent, At
<1>2. CASE Defers
  BY <1>2 DEF Defers
<1>3. CASE Heals
  BY <1>1, <1>3 DEF Heals, HistoryType
<1>4. CASE AdoptSchedule \/ AppendEvent
  BY <1>1, <1>4 DEF AdoptSchedule, AppendEvent
<1> QED
  BY <1>2, <1>3, <1>4 DEF Eventful

LEMMA HistoryTypeInit == Init => HistoryType
<1> SUFFICES ASSUME Init PROVE HistoryType
  OBVIOUS
<1> QED
  BY NothingIs, Records DEF Init, HistoryType, Made

LEMMA HistoryTypeNext == HistoryType /\ [Next]_vars => HistoryType'
<1> SUFFICES ASSUME HistoryType, [Next]_vars PROVE HistoryType'
  OBVIOUS
<1>0. /\ disk \in Meta /\ file \in Files /\ made \in Made /\ log \in [Logs -> Log]
      /\ lines \in [Logs -> Seq(Line)] /\ retry \in Nat /\ eventID \in Nat
      /\ disk # NoDisk => disk.number \in Nat
  BY DEF HistoryType
<1>1. CASE Start
  BY <1>0, <1>1, LoadedIs, HighestIs DEF Start, HistoryType
<1>2. CASE Discover
  <2>1. file' \in Files
    BY <1>2, Records, SaveMetaIs DEF Discover
  <2> QED
    BY <1>0, <1>2, <2>1, Records DEF Discover, HistoryType
<1>3. CASE Adopt
  <2>1. disk' \in Meta /\ disk'.number = 0
    BY <1>0, <1>3 DEF Adopt, Meta
  <2>2. file' \in Files
    BY <1>3, <2>1, SaveMetaIs DEF Adopt
  <2> QED
    BY <1>0, <1>3, <2>1, <2>2 DEF Adopt, HistoryType
<1>4. CASE Leaves \/ Forget
  <2>1. DeleteDisk /\ UNCHANGED <<retry, eventID>>
    BY <1>4 DEF Leaves, Forget
  <2>2. made' \in Made
    BY <1>0, <1>4 DEF Leaves, Forget, Made
  <2> QED
    BY <1>0, <2>1, <2>2, DeleteIs DEF HistoryType
<1>5. CASE SetEnabled
  <2>1. /\ disk' \in Meta /\ disk'.number = disk.number /\ disk'.enabled \in BOOLEAN
        /\ disk # NoDisk
    BY <1>0, <1>5 DEF SetEnabled, Meta
  <2>2. file' \in Files
    BY <1>5, <2>1, SaveMetaIs DEF SetEnabled
  <2>3. made' \in Made
    BY <1>0, <1>5, <2>1 DEF SetEnabled, Made
  <2> QED
    BY <1>0, <1>5, <2>1, <2>2, <2>3 DEF SetEnabled, HistoryType
<1>6. CASE Begins
  <2> DEFINE n == made.round + 1
  <2>1. n \in Nat /\ made' = [made EXCEPT !.round = n, !.forgot = FALSE]
    BY <1>0, <1>6 DEF Begins, Made
  <2> HIDE DEF n
  <2>2. made' \in Made
    BY <1>0, <2>1 DEF Made
  <2> QED
    BY <1>0, <1>6, <2>2 DEF Begins, HistoryType
<1>7. CASE Eventful
  <2>1. PICK what \in {"round", "deferred", "healed", "adopted"}, ref \in Nat : Event(what, ref)
    BY <1>7, EventfulIs
  <2>2. /\ eventID' \in Nat /\ log' \in [Logs -> Log] /\ lines' \in [Logs -> Seq(Line)]
    BY <2>1, EventIs, AppendedIs DEF Logs
  <2>3. file' \in Files
    BY <1>0, <1>7, SaveScheduleIs DEF Eventful, AdoptSchedule, Defers, Heals, AppendEvent
  <2> QED
    BY <1>0, <1>7, <2>2, <2>3 DEF Eventful, AdoptSchedule, Defers, Heals, AppendEvent, HistoryType
<1>8. CASE SaveFull \/ SaveLatest \/ SaveCoarse \/ Prune
  <2>1. Number \in Nat /\ made.round \in Nat /\ file.full \in MapSet /\ file.coarse \in MapSet
    BY <1>0, <1>8, RoundLineIs DEF SaveFull, SaveLatest, SaveCoarse, Prune, At, Made, Files
  <2> DEFINE F == Put(file.full, Number, made.round)
             C == Put(file.coarse, Number, made.round)
             PF == Pruned(file.full, KeepFull)
             PC == Pruned(file.coarse, KeepCoarse)
  <2>2. F \in MapSet /\ C \in MapSet /\ PF \in MapSet /\ PC \in MapSet
    BY <2>1, PutType, PrunedType
  <2>3. \/ file' = [file EXCEPT !.full = F]
        \/ file' = [file EXCEPT !.coarse = C]
        \/ file' = [file EXCEPT !.latest = made.round]
        \/ file' = [file EXCEPT !.full = PF, !.coarse = PC]
    BY <1>8 DEF SaveFull, SaveLatest, SaveCoarse, Prune
  <2> HIDE DEF F, C, PF, PC
  <2>4. file' \in Files
    BY <1>0, <2>1, <2>2, <2>3 DEF Files
  <2> QED
    BY <1>0, <1>8, <2>4 DEF SaveFull, SaveLatest, SaveCoarse, Prune, HistoryType
<1>9. CASE AppendRound
  <2>1. log' \in [Logs -> Log] /\ lines' \in [Logs -> Seq(Line)]
    BY <1>9, RoundLineIs, AppendedIs DEF AppendRound, At, Logs
  <2> QED
    BY <1>0, <1>9, <2>1 DEF AppendRound, HistoryType
<1>10. CASE NextSchedule
  <2> DEFINE n == Number
  <2>1. n \in Nat /\ disk' = [disk EXCEPT !.number = n]
    BY <1>10, RoundLineIs DEF NextSchedule, At
  <2> HIDE DEF n
  <2>2. disk' \in Meta /\ disk'.number = n
    BY <1>0, <2>1 DEF Meta
  <2>3. file' \in Files
    BY <1>10, <2>1, <2>2, SaveScheduleIs DEF NextSchedule
  <2> QED
    BY <1>0, <1>10, <2>1, <2>2, <2>3 DEF NextSchedule, HistoryType
<1>11. CASE FoldBytes
  <2>1. file' \in Files
    BY <1>0, <1>11, SaveMetaIs DEF FoldBytes
  <2> QED
    BY <1>0, <1>11, <2>1 DEF FoldBytes, HistoryType
<1>12. CASE Killed
  BY <1>0, <1>12, Records DEF Killed, Down, HistoryType
<1>13. CASE PowerCut
  <2>1. PICK r \in Cut(log["rounds"]), e \in Cut(log["events"]) :
          log' = [n \in Logs |-> IF n = "rounds" THEN r ELSE e]
    BY <1>13 DEF PowerCut
  <2>2. log' \in [Logs -> Log]
    BY <1>0, <2>1, CutIs DEF Logs
  <2>3. file' \in Files
    <3>1. PICK rotten \in SUBSET Rots : file' = [file EXCEPT !.rotten = file.rotten \cup rotten]
      BY <1>13 DEF PowerCut
    <3>2. file.rotten \cup rotten \in SUBSET {"meta", "sched"}
      BY <1>0, HistoryAssumption DEF Files
    <3> DEFINE all == file.rotten \cup rotten
    <3> HIDE DEF all
    <3> QED
      BY <1>0, <3>1, <3>2 DEF Files, all
  <2>4. made' \in Made
    <3> DEFINE n == made.cuts + 1
    <3>1. n \in Nat /\ made' = [made EXCEPT !.cuts = n]
      BY <1>0, <1>13 DEF PowerCut, Made
    <3> HIDE DEF n
    <3> QED
      BY <1>0, <3>1 DEF Made
  <2>5. lines' \in [Logs -> Seq(Line)]
    BY <1>13, NothingIs DEF PowerCut
  <2> QED
    BY <1>13, <2>2, <2>3, <2>4, <2>5, Records DEF PowerCut, Down, HistoryType
<1>14. CASE WrittenBack
  <2>1. \A n \in Logs : [log[n] EXCEPT !.loose = 0] \in Log
    BY <1>0 DEF Log
  <2> QED
    BY <1>0, <1>14, <2>1 DEF WrittenBack, HistoryType
<1>15. CASE Ends \/ Plug \/ UNCHANGED vars
  BY <1>0, <1>15 DEF Ends, Plug, vars, HistoryType
<1> QED
  BY <1>1, <1>2, <1>3, <1>4, <1>5, <1>6, <1>7, <1>8, <1>9, <1>10, <1>11, <1>12, <1>13, <1>14,
     <1>15
  DEF Next, Eventful

-----------------------------------------------------------------------------
\* What has been appended since the last power cut is the end of the log: only
\* the first of it can have become one line with what the cut had left.
Ending(l, torn, a) ==
  LET k == Len(l) - Len(a) IN
  /\ k >= 0
  /\ torn => a = <<>>
  /\ \A i \in 2 .. Len(a) : a[i] # Garbled /\ l[k + i] = a[i]
EndsWith(n) == Ending(log[n].lines, log[n].torn, lines[n])

LEMMA EndsWithAppended ==
  ASSUME HistoryType, NEW name \in Logs, NEW line \in Line, line # Garbled,
         Appended(name, line), EndsWith(name)
  PROVE  EndsWith(name)'
<1> DEFINE l == log[name].lines
           a == lines[name]
           x == IF log[name].torn THEN Garbled ELSE line
           k == Len(l) - Len(a)
<1>1. l \in Seq(Line) /\ a \in Seq(Line) /\ x \in Line
  BY DEF HistoryType, Log, Line, Garbled
<1>2. log'[name].lines = Append(l, x) /\ lines'[name] = Append(a, line) /\ log'[name].torn = FALSE
  BY AppendedIs
<1>3. /\ k >= 0 /\ (a # <<>> => x = line)
      /\ \A i \in 2 .. Len(a) : a[i] # Garbled /\ l[k + i] = a[i]
  BY DEF EndsWith, Ending
<1> HIDE DEF l, a, x
<1>4. /\ Len(Append(l, x)) = Len(l) + 1 /\ Len(Append(a, line)) = Len(a) + 1
      /\ Len(l) \in Nat /\ Len(a) \in Nat
      /\ \A i \in 1 .. Len(l) : Append(l, x)[i] = l[i]
      /\ \A i \in 1 .. Len(a) : Append(a, line)[i] = a[i]
      /\ Append(l, x)[Len(l) + 1] = x /\ Append(a, line)[Len(a) + 1] = line
  BY <1>1
<1>5. ASSUME NEW i \in 2 .. Len(a) + 1
      PROVE  Append(a, line)[i] # Garbled /\ Append(l, x)[k + i] = Append(a, line)[i]
  <2>1. CASE i \in 2 .. Len(a)
    <3>1. k + i \in 1 .. Len(l)
      BY <1>3, <1>4, <2>1
    <3> QED
      BY <1>3, <1>4, <2>1, <3>1
  <2>2. CASE i = Len(a) + 1
    <3>1. k + i = Len(l) + 1 /\ a # <<>>
      BY <1>1, <1>4, <1>5, <2>2
    <3> QED
      BY <1>3, <1>4, <2>2, <3>1
  <2>3. i \in 2 .. Len(a) \/ i = Len(a) + 1
    BY <1>4, <1>5
  <2> QED
    BY <2>1, <2>2, <2>3
<1>6. Len(Append(l, x)) - Len(Append(a, line)) = k
  BY <1>4
<1>7. Ending(Append(l, x), FALSE, Append(a, line))
  BY <1>3, <1>4, <1>5, <1>6 DEF Ending
<1> QED
  BY <1>2, <1>7 DEF EndsWith

LEMMA EndsWithNext ==
  ASSUME HistoryType, [Next]_vars, \A n \in Logs : EndsWith(n)
  PROVE  \A n \in Logs : EndsWith(n)'
<1>1. \A name \in Logs, line \in Line :
        Appended(name, line) /\ line # Garbled => \A n \in Logs : EndsWith(n)'
  <2> SUFFICES ASSUME NEW name \in Logs, NEW line \in Line, Appended(name, line),
                      line # Garbled, NEW n \in Logs
               PROVE  EndsWith(n)'
    OBVIOUS
  <2>1. CASE n = name
    BY <2>1, EndsWithAppended
  <2>2. CASE n # name
    BY <2>2, AppendedIs DEF EndsWith
  <2> QED
    BY <2>1, <2>2
<1>2. CASE Eventful
  <2>1. PICK what \in {"round", "deferred", "healed", "adopted"}, ref \in Nat : Event(what, ref)
    BY <1>2, EventfulIs
  <2>2. EventLine(what, ref) # Garbled
    BY DEF EventLine, Garbled
  <2> QED
    BY <1>1, <2>1, <2>2, EventIs DEF Logs
<1>3. CASE AppendRound
  <2> DEFINE line == [what |-> "round", id |-> Number, round |-> made.round, ref |-> 0]
  <2>1. line \in Line /\ Appended("rounds", line)
    BY <1>3, RoundLineIs DEF AppendRound, At
  <2>2. line # Garbled
    BY DEF Garbled
  <2> HIDE DEF line
  <2> QED
    BY <1>1, <2>1, <2>2 DEF Logs
<1>4. CASE Leaves \/ Forget
  <2>1. \A n \in Logs : log'[n] = NoLog /\ lines'[n] = <<>>
    BY <1>4, DeleteIs DEF Leaves, Forget
  <2>2. NoLog.lines = <<>> /\ NoLog.torn = FALSE
    BY DEF NoLog
  <2>3. Ending(<<>>, FALSE, <<>>)
    BY DEF Ending
  <2> QED
    BY <2>1, <2>2, <2>3 DEF EndsWith
<1>5. CASE PowerCut
  <2>1. PICK r \in Cut(log["rounds"]), e \in Cut(log["events"]) :
          log' = [n \in Logs |-> IF n = "rounds" THEN r ELSE e]
    BY <1>5 DEF PowerCut
  <2>2. r \in Log /\ e \in Log
    BY <2>1, CutIs DEF HistoryType, Logs
  <2>3. \A n \in Logs : lines'[n] = <<>> /\ log'[n] \in Log
    BY <1>5, <2>1, <2>2 DEF PowerCut
  <2>4. \A l \in Log : Ending(l.lines, l.torn, <<>>)
    BY DEF Log, Ending
  <2> QED
    BY <2>3, <2>4 DEF EndsWith
<1>6. CASE WrittenBack
  <2>1. \A n \in Logs : log'[n].lines = log[n].lines /\ log'[n].torn = log[n].torn
    BY <1>6 DEF WrittenBack, HistoryType, Log
  <2>2. lines' = lines
    BY <1>6 DEF WrittenBack
  <2> QED
    BY <2>1, <2>2 DEF EndsWith
<1>7. CASE UNCHANGED <<log, lines>>
  BY <1>7 DEF EndsWith
<1> QED
  BY <1>2, <1>3, <1>4, <1>5, <1>6, <1>7
  DEF Next, Eventful, Start, Discover, Adopt, SetEnabled, Plug, Begins, Ends, SaveFull,
      SaveLatest, SaveCoarse, Prune, NextSchedule, FoldBytes, Killed, vars

\* Whatever a power cut tears, what is appended after it is read back, but for
\* at most the first line of each log (store.go:365-367 and 406).
THEOREM TearCostsOneLine == Spec => []TornCostsOne
<1> DEFINE Inv == HistoryType /\ \A n \in Logs : EndsWith(n)
<1>1. Init => Inv
  BY HistoryTypeInit DEF Init, EndsWith, Ending, NoLog
<1>2. Inv /\ [Next]_vars => Inv'
  BY HistoryTypeNext, EndsWithNext
<1>3. Inv => TornCostsOne
  <2> SUFFICES ASSUME Inv, NEW n \in Logs, NEW i \in 2 .. Len(lines[n])
               PROVE  lines[n][i] \in Lines(n)
    BY DEF TornCostsOne
  <2> DEFINE l == log[n].lines
             k == Len(l) - Len(lines[n])
  <2>1. l \in Seq(Line) /\ lines[n] \in Seq(Line)
    BY DEF HistoryType, Log
  <2>2. k >= 0 /\ lines[n][i] # Garbled /\ l[k + i] = lines[n][i]
    BY DEF EndsWith, Ending
  <2>3. k + i \in DOMAIN l
    <3> DEFINE a == lines[n]
    <3>1. Len(l) \in Nat /\ Len(a) \in Nat /\ DOMAIN l = 1 .. Len(l) /\ i \in 2 .. Len(a)
      BY <2>1
    <3> HIDE DEF l, a
    <3> QED
      BY <2>2, <3>1 DEF a
  <2>4. k + i \in Legible(n)
    BY <2>2, <2>3 DEF Legible
  <2> QED
    BY <2>2, <2>4 DEF Lines
<1> QED
  BY <1>1, <1>2, <1>3, PTL DEF Spec

-----------------------------------------------------------------------------
\* What the events say of each other.  A healed block points back to an event of
\* its round, and no id is given out twice, lost events' included, as long as a
\* later one that points to it is listed.
Linked ==
  /\ \A i, j \in Legible("events") :
       log["events"].lines[i].id = log["events"].lines[j].id => i = j
  /\ \A e \in Lines("events") : e.what = "healed" => e.ref < e.id
  /\ \A e, x \in Lines("events") :
       e.what = "healed" /\ x.id = e.ref => x.what = "deferred" /\ x.round = e.round

Counted == Up => \A e \in Lines("events") : e.id <= eventID

Retried ==
  retry # 0 => /\ pc = "reading" /\ retry <= eventID
               /\ \A x \in Lines("events") :
                    x.id = retry => x.what = "deferred" /\ x.round = made.round

EventsInv == Linked /\ Counted /\ Retried

LEMMA LinesAre ==
  ASSUME HistoryType, NEW e \in Lines("events")
  PROVE  e \in Line /\ e.id \in Nat /\ e.ref \in Nat /\ e # Garbled
<1>1. log["events"].lines \in Seq(Line)
  BY DEF HistoryType, Logs, Log
<1> DEFINE l == log["events"].lines
<1> HIDE DEF l
<1>2. \A i \in DOMAIN l : l[i] \in Line
  BY <1>1 DEF l
<1>3. e \in Line /\ e # Garbled
  BY <1>2 DEF Lines, Legible, l
<1> QED
  BY <1>3 DEF Line

\* A log that lists a part of what it did is linked as it was.
Part == \A i \in Legible("events")' :
          i \in Legible("events") /\ log'["events"].lines[i] = log["events"].lines[i]

LEMMA PartLinked ==
  ASSUME Linked, Part
  PROVE  Linked' /\ Lines("events")' \subseteq Lines("events")
<1>1. Lines("events")' \subseteq Lines("events")
  BY DEF Part, Lines
<1> QED
  BY <1>1 DEF Linked, Part

\* An event that is appended is the last one listed, or one with half a line.
LEMMA EventAdds ==
  ASSUME HistoryType, NEW line \in Line, line # Garbled, Appended("events", line)
  PROVE  \/ Part
         \/ LET last == Len(log["events"].lines) + 1 IN
            /\ Legible("events")' = Legible("events") \cup {last}
            /\ last \notin Legible("events")
            /\ log'["events"].lines[last] = line
            /\ \A i \in Legible("events") : log'["events"].lines[i] = log["events"].lines[i]
            /\ Lines("events")' = Lines("events") \cup {line}
<1> DEFINE l == log["events"].lines
           m == log'["events"].lines
           x == IF log["events"].torn THEN Garbled ELSE line
           last == Len(l) + 1
<1>1. l \in Seq(Line) /\ x \in Line
  BY DEF HistoryType, Log, Logs, Line, Garbled
<1>2. m = Append(l, x)
  BY AppendedIs DEF Logs
<1>3. /\ Legible("events") = {i \in DOMAIN l : l[i] # Garbled}
      /\ Legible("events")' = {i \in DOMAIN m : m[i] # Garbled}
      /\ Lines("events") = {l[i] : i \in Legible("events")}
      /\ Lines("events")' = {m[i] : i \in Legible("events")'}
  BY DEF Legible, Lines
<1> DEFINE P == Legible("events")
           Q == Legible("events")'
           A == Lines("events")
           B == Lines("events")'
<1>4. Part = (\A i \in Q : i \in P /\ m[i] = l[i])
  BY DEF Part
<1>c. x = Garbled \/ x = line
  OBVIOUS
<1> HIDE DEF l, m, x, P, Q, A, B
<1>5. /\ DOMAIN m = DOMAIN l \cup {last} /\ last \notin DOMAIN l /\ m[last] = x
      /\ \A i \in DOMAIN l : m[i] = l[i]
  BY <1>1, <1>2
<1>6. CASE x = Garbled
  <2>1. \A i \in Q : i \in P /\ m[i] = l[i]
    BY <1>3, <1>5, <1>6 DEF P, Q
  <2> QED
    BY <1>4, <2>1
<1>7. CASE x = line
  <2>1. Q = P \cup {last} /\ last \notin P /\ \A i \in P : m[i] = l[i]
    BY <1>3, <1>5, <1>7 DEF P, Q
  <2>2. B = A \cup {line}
    BY <1>3, <1>5, <1>7, <2>1 DEF P, Q, A, B
  <2> QED
    BY <1>5, <1>7, <2>1, <2>2 DEF l, m, P, Q, A, B
<1> QED
  BY <1>c, <1>6, <1>7

LEMMA EventsEventful == ASSUME HistoryType, EventsInv, Eventful PROVE EventsInv'
<1>0. Up /\ Up' /\ UNCHANGED made
  BY DEF Eventful, AdoptSchedule, Defers, Heals, AppendEvent, At, Up
<1>1. PICK what \in {"round", "deferred", "healed", "adopted"}, ref \in Nat :
        /\ Event(what, ref)
        /\ what = "healed" => Heals /\ ref = retry
        /\ Defers => what = "deferred"
  BY EventfulIs
<1> DEFINE N == EventLine(what, ref)
<1>2. /\ N \in Line /\ N # Garbled /\ Appended("events", N)
      /\ N.id = eventID + 1 /\ N.what = what /\ N.ref = ref /\ N.round = made.round
      /\ eventID' = eventID + 1 /\ eventID \in Nat /\ retry \in Nat
  <2>1. N.what = what /\ N # Garbled /\ N.id = eventID + 1 /\ N.ref = ref /\ N.round = made.round
    BY DEF EventLine, Garbled
  <2> QED
    BY <1>1, <2>1, EventIs DEF HistoryType
<1> HIDE DEF N
<1>3. \A e \in Lines("events") : e.id <= eventID /\ e.id \in Nat /\ e.ref \in Nat
  BY <1>0, LinesAre DEF EventsInv, Counted
<1>4. what = "healed" => retry # 0 /\ ref = retry /\ retry' = 0
  BY <1>1 DEF Heals
<1>5. Linked' /\ Lines("events")' \subseteq Lines("events") \cup {N}
  <2>1. CASE Part
    BY <2>1, PartLinked DEF EventsInv
  <2>2. CASE ~Part
    <3> DEFINE last == Len(log["events"].lines) + 1
    <3>1. /\ Legible("events")' = Legible("events") \cup {last}
          /\ last \notin Legible("events")
          /\ log'["events"].lines[last] = N
          /\ \A i \in Legible("events") : log'["events"].lines[i] = log["events"].lines[i]
          /\ Lines("events")' = Lines("events") \cup {N}
      BY <1>2, <2>2, EventAdds
    <3> HIDE DEF last
    <3>2. \A i \in Legible("events") : log["events"].lines[i].id <= eventID
                                       /\ log["events"].lines[i].id \in Nat
      BY <1>3 DEF Lines
    <3>3. \A i, j \in Legible("events")' :
            log'["events"].lines[i].id = log'["events"].lines[j].id => i = j
      BY <1>2, <3>1, <3>2 DEF EventsInv, Linked
    <3>4. \A e \in Lines("events")' : e.what = "healed" => e.ref < e.id
      BY <1>2, <1>4, <3>1 DEF EventsInv, Linked, Retried
    <3>5. \A e, x \in Lines("events")' :
            e.what = "healed" /\ x.id = e.ref => x.what = "deferred" /\ x.round = e.round
      <4> SUFFICES ASSUME NEW e \in Lines("events")', NEW x \in Lines("events")',
                          e.what = "healed", x.id = e.ref
                   PROVE  x.what = "deferred" /\ x.round = e.round
        OBVIOUS
      <4>1. CASE x = N
        BY <1>2, <1>3, <1>4, <3>1, <4>1 DEF EventsInv, Linked, Retried
      <4>2. CASE e = N /\ x # N
        BY <1>2, <1>4, <3>1, <4>2 DEF EventsInv, Retried
      <4>3. CASE e # N /\ x # N
        BY <3>1, <4>3 DEF EventsInv, Linked
      <4> QED
        BY <4>1, <4>2, <4>3
    <3> QED
      BY <3>1, <3>3, <3>4, <3>5 DEF Linked
  <2> QED
    BY <2>1, <2>2
<1>6. Counted'
  BY <1>2, <1>3, <1>5 DEF Counted
<1>7. Retried'
  <2>1. CASE Defers
    <3>1. retry' = eventID' /\ pc' = "reading" /\ what = "deferred"
      BY <1>1, <2>1 DEF Defers, At
    <3> QED
      BY <1>0, <1>2, <1>3, <1>5, <3>1 DEF Retried
  <2>2. CASE Heals
    BY <2>2 DEF Heals, Retried
  <2>3. CASE AdoptSchedule \/ AppendEvent
    BY <2>3 DEF AdoptSchedule, AppendEvent, At, EventsInv, Retried
  <2> QED
    BY <2>1, <2>2, <2>3 DEF Eventful
<1> QED
  BY <1>5, <1>6, <1>7 DEF EventsInv

LEMMA EventsPart ==
  ASSUME EventsInv, Part, eventID' = eventID, Up' => Up,
         retry' = 0 \/ (retry' = retry /\ pc' = pc /\ made'.round = made.round)
  PROVE  EventsInv'
<1>1. Linked' /\ Lines("events")' \subseteq Lines("events")
  BY PartLinked DEF EventsInv
<1>2. Counted'
  BY <1>1 DEF EventsInv, Counted
<1>3. Retried'
  BY <1>1 DEF EventsInv, Retried
<1> QED
  BY <1>1, <1>2, <1>3 DEF EventsInv

LEMMA SameLines == log'["events"].lines = log["events"].lines => Part
BY DEF Part, Legible

LEMMA EventsNext == HistoryType /\ EventsInv /\ [Next]_vars => EventsInv'
<1> SUFFICES ASSUME HistoryType, EventsInv, [Next]_vars PROVE EventsInv'
  OBVIOUS
<1>1. CASE Start
  <2>1. Part /\ retry = 0 /\ retry' = 0
    BY <1>1, SameLines DEF Start, EventsInv, Retried, Up
  <2>2. Linked' /\ Lines("events")' \subseteq Lines("events")
    BY <2>1, PartLinked DEF EventsInv
  <2>3. \A e \in Lines("events") : e.id <= eventID'
    BY <1>1, HighestIs DEF Start, HistoryType
  <2> QED
    BY <2>1, <2>2, <2>3 DEF EventsInv, Counted, Retried
<1>2. CASE Leaves \/ Forget
  <2>1. log'["events"].lines = <<>> /\ pc = "idle" /\ UNCHANGED <<pc, retry, eventID>>
    BY <1>2, DeleteIs DEF Leaves, Forget, Logs, NoLog
  <2>2. Part
    BY <2>1 DEF Part, Legible
  <2>3. retry' = 0
    BY <2>1 DEF EventsInv, Retried
  <2> QED
    BY <2>1, <2>2, <2>3, EventsPart DEF Up
<1>3. CASE Eventful
  BY <1>3, EventsEventful
<1>4. CASE AppendRound
  <2> DEFINE line == [what |-> "round", id |-> Number, round |-> made.round, ref |-> 0]
  <2>1. line \in Line /\ Appended("rounds", line)
    BY <1>4, RoundLineIs DEF AppendRound, At
  <2> HIDE DEF line
  <2>2. log'["events"] = log["events"]
    BY <2>1, AppendedIs DEF Logs
  <2>3. retry' = 0 /\ eventID' = eventID /\ Up
    BY <1>4 DEF AppendRound, At, EventsInv, Retried, Up
  <2> QED
    BY <2>2, <2>3, SameLines, EventsPart
<1>5. CASE PowerCut
  <2>1. PICK r \in Cut(log["rounds"]), e \in Cut(log["events"]) :
          log' = [n \in Logs |-> IF n = "rounds" THEN r ELSE e]
    BY <1>5 DEF PowerCut
  <2> DEFINE l == log["events"].lines
             m == e.lines
  <2>2. log["events"] \in Log /\ log'["events"] = e
    BY <2>1 DEF HistoryType, Logs
  <2>3. /\ m \in Seq(Line) /\ l \in Seq(Line) /\ Len(m) <= Len(l)
        /\ \A i \in 1 .. Len(m) : m[i] = l[i]
    BY <2>2, CutIs DEF Log
  <2>4. \A i \in DOMAIN m : i \in DOMAIN l /\ m[i] = l[i]
    <3> HIDE DEF l, m
    <3> QED
      BY <2>3
  <2>5. Part
    BY <2>2, <2>4 DEF Part, Legible
  <2>6. retry' = 0 /\ ~Up'
    BY <1>5 DEF PowerCut, Down, Up
  <2>7. Linked' /\ Lines("events")' \subseteq Lines("events")
    BY <2>5, PartLinked DEF EventsInv
  <2> QED
    BY <2>6, <2>7 DEF EventsInv, Counted, Retried
<1>6. CASE Killed
  <2>1. Part /\ retry' = 0 /\ ~Up'
    BY <1>6, SameLines DEF Killed, Down, Up
  <2>2. Linked' /\ Lines("events")' \subseteq Lines("events")
    BY <2>1, PartLinked DEF EventsInv
  <2> QED
    BY <2>1, <2>2 DEF EventsInv, Counted, Retried
<1>7. CASE WrittenBack
  <2>1. log'["events"].lines = log["events"].lines
    BY <1>7 DEF WrittenBack, HistoryType, Log, Logs
  <2> QED
    BY <1>7, <2>1, SameLines, EventsPart DEF WrittenBack, Up
<1>8. CASE Begins \/ Ends \/ Adopt
  <2>1. Part /\ eventID' = eventID /\ Up
    BY <1>8, SameLines DEF Begins, Ends, Adopt, At, Up
  <2>2. retry' = 0
    BY <1>8 DEF Begins, Ends, Adopt, At, EventsInv, Retried
  <2> QED
    BY <2>1, <2>2, EventsPart
<1>9. CASE SaveFull \/ SaveLatest \/ SaveCoarse \/ Prune \/ NextSchedule \/ FoldBytes
  <2>1. Part /\ eventID' = eventID /\ Up
    BY <1>9, SameLines DEF SaveFull, SaveLatest, SaveCoarse, Prune, NextSchedule, FoldBytes, At, Up
  <2>2. retry' = 0
    BY <1>9 DEF SaveFull, SaveLatest, SaveCoarse, Prune, NextSchedule, FoldBytes, At, EventsInv,
                Retried
  <2> QED
    BY <2>1, <2>2, EventsPart
<1>10. CASE Discover \/ SetEnabled \/ Plug \/ UNCHANGED vars
  <2>1. log' = log /\ retry' = retry /\ pc' = pc /\ eventID' = eventID
    BY <1>10 DEF Discover, SetEnabled, Plug, vars
  <2>2. made'.round = made.round
    BY <1>10 DEF Discover, SetEnabled, Plug, vars, HistoryType, Made
  <2> QED
    BY <2>1, <2>2, SameLines, EventsPart DEF Up
<1> QED
  BY <1>1, <1>2, <1>3, <1>4, <1>5, <1>6, <1>7, <1>8, <1>9, <1>10 DEF Next, Eventful

\* No two listed events have one id, and a healed block points to the deferral
\* of its own round wherever that is listed: what a power cut takes of the log,
\* and whatever half line it leaves, the ids counted on from the highest that is
\* listed never corrupt the links (highestEventID, store.go:466-468).
THEOREM LinksHold == Spec => []RefsHold
<1> DEFINE Inv == HistoryType /\ EventsInv
<1>1. Init => Inv
  BY HistoryTypeInit DEF Init, EventsInv, Linked, Counted, Retried, Lines, Legible, NoLog, Logs
<1>2. Inv /\ [Next]_vars => Inv'
  BY HistoryTypeNext, EventsNext
<1>3. Inv => RefsHold
  BY DEF EventsInv, Linked, RefsHold
<1> QED
  BY <1>1, <1>2, <1>3, PTL DEF Spec

-----------------------------------------------------------------------------
\* The maps are saved before the line that lists the round.
MapsFirst ==
  /\ pc \in {"latest", "coarse", "prune", "round"} => KeptOne(file.full, Number, KeepFull)
  /\ pc \in {"prune", "round"} => KeptOne(file.coarse, Number, KeepCoarse)

ProfileInv == RowHasProfile /\ MapsFirst

LEMMA KeptIs ==
  ASSUME NEW maps, NEW keep
  PROVE  Kept(maps, keep) <=> \A line \in Lines("rounds") : KeptOne(maps, line.id, keep)
BY DEF Kept, KeptOne

LEMMA RoundLinesAre ==
  ASSUME HistoryType
  PROVE  \A line \in Lines("rounds") : line.id \in Nat
<1> DEFINE l == log["rounds"].lines
<1>1. l \in Seq(Line)
  BY DEF HistoryType, Logs, Log
<1> HIDE DEF l
<1>2. \A i \in DOMAIN l : l[i].id \in Nat
  <2>1. \A i \in DOMAIN l : l[i] \in Line
    BY <1>1
  <2> QED
    BY <2>1 DEF Line
<1> QED
  BY <1>2 DEF Lines, Legible, l

\* A step that leaves the maps alone, and lists no more than it did.
LEMMA ProfileSame ==
  ASSUME ProfileInv, file'.full = file.full, file'.coarse = file.coarse,
         Lines("rounds")' \subseteq Lines("rounds"),
         pc' \in {"latest", "coarse", "prune", "round"} => disk' = disk /\ pc' = pc
  PROVE  ProfileInv'
<1>1. RowHasProfile'
  BY DEF ProfileInv, RowHasProfile, Kept
<1>2. MapsFirst'
  BY DEF ProfileInv, MapsFirst, Number
<1> QED
  BY <1>1, <1>2 DEF ProfileInv

LEMMA ProfileSaved ==
  ASSUME HistoryType, ProfileInv, SaveFull \/ SaveCoarse \/ Prune
  PROVE  ProfileInv'
<1> DEFINE F == Put(file.full, Number, made.round)
           C == Put(file.coarse, Number, made.round)
           PF == Pruned(file.full, KeepFull)
           PC == Pruned(file.coarse, KeepCoarse)
<1>0. /\ Number \in Nat /\ made.round \in Nat /\ file \in Files
      /\ file.full \in MapSet /\ file.coarse \in MapSet
  BY RoundLineIs DEF SaveFull, SaveCoarse, Prune, At, HistoryType, Made, Files
<1>1. UNCHANGED <<log, disk>> /\ Lines("rounds")' = Lines("rounds") /\ Number' = Number
  BY DEF SaveFull, SaveCoarse, Prune, Lines, Legible, Number
<1>2. KeepFull \in Nat \ {0} /\ KeepCoarse \in Nat \ {0}
  BY HistoryAssumption
<1>3. \A id \in Nat :
        /\ KeptOne(file.full, id, KeepFull) => KeptOne(F, id, KeepFull) /\ KeptOne(PF, id, KeepFull)
        /\ KeptOne(file.coarse, id, KeepCoarse) =>
             KeptOne(C, id, KeepCoarse) /\ KeptOne(PC, id, KeepCoarse)
  BY <1>0, <1>2, PutKeeps, PrunedKeeps
<1>4. KeptOne(F, Number, KeepFull) /\ KeptOne(C, Number, KeepCoarse)
  BY <1>0, <1>2, PutKeeps
<1>5. \A line \in Lines("rounds") : line.id \in Nat
  BY RoundLinesAre
<1>6. \/ pc = "full" /\ pc' = "latest" /\ file' = [file EXCEPT !.full = F]
      \/ pc = "coarse" /\ pc' = "prune" /\ file' = [file EXCEPT !.coarse = C]
      \/ pc = "prune" /\ pc' = "round" /\ file' = [file EXCEPT !.full = PF, !.coarse = PC]
  BY DEF SaveFull, SaveCoarse, Prune, At
<1> HIDE DEF F, C, PF, PC
<1>7. /\ file'.full \in {file.full, F, PF} /\ file'.coarse \in {file.coarse, C, PC}
      /\ pc' = "latest" => file'.full = F
      /\ pc' = "prune" => file'.full = file.full /\ file'.coarse = C /\ pc = "coarse"
      /\ pc' = "round" => pc = "prune"
      /\ pc' \in {"latest", "prune", "round"}
  BY <1>0, <1>6 DEF Files
<1>8. RowHasProfile'
  <2>1. \A line \in Lines("rounds") :
          KeptOne(file.full, line.id, KeepFull) /\ KeptOne(file.coarse, line.id, KeepCoarse)
    BY KeptIs DEF ProfileInv, RowHasProfile
  <2>2. \A line \in Lines("rounds")' :
          KeptOne(file'.full, line.id, KeepFull) /\ KeptOne(file'.coarse, line.id, KeepCoarse)
    BY <1>1, <1>3, <1>5, <1>7, <2>1
  <2> QED
    BY <2>2 DEF RowHasProfile, Kept, KeptOne
<1>9. MapsFirst'
  <2>1. pc \in {"coarse", "prune"} => KeptOne(file.full, Number, KeepFull)
    BY DEF ProfileInv, MapsFirst
  <2>2. pc = "prune" => KeptOne(file.coarse, Number, KeepCoarse)
    BY DEF ProfileInv, MapsFirst
  <2>3. KeptOne(file'.full, Number, KeepFull)
    BY <1>0, <1>3, <1>4, <1>7, <2>1
  <2>4. pc' \in {"prune", "round"} => KeptOne(file'.coarse, Number, KeepCoarse)
    BY <1>0, <1>3, <1>4, <1>7, <2>2
  <2> QED
    BY <1>1, <2>3, <2>4 DEF MapsFirst, KeptOne
<1> QED
  BY <1>8, <1>9 DEF ProfileInv

LEMMA ProfileListed == ASSUME HistoryType, ProfileInv, AppendRound PROVE ProfileInv'
<1> DEFINE line == [what |-> "round", id |-> Number, round |-> made.round, ref |-> 0]
<1>1. /\ line \in Line /\ Appended("rounds", line) /\ pc = "round" /\ pc' = "sched"
      /\ file' = file /\ line.id = Number
  BY RoundLineIs DEF AppendRound, At
<1> HIDE DEF line
<1> DEFINE l == log["rounds"].lines
           x == IF log["rounds"].torn THEN Garbled ELSE line
<1>2. l \in Seq(Line) /\ x \in Line /\ (x = line \/ x = Garbled)
  BY <1>1 DEF HistoryType, Log, Logs, Line, Garbled
<1>3. log'["rounds"].lines = Append(l, x)
  BY <1>1, AppendedIs DEF Logs
<1> HIDE DEF x
<1>4. Lines("rounds")' \subseteq Lines("rounds") \cup {line}
  <2> DEFINE m == Append(l, x)
  <2>1. \A i \in DOMAIN m : (i \in DOMAIN l /\ m[i] = l[i]) \/ m[i] = x
    <3> HIDE DEF l
    <3> QED
      BY <1>2
  <2> HIDE DEF m
  <2> QED
    BY <1>2, <1>3, <2>1 DEF Lines, Legible, m
<1>5. KeptOne(file.full, Number, KeepFull) /\ KeptOne(file.coarse, Number, KeepCoarse)
  BY <1>1 DEF ProfileInv, MapsFirst
<1>6. \A e \in Lines("rounds")' :
        KeptOne(file.full, e.id, KeepFull) /\ KeptOne(file.coarse, e.id, KeepCoarse)
  BY <1>1, <1>4, <1>5, KeptIs DEF ProfileInv, RowHasProfile
<1>7. RowHasProfile'
  BY <1>1, <1>6 DEF RowHasProfile, Kept, KeptOne
<1> QED
  BY <1>1, <1>7 DEF ProfileInv, MapsFirst

LEMMA ProfileNext == HistoryType /\ ProfileInv /\ [Next]_vars => ProfileInv'
<1> SUFFICES ASSUME HistoryType, ProfileInv, [Next]_vars PROVE ProfileInv'
  OBVIOUS
<1>0. log'["rounds"].lines = log["rounds"].lines => Lines("rounds")' = Lines("rounds")
  BY DEF Lines, Legible
<1>00. file \in Files /\ disk \in Meta
  BY DEF HistoryType
<1>1. CASE SaveFull \/ SaveCoarse \/ Prune
  BY <1>1, ProfileSaved
<1>2. CASE SaveLatest
  <2>1. /\ file'.full = file.full /\ file'.coarse = file.coarse /\ log' = log /\ disk' = disk
        /\ pc = "latest" /\ pc' = "coarse"
    BY <1>00, <1>2 DEF SaveLatest, At, Files
  <2>2. RowHasProfile'
    BY <1>0, <2>1 DEF ProfileInv, RowHasProfile, Kept
  <2> QED
    BY <2>1, <2>2 DEF ProfileInv, MapsFirst, Number
<1>3. CASE AppendRound
  BY <1>3, ProfileListed
<1>4. CASE Discover \/ Adopt \/ SetEnabled \/ FoldBytes
  <2>1. PICK d \in Meta : SaveMeta(d)
    BY <1>00, <1>4, Records DEF Discover, Adopt, SetEnabled, FoldBytes, Meta
  <2>2. file'.full = file.full /\ file'.coarse = file.coarse
    BY <2>1, SaveMetaIs
  <2> QED
    BY <1>0, <1>4, <2>2, ProfileSame DEF Discover, Adopt, SetEnabled, FoldBytes
<1>5. CASE Eventful
  <2>1. PICK what \in {"round", "deferred", "healed", "adopted"}, ref \in Nat : Event(what, ref)
    BY <1>5, EventfulIs
  <2>2. log'["rounds"] = log["rounds"]
    BY <2>1, EventIs, AppendedIs DEF Logs
  <2>3. file'.full = file.full /\ file'.coarse = file.coarse
    BY <1>00, <1>5, SaveScheduleIs DEF Eventful, AdoptSchedule, Defers, Heals, AppendEvent
  <2>4. pc' \notin {"latest", "coarse", "prune", "round"}
    BY <1>5 DEF Eventful, AdoptSchedule, Defers, Heals, AppendEvent, At
  <2> QED
    BY <1>0, <2>2, <2>3, <2>4, ProfileSame
<1>6. CASE NextSchedule
  <2>1. disk' \in Meta
    BY <1>6, HistoryTypeNext DEF HistoryType
  <2>2. file'.full = file.full /\ file'.coarse = file.coarse
    BY <1>6, <2>1, SaveScheduleIs, Zenon DEF NextSchedule
  <2> QED
    BY <1>0, <1>6, <2>2, ProfileSame DEF NextSchedule
<1>7. CASE Leaves \/ Forget
  <2>1. log'["rounds"].lines = <<>> /\ pc' = "idle"
    BY <1>7, DeleteIs DEF Leaves, Forget, Logs, NoLog
  <2>2. Lines("rounds")' = {}
    BY <2>1 DEF Lines, Legible
  <2> QED
    BY <2>1, <2>2 DEF ProfileInv, RowHasProfile, Kept, MapsFirst
<1>8. CASE PowerCut
  <2>1. PICK r \in Cut(log["rounds"]), e \in Cut(log["events"]) :
          log' = [n \in Logs |-> IF n = "rounds" THEN r ELSE e]
    BY <1>8 DEF PowerCut
  <2> DEFINE l == log["rounds"].lines
             m == r.lines
  <2>2. log["rounds"] \in Log /\ log'["rounds"] = r
    BY <2>1 DEF HistoryType, Logs
  <2>3. /\ m \in Seq(Line) /\ l \in Seq(Line) /\ Len(m) <= Len(l)
        /\ \A i \in 1 .. Len(m) : m[i] = l[i]
    BY <2>2, CutIs DEF Log
  <2>4. \A i \in DOMAIN m : i \in DOMAIN l /\ m[i] = l[i]
    <3> HIDE DEF l, m
    <3> QED
      BY <2>3
  <2>5. Lines("rounds")' \subseteq Lines("rounds")
    BY <2>2, <2>4 DEF Lines, Legible
  <2>6. file'.full = file.full /\ file'.coarse = file.coarse /\ pc' = "down"
    BY <1>00, <1>8 DEF PowerCut, Down, Files
  <2> QED
    BY <2>5, <2>6, ProfileSame
<1>9. CASE WrittenBack
  <2>1. log'["rounds"].lines = log["rounds"].lines
    BY <1>9 DEF WrittenBack, HistoryType, Log, Logs
  <2> QED
    BY <1>0, <1>9, <2>1, ProfileSame DEF WrittenBack
<1>10. CASE Start \/ Plug \/ Begins \/ Ends \/ Killed \/ UNCHANGED vars
  BY <1>0, <1>10, ProfileSame DEF Start, Plug, Begins, Ends, Killed, Down, vars
<1> QED
  BY <1>1, <1>2, <1>3, <1>4, <1>5, <1>6, <1>7, <1>8, <1>9, <1>10 DEF Next, Eventful

\* A round that is listed has its full and its coarse map, unless as many later
\* rounds as are kept have one: whichever write of persistRound is the last
\* before a crash, whatever numbers are used again after it, whatever prune
\* deletes and whatever cannot be read (supervisor.go:456-463).
THEOREM ListedHasProfile == Spec => []RowHasProfile
<1> DEFINE Inv == HistoryType /\ ProfileInv
<1>1. Init => Inv
  BY HistoryTypeInit DEF Init, ProfileInv, RowHasProfile, Kept, MapsFirst, Lines, Legible, NoLog,
     Logs
<1>2. Inv /\ [Next]_vars => Inv'
  BY HistoryTypeNext, ProfileNext
<1>3. Inv => RowHasProfile
  BY DEF ProfileInv
<1> QED
  BY <1>1, <1>2, <1>3, PTL DEF Spec
====
