------------------------------- MODULE LogDb -------------------------------
(***************************************************************************)
(* iec61850/log_db.c: an archive of startiec, of records that the alarm    *)
(* adds (load_profile, consum_arch) or that come as events (dev_event_log, *)
(* app_event_log).  Every export_period it is copied to a file of its own  *)
(* and what is older than storage_deep is deleted.                         *)
(*                                                                         *)
(* Berkeley DB keeps changes in memory until sync or close; what it has    *)
(* then is what a power failure leaves.  db_log_mtx makes a loop over a    *)
(* cursor and a put one step each; everything between them may interleave  *)
(* with the callback thread, and SIGINT may end the program there.  Left   *)
(* out: the fields of a record, the queries of HMI, a SIGINT that comes    *)
(* while the alarm holds db_log_mtx and takes it a second time.            *)
(***************************************************************************)
EXTENDS SysTime, FiniteSets

CONSTANTS
  db_sync_period, export_period, storage_deep, add_period,   \* of logdb.cfg
  Fails,         \* TRUE: a put into the export may fail
  MaxRecs,       \* bound on the records ever made
  MaxStops       \* bound on the ends of the program

ASSUME PeriodsAssumption == /\ {db_sync_period, export_period, storage_deep, add_period} \subseteq Nat
                            /\ Fails \in BOOLEAN
                            /\ MaxRecs \in Nat /\ MaxStops \in Nat

Recs == [id : 1 .. MaxRecs, time : 0 .. MaxTime]
None == 0

VARIABLES
  periodic,      \* this archive is filled by the alarm, not by events
  phase,         \* "down", "open" (log_db_env_open), "started" (log_db_init_timers)
  mem, disk,     \* [recs, exp]: the archive and its line of export_log
  files,         \* export time -> exported records
  timers,        \* [add, export, sync]
  rang,          \* the alarm of this second has come
  pc, cut, part, \* the alarm in log_db_maintain_database: what it does next, cut_time,
                 \*   and the records of the .part file
  stamp,         \* the time log_db_add_event_ll has read for its record, or None
  made,          \* records made so far
  stops,         \* ends of the program so far
  late,          \* history: records put when the export that covers their time was past
  spoiled,       \* history: records an export left out, or whose file was replaced
  gone,          \* history: records deleted
  cutoff         \* history: the power failed, or the program ended inside an export

alarmvars == <<pc, cut, part>>
history == <<late, spoiled, gone, cutoff>>
dbvars == <<periodic, phase, mem, disk, files, timers, rang, alarmvars, stamp, made, stops, history>>
vars == <<timevars, dbvars>>

Empty == [recs |-> {}, exp |-> None]
NoTimers == [add |-> None, export |-> None, sync |-> None]

Init == /\ TimeInit
        /\ periodic \in BOOLEAN
        /\ phase = "down"
        /\ mem = Empty /\ disk = Empty
        /\ files = [t \in {} |-> {}]
        /\ timers = NoTimers
        /\ rang = FALSE
        /\ pc = "idle" /\ cut = None /\ part = {}
        /\ stamp = None
        /\ made = 0 /\ stops = 0
        /\ late = {} /\ spoiled = {} /\ gone = {} /\ cutoff = FALSE

\* log_db_get_export_time: None if export_log has no line for the archive.
ExportTime == mem.exp

Exported == UNION {files[t] : t \in DOMAIN files}

\* log_db_env_open
EnvOpen == /\ phase = "down"
           /\ phase' = "open"
           /\ mem' = disk
           /\ UNCHANGED <<timevars, periodic, disk, files, timers, rang, alarmvars, stamp, made, stops, history>>

\* log_db_init_timer and log_db_init_timers, at the end of virt_start.  An archive
\* never exported is taken for exported up to now.
InitTimers ==
  LET first == ExportTime = None
      exp == IF first THEN sys ELSE ExportTime
  IN  /\ phase = "open"
      /\ phase' = "started"
      /\ timers' = [add |-> IF add_period > 0 THEN sys ELSE None, export |-> exp, sync |-> sys]
      /\ mem' = [mem EXCEPT !.exp = exp]
      /\ late' = IF first THEN late \cup {r \in mem.recs : r.time <= sys} ELSE late
      /\ UNCHANGED <<timevars, periodic, disk, files, rang, alarmvars, stamp, made, stops, spoiled, gone, cutoff>>

Down == /\ phase # "down" /\ stops < MaxStops
        /\ phase' = "down"
        /\ mem' = Empty /\ timers' = NoTimers
        /\ pc' = "idle" /\ cut' = None /\ part' = {} /\ stamp' = None /\ rang' = FALSE
        /\ stops' = stops + 1
        /\ UNCHANGED <<periodic, files, made, late, spoiled, gone>>

\* sighandler and log_db_env_close: closing writes what is in memory.
EnvClose == /\ Down
            /\ disk' = mem
            /\ cutoff' = (cutoff \/ pc # "idle")
            /\ UNCHANGED timevars

\* The power fails.
Crash == /\ Down
         /\ TimeBoot
         /\ cutoff' = TRUE
         /\ UNCHANGED disk

\* A record is put: one more at its time.
Put(time) ==
  LET r == [id |-> made + 1, time |-> time]
  IN  /\ made' = made + 1
      /\ mem' = [mem EXCEPT !.recs = @ \cup {r}]
      /\ late' = IF time <= ExportTime \/ (pc \in {"rename", "settime", "clean"} /\ time <= cut)
                 THEN late \cup {r} ELSE late

(***************************************************************************)
(* The callback thread                                                     *)
(***************************************************************************)
\* log_db_add_event_ll reads the time, then waits for the mutex and puts.
EventTime == /\ ~periodic /\ phase # "down" /\ stamp = None /\ made < MaxRecs
             /\ stamp' = sys
             /\ UNCHANGED <<timevars, periodic, phase, mem, disk, files, timers, rang, alarmvars, made, stops, history>>

EventPut == /\ stamp # None
            /\ Put(stamp)
            /\ stamp' = None
            /\ UNCHANGED <<timevars, periodic, phase, disk, files, timers, rang, alarmvars, stops,
                           spoiled, gone, cutoff>>

ServerTime == /\ phase # "down"
              /\ \E srv_time \in 1 .. MaxTime : SyncTime(srv_time)
              /\ UNCHANGED dbvars

(***************************************************************************)
(* The alarm                                                               *)
(***************************************************************************)
\* A second passes once its alarm has come, if the last alarm is not still at work.
Second == /\ rang \/ pc # "idle" \/ phase # "started"
          /\ Tick
          /\ rang' = FALSE
          /\ UNCHANGED <<periodic, phase, mem, disk, files, timers, alarmvars, stamp, made, stops, history>>

Due(t, timer, period) == timer # None /\ t - timer >= period

\* log_db_file_sync, if it is time for it.  db_sync_timer is not set again, so that
\* after the first period each alarm syncs.
FileSync == disk' = IF Due(sys, timers.sync, db_sync_period) THEN mem' ELSE disk

\* catch_alarm up to the export: the clock, the records of the meters, the sync.
Alarm ==
  LET adds == periodic /\ Due(sys, timers.add, add_period) /\ made < MaxRecs
  IN  /\ phase = "started" /\ pc = "idle" /\ ~rang
      /\ rang' = TRUE
      /\ Slew
      /\ IF adds THEN Put(sys') ELSE UNCHANGED <<made, mem, late>>
      /\ timers' = IF adds THEN [timers EXCEPT !.add = sys] ELSE timers
      /\ FileSync
      /\ IF Due(sys, timers.export, export_period)
         THEN pc' = "copy" /\ cut' = sys
         ELSE UNCHANGED <<pc, cut>>
      /\ UNCHANGED <<periodic, phase, files, part, stamp, stops, spoiled, gone, cutoff>>

\* Mutants: records exported before are exported again; those of cut_time are not.
ToExportAgain(recs, exp, t) == {r \in recs : exp <= r.time /\ r.time <= t}
ToExportBefore(recs, exp, t) == {r \in recs : exp < r.time /\ r.time < t}

\* log_db_export_data: the records since the last export.
ToExport(recs, exp, t) == {r \in recs : exp < r.time /\ r.time <= t}

\* What is copied when the put of a record fails: those before it, in order of time.
CutShort(due, copied) == /\ copied \subseteq due /\ copied # due
                         /\ \A r \in copied, q \in due \ copied : r.time <= q.time

AfterCopy(copied) == IF copied = {} THEN "clean" ELSE "rename"

\* The loop of log_db_export_data.  A copy cut short passes for a whole one; an empty
\* one is removed and does not count.
ExportCopy ==
  LET due == ToExport(mem.recs, ExportTime, cut)
  IN  /\ pc = "copy"
      /\ \E copied \in SUBSET due :
           /\ copied = due \/ (Fails /\ CutShort(due, copied))
           /\ part' = copied
           /\ spoiled' = spoiled \cup (due \ copied)
           /\ pc' = AfterCopy(copied)
      /\ UNCHANGED <<timevars, periodic, phase, mem, disk, files, timers, rang, cut, stamp, made, stops,
                     late, gone, cutoff>>

\* Its rename, to a name with cut_time: a file of that name is replaced.
ExportRename ==
  /\ pc = "rename"
  /\ files' = [t \in DOMAIN files \cup {cut} |-> IF t = cut THEN part ELSE files[t]]
  /\ spoiled' = IF cut \in DOMAIN files THEN spoiled \cup (files[cut] \ part) ELSE spoiled
  /\ part' = {}
  /\ pc' = "settime"
  /\ UNCHANGED <<timevars, periodic, phase, mem, disk, timers, rang, cut, stamp, made, stops, late, gone, cutoff>>

\* log_db_set_export_time
SetExportTime == /\ pc = "settime"
                 /\ mem' = [mem EXCEPT !.exp = cut]
                 /\ pc' = "clean"
                 /\ UNCHANGED <<timevars, periodic, phase, disk, files, timers, rang, cut, part, stamp, made, stops,
                                history>>

\* Mutant: cut_time moves the other way.
OldDataAhead(recs, t) == {r \in recs : r.time <= t + storage_deep}

\* log_db_clean_old_data
OldData(recs, t) == {r \in recs : r.time <= t - storage_deep}

\* ... and the end of log_db_maintain_database.
CleanOldData == /\ pc = "clean"
                /\ mem' = [mem EXCEPT !.recs = @ \ OldData(@, cut)]
                /\ gone' = gone \cup OldData(mem.recs, cut)
                /\ timers' = [timers EXCEPT !.export = cut]
                /\ pc' = "idle" /\ cut' = None
                /\ UNCHANGED <<timevars, periodic, phase, disk, files, rang, part, stamp, made, stops,
                               late, spoiled, cutoff>>

Next == \/ EnvOpen \/ InitTimers \/ EnvClose \/ Crash
        \/ EventTime \/ EventPut \/ ServerTime
        \/ Second \/ Alarm \/ ExportCopy \/ ExportRename \/ SetExportTime \/ CleanOldData

Spec == Init /\ [][Next]_vars

-----------------------------------------------------------------------------
Known == Exported \cup late \cup spoiled

\* The archive and its export time stay well formed, and the .part file exists only
\* between the copy and the rename.
TypeOK == /\ {sys, rtc} \subseteq 0 .. MaxTime /\ time_dev \in -MaxTime .. MaxTime
          /\ \A db \in {mem, disk} : db.recs \subseteq Recs /\ db.exp \in 0 .. MaxTime
          /\ DOMAIN files \subseteq 1 .. MaxTime /\ Exported \subseteq Recs
          /\ phase \in {"down", "open", "started"}
          /\ pc \in {"idle", "copy", "rename", "settime", "clean"}
          /\ (pc = "idle") = (cut = None)
          /\ (part # {}) = (pc = "rename")

\* What the export time says is true: a record of the archive up to that time is in
\* some file, whatever was put, deleted, closed or lost meanwhile.  The exceptions are
\* those of the code: late and spoiled records.
TimeMeansExported == \A r \in mem.recs : r.time <= mem.exp => r \in Known

\* The cleaning, which goes by the age of a record and does not ask for an export,
\* deletes only what was exported, with the same exceptions.
NothingLost == gone \subseteq Known

\* No record is in two files, unless the program ended before the export time was on
\* disk.
ExportedOnce == \/ cutoff
                \/ \A t, u \in DOMAIN files : t # u => files[t] \cap files[u] = {}
=============================================================================
