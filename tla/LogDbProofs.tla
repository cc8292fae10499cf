---------------------------- MODULE LogDbProofs ----------------------------
(***************************************************************************)
(* Theorems about LogDb and the clock it lives with, for every setting of  *)
(* logdb.cfg and every bound.                                              *)
(*                                                                         *)
(* A record is covered at a time if it is known (in a file, late or        *)
(* spoiled) or younger.  Both images of the archive are covered at their   *)
(* own export time, so that a close, a sync or a power failure changes     *)
(* nothing; from the copy on, the archive is covered at cut_time but for   *)
(* what still lies in the .part file, which is why the export time may be  *)
(* set to it and why the cleaning may go by it.  As nothing that was known *)
(* is ever unknown again, no step but a put and the copy needs a look.     *)
(***************************************************************************)
EXTENDS LogDb, TLAPS

Covered(recs, t, known) == \A r \in recs : r.time <= t => r \in known

\* The types, sharper than TypeOK: what the steps need of them.
Types == /\ sys \in 1 .. MaxTime /\ rtc \in 1 .. MaxTime
         /\ time_dev \in -MaxTime .. MaxTime
         /\ mem \in [recs : SUBSET Recs, exp : 0 .. MaxTime]
         /\ disk \in [recs : SUBSET Recs, exp : 0 .. MaxTime]
         /\ DOMAIN files \subseteq 1 .. MaxTime
         /\ files \in [DOMAIN files -> SUBSET Recs]
         /\ phase \in {"down", "open", "started"}
         /\ pc \in {"idle", "copy", "rename", "settime", "clean"}
         /\ cut \in 0 .. MaxTime /\ part \in SUBSET Recs
         /\ stamp \in 0 .. MaxTime
         /\ made \in 0 .. MaxRecs
         /\ cutoff \in BOOLEAN

\* An alarm at work, and a record whose time has been read.
Working == /\ (pc = "idle") = (cut = None)
           /\ (part # {}) = (pc = "rename")
           /\ phase # "started" => pc = "idle"
           /\ phase = "down" => mem = Empty /\ stamp = None
           /\ stamp # None => ~periodic /\ made < MaxRecs

\* Both images are covered at their export time.
ImagesCovered == /\ Covered(mem.recs, mem.exp, Known)
                 /\ Covered(disk.recs, disk.exp, Known)

\* After the copy the archive is covered at cut_time but for the .part file.
CutCovered == pc \in {"rename", "settime", "clean"} => Covered(mem.recs, cut, Known \cup part)

\* The export time of the program, or what it will open with.
Base == IF phase = "down" THEN disk.exp ELSE mem.exp

\* Nothing that was exported is younger than the export time, but for the file whose
\* time is just to be set; and that file begins after the export time.
NoneAhead == ~cutoff => /\ \A r \in Exported : r.time <= Base \/ (pc = "settime" /\ r.time <= cut)
                        /\ pc \in {"rename", "settime"} => mem.exp < cut
                        /\ \A r \in part : mem.exp < r.time /\ r.time <= cut

IInv == /\ Disciplined /\ Types /\ Working
        /\ ImagesCovered /\ CutCovered /\ NothingLost
        /\ NoneAhead /\ ExportedOnce

(***************************************************************************)
(* The clocks                                                              *)
(***************************************************************************)
ClockTypes == /\ sys \in 1 .. MaxTime /\ rtc \in 1 .. MaxTime
              /\ time_dev \in -MaxTime .. MaxTime

LEMMA Constants == /\ TIME_DEV_L_LIMIT \in Nat /\ TIME_DEV_H_LIMIT \in Nat
                   /\ MaxTime \in Nat /\ MaxTime > 0
                   /\ db_sync_period \in Nat /\ export_period \in Nat
                   /\ storage_deep \in Nat /\ add_period \in Nat
                   /\ MaxRecs \in Nat
  BY LimitsAssumption, PeriodsAssumption

\* What any of the steps does to the clocks.
ClockStep == \/ Tick \/ Slew \/ TimeBoot \/ UNCHANGED timevars
             \/ \E srv_time \in 1 .. MaxTime : SyncTime(srv_time)

LEMMA ClockKeeps ==
  ASSUME ClockTypes, Disciplined, ClockStep
  PROVE  ClockTypes' /\ Disciplined'
<1> USE Constants DEF ClockTypes, Disciplined
<1>1. CASE Tick BY <1>1 DEF Tick
<1>2. CASE Slew
  <2>1. CASE time_dev = 0 BY <1>2, <2>1 DEF Slew, RtcTime
  <2>2. CASE time_dev # 0 BY <1>2, <2>2 DEF Slew, RtcTime
  <2> QED BY <2>1, <2>2
<1>3. CASE TimeBoot BY <1>3 DEF TimeBoot
<1>4. CASE UNCHANGED timevars BY <1>4 DEF timevars
<1>5. ASSUME NEW srv_time \in 1 .. MaxTime, SyncTime(srv_time)
      PROVE  ClockTypes' /\ Disciplined'
  BY <1>5 DEF SyncTime, SetRtcTime
<1> QED BY <1>1, <1>2, <1>3, <1>4, <1>5 DEF ClockStep

LEMMA StepIsClockStep == [Next]_vars => ClockStep
  BY DEF Next, vars, ClockStep, EnvOpen, InitTimers, EnvClose, Down, Crash, EventTime, EventPut, ServerTime,
         Second, Alarm, ExportCopy, ExportRename, SetExportTime, CleanOldData, timevars

(***************************************************************************)
(* What is known stays known                                               *)
(***************************************************************************)
LEMMA InFile == ASSUME NEW r PROVE r \in Exported <=> \E t \in DOMAIN files : r \in files[t]
  BY DEF Exported

\* The rename adds the .part file to what is known, and takes nothing away: what the
\* file it replaces held is spoiled.
LEMMA RenameKnown ==
  ASSUME Types, ExportRename
  PROVE  /\ Known \cup part \subseteq Known'
         /\ \A r \in Exported' : r \in Exported \/ r \in part
<1>1. files' = [t \in DOMAIN files \cup {cut} |-> IF t = cut THEN part ELSE files[t]]
  BY DEF ExportRename
<1>2. DOMAIN files' = DOMAIN files \cup {cut} BY <1>1
<1>3. files'[cut] = part BY <1>1
<1>4. \A t \in DOMAIN files : t # cut => files'[t] = files[t] BY <1>1
<1>5. \A r : r \in Exported' <=> \E t \in DOMAIN files' : r \in files'[t] BY DEF Exported
<1>6. part \subseteq Exported' BY <1>2, <1>3, <1>5
<1>7. \A r \in Exported' : r \in Exported \/ r \in part
  BY <1>2, <1>3, <1>4, <1>5, InFile
<1>8. ASSUME NEW r \in Exported PROVE r \in Known'
  <2>1. PICK t \in DOMAIN files : r \in files[t] BY InFile
  <2>2. CASE t # cut
    <3>1. r \in Exported' BY <2>1, <2>2, <1>2, <1>4, <1>5
    <3> QED BY <3>1 DEF Known
  <2>3. CASE t = cut
    <3>1. spoiled' = spoiled \cup (files[cut] \ part) BY <2>1, <2>3 DEF ExportRename
    <3>2. CASE r \in part BY <3>2, <1>6 DEF Known
    <3>3. CASE r \notin part BY <3>1, <3>3, <2>1, <2>3 DEF Known
    <3> QED BY <3>2, <3>3
  <2> QED BY <2>2, <2>3
<1>9. late' = late /\ spoiled \subseteq spoiled' BY DEF ExportRename
<1> QED BY <1>6, <1>7, <1>8, <1>9 DEF Known

LEMMA KnownGrows ==
  ASSUME Types, [Next]_vars
  PROVE  Known \subseteq Known'
<1>1. CASE ExportRename BY <1>1, RenameKnown
<1>2. CASE ~ExportRename
  <2>1. files' = files
    BY <1>2 DEF Next, vars, dbvars, EnvOpen, InitTimers, EnvClose, Down, Crash, EventTime, EventPut, ServerTime,
         Second, Alarm, ExportCopy, SetExportTime, CleanOldData
  <2>2. late \subseteq late' /\ spoiled \subseteq spoiled'
    BY <1>2 DEF Next, vars, dbvars, history, EnvOpen, InitTimers, EnvClose, Down, Crash, EventTime, EventPut,
         ServerTime, Second, Alarm, ExportCopy, SetExportTime, CleanOldData, Put
  <2> QED BY <2>1, <2>2 DEF Known, Exported
<1> QED BY <1>1, <1>2

(***************************************************************************)
(* The steps                                                               *)
(***************************************************************************)
LEMMA InitInv == Init => IInv
<1> SUFFICES ASSUME Init PROVE IInv OBVIOUS
<1> USE Constants DEF Init, TimeInit, Empty, None
<1>1. Disciplined BY DEF Disciplined
<1>2. DOMAIN files = {} OBVIOUS
<1>3. Exported = {} BY <1>2 DEF Exported
<1>4. Types
  <2>1. files \in [DOMAIN files -> SUBSET Recs] BY <1>2
  <2>2. mem \in [recs : SUBSET Recs, exp : 0 .. MaxTime] OBVIOUS
  <2>3. cut \in 0 .. MaxTime /\ stamp \in 0 .. MaxTime /\ made \in 0 .. MaxRecs OBVIOUS
  <2>4. sys \in 1 .. MaxTime /\ rtc \in 1 .. MaxTime /\ time_dev \in -MaxTime .. MaxTime OBVIOUS
  <2>5. disk = mem OBVIOUS
  <2> QED BY <1>2, <2>1, <2>2, <2>3, <2>4, <2>5 DEF Types
<1>5. Working BY DEF Working
<1>6. ImagesCovered BY DEF ImagesCovered, Covered
<1>7. CutCovered BY DEF CutCovered
<1>8. NothingLost BY DEF NothingLost
<1>9. NoneAhead BY <1>3 DEF NoneAhead
<1>10. ExportedOnce BY <1>2 DEF ExportedOnce
<1> QED BY <1>1, <1>4, <1>5, <1>6, <1>7, <1>8, <1>9, <1>10 DEF IInv

\* A step that touches none of the archive, the files and the alarm.
LEMMA Aside ==
  ASSUME IInv, ClockStep,
         UNCHANGED <<phase, mem, disk, files, pc, cut, part, made, late, spoiled, gone, cutoff>>,
         stamp' \in 0 .. MaxTime, Working'
  PROVE  IInv'
<1>1. ClockTypes' /\ Disciplined' BY ClockKeeps DEF IInv, Types, ClockTypes
<1>2. Known' = Known /\ Exported' = Exported BY DEF Known, Exported
<1>3. Types' BY <1>1 DEF IInv, Types, ClockTypes
<1>4. ImagesCovered' BY <1>2 DEF IInv, ImagesCovered, Covered
<1>5. CutCovered' BY <1>2 DEF IInv, CutCovered, Covered
<1>6. NothingLost' BY <1>2 DEF IInv, NothingLost
<1>7. NoneAhead' BY <1>2 DEF IInv, NoneAhead, Base
<1>8. ExportedOnce' BY DEF IInv, ExportedOnce
<1> QED BY <1>1, <1>3, <1>4, <1>5, <1>6, <1>7, <1>8 DEF IInv

LEMMA EnvOpenInv == IInv /\ EnvOpen => IInv'
<1> SUFFICES ASSUME IInv, EnvOpen PROVE IInv' OBVIOUS
<1> USE DEF EnvOpen, alarmvars, history
<1>1. Disciplined' BY DEF IInv, Disciplined, timevars
<1>2. Known' = Known /\ Exported' = Exported BY DEF Known, Exported
<1>3. Types' BY DEF IInv, Types, timevars
<1>4. pc = "idle" BY DEF IInv, Working
<1>5. Working' BY <1>4 DEF IInv, Working
<1>6. ImagesCovered' BY <1>2 DEF IInv, ImagesCovered, Covered
<1>7. CutCovered' BY <1>4 DEF CutCovered
<1>8. NothingLost' BY <1>2 DEF IInv, NothingLost
<1>9. NoneAhead' BY <1>2, <1>4, <1>5 DEF IInv, NoneAhead, Base, Working
<1>10. ExportedOnce' BY DEF IInv, ExportedOnce
<1> QED BY <1>1, <1>3, <1>5, <1>6, <1>7, <1>8, <1>9, <1>10 DEF IInv

LEMMA InitTimersInv == IInv /\ InitTimers => IInv'
<1> SUFFICES ASSUME IInv, InitTimers PROVE IInv' OBVIOUS
<1> DEFINE exp == IF ExportTime = None THEN sys ELSE ExportTime
<1>1. mem' = [mem EXCEPT !.exp = exp] BY DEF InitTimers
<1>2. UNCHANGED <<timevars, periodic, disk, files, pc, cut, part, stamp, made, spoiled, gone, cutoff>>
  BY DEF InitTimers, alarmvars
<1>3. phase = "open" /\ phase' = "started" /\ pc = "idle" BY DEF InitTimers, IInv, Working
<1>4. late' = IF ExportTime = None THEN late \cup {r \in mem.recs : r.time <= sys} ELSE late
  BY DEF InitTimers
<1>5. exp \in 0 .. MaxTime BY DEF IInv, Types, ExportTime
<1>6. mem.exp <= exp BY Constants DEF IInv, Types, ExportTime, None
<1>7. mem'.recs = mem.recs /\ mem'.exp = exp BY <1>1 DEF IInv, Types
<1>8. mem' \in [recs : SUBSET Recs, exp : 0 .. MaxTime] BY <1>1, <1>5 DEF IInv, Types
<1> HIDE DEF exp
<1>10. Disciplined' BY <1>2 DEF IInv, Disciplined, timevars
<1>11. Exported' = Exported /\ Known \subseteq Known' BY <1>2, <1>4 DEF Known, Exported
<1>12. Types' BY <1>2, <1>3, <1>8 DEF IInv, Types, timevars
<1>13. Working' BY <1>2, <1>3 DEF IInv, Working
<1>14. ImagesCovered'
  <2>1. Covered(disk.recs, disk.exp, Known)' BY <1>2, <1>11 DEF IInv, ImagesCovered, Covered
  <2>2. ASSUME NEW r \in mem.recs, r.time <= exp PROVE r \in Known'
    <3>1. CASE ExportTime = None BY <2>2, <3>1, <1>4 DEF exp, Known
    <3>2. CASE ExportTime # None
      BY <2>2, <3>2, <1>11 DEF exp, ExportTime, IInv, ImagesCovered, Covered
    <3> QED BY <3>1, <3>2
  <2> QED BY <2>1, <2>2, <1>7 DEF ImagesCovered, Covered
<1>15. CutCovered' BY <1>2, <1>3 DEF CutCovered
<1>16. NothingLost' BY <1>2, <1>11 DEF IInv, NothingLost
<1>17. NoneAhead'
  <2>1. part = {} BY <1>3 DEF IInv, Working
  <2>2. ASSUME ~cutoff, NEW r \in Exported PROVE r.time <= exp
    <3>1. r \in Recs BY InFile DEF IInv, Types
    <3>2. r.time \in Int BY <3>1 DEF Recs
    <3>3. r.time <= mem.exp BY <2>2, <1>3 DEF IInv, NoneAhead, Base
    <3>4. mem.exp \in Int /\ exp \in Int BY <1>5 DEF IInv, Types
    <3> QED BY <3>2, <3>3, <3>4, <1>6
  <2> QED BY <2>1, <2>2, <1>2, <1>3, <1>7, <1>11 DEF NoneAhead, Base
<1>18. ExportedOnce' BY <1>2 DEF IInv, ExportedOnce
<1> QED BY <1>10, <1>12, <1>13, <1>14, <1>15, <1>16, <1>17, <1>18 DEF IInv

\* The end of the program, in whichever way: disk is what the file on disk holds.
LEMMA DownInv ==
  ASSUME IInv, Down, ClockStep, disk' \in {mem, disk}, cutoff' \in BOOLEAN,
         cutoff \/ pc # "idle" \/ disk' # mem => cutoff'
  PROVE  IInv'
<1> USE DEF Down
<1>1. ClockTypes' /\ Disciplined' BY ClockKeeps DEF IInv, Types, ClockTypes
<1>2. Known' = Known /\ Exported' = Exported BY DEF Known, Exported
<1>3. Types' BY <1>1, Constants DEF IInv, Types, ClockTypes, Empty, None
<1>4. Working' BY DEF Working, None
<1>5. ImagesCovered' BY <1>2 DEF IInv, ImagesCovered, Covered, Empty
<1>6. CutCovered' BY DEF CutCovered
<1>7. NothingLost' BY <1>2 DEF IInv, NothingLost
<1>8. NoneAhead' BY <1>2 DEF IInv, NoneAhead, Base
<1>9. ExportedOnce' BY DEF IInv, ExportedOnce
<1> QED BY <1>1, <1>3, <1>4, <1>5, <1>6, <1>7, <1>8, <1>9 DEF IInv

\* A put into the archive: a record the export has passed by is late.
LEMMA PutCovers ==
  ASSUME IInv, NEW time \in 0 .. MaxTime, made < MaxRecs, Put(time),
         UNCHANGED <<files, spoiled>>
  PROVE  /\ mem' \in [recs : SUBSET Recs, exp : 0 .. MaxTime]
         /\ mem'.exp = mem.exp
         /\ made' \in 0 .. MaxRecs
         /\ Exported' = Exported /\ Known \subseteq Known'
         /\ Covered(mem'.recs, mem.exp, Known')
         /\ pc \in {"rename", "settime", "clean"} => Covered(mem'.recs, cut, Known' \cup part)
<1> DEFINE r == [id |-> made + 1, time |-> time]
<1>1. r \in Recs BY Constants DEF IInv, Types, Recs
<1>2. mem' = [mem EXCEPT !.recs = @ \cup {r}] BY DEF Put
<1>3. late' = IF time <= mem.exp \/ (pc \in {"rename", "settime", "clean"} /\ time <= cut)
              THEN late \cup {r} ELSE late
  BY DEF Put, ExportTime
<1>4. made' \in 0 .. MaxRecs BY Constants DEF Put, IInv, Types
<1>5. r.time = time OBVIOUS
<1> HIDE DEF r
<1>6. mem'.exp = mem.exp /\ mem'.recs = mem.recs \cup {r} BY <1>2 DEF IInv, Types
<1>7. mem' \in [recs : SUBSET Recs, exp : 0 .. MaxTime] BY <1>1, <1>2 DEF IInv, Types
<1>8. Exported' = Exported /\ late \subseteq late' BY <1>3 DEF Exported
<1>9. Known \subseteq Known' BY <1>8 DEF Known
<1>10. Covered(mem'.recs, mem.exp, Known')
  BY <1>3, <1>5, <1>6, <1>9 DEF IInv, ImagesCovered, Covered, Known
<1>11. ASSUME pc \in {"rename", "settime", "clean"}
       PROVE  Covered(mem'.recs, cut, Known' \cup part)
  BY <1>3, <1>5, <1>6, <1>9, <1>11 DEF IInv, CutCovered, Covered, Known
<1> QED BY <1>4, <1>6, <1>7, <1>8, <1>9, <1>10, <1>11

LEMMA EventPutInv == IInv /\ EventPut => IInv'
<1> SUFFICES ASSUME IInv, EventPut PROVE IInv' OBVIOUS
<1>1. UNCHANGED <<timevars, periodic, phase, disk, files, pc, cut, part, spoiled, gone, cutoff>>
  BY DEF EventPut, alarmvars
<1>2. stamp # None /\ stamp' = None /\ Put(stamp) BY DEF EventPut
<1>3. stamp \in 0 .. MaxTime /\ made < MaxRecs /\ phase # "down"
  BY <1>2 DEF IInv, Types, Working
<1>4. /\ mem' \in [recs : SUBSET Recs, exp : 0 .. MaxTime]
      /\ mem'.exp = mem.exp
      /\ made' \in 0 .. MaxRecs
      /\ Exported' = Exported /\ Known \subseteq Known'
      /\ Covered(mem'.recs, mem.exp, Known')
      /\ pc \in {"rename", "settime", "clean"} => Covered(mem'.recs, cut, Known' \cup part)
  BY <1>1, <1>2, <1>3, PutCovers
<1>5. Disciplined' BY <1>1 DEF IInv, Disciplined, timevars
<1>6. Types' BY <1>1, <1>2, <1>4, Constants DEF IInv, Types, timevars, None
<1>7. Working' BY <1>1, <1>2, <1>3 DEF IInv, Working
<1>8. ImagesCovered' BY <1>1, <1>4 DEF IInv, ImagesCovered, Covered
<1>9. CutCovered' BY <1>1, <1>4 DEF CutCovered, Covered
<1>10. NothingLost' BY <1>1, <1>4 DEF IInv, NothingLost
<1>11. NoneAhead' BY <1>1, <1>4 DEF IInv, NoneAhead, Base
<1>12. ExportedOnce' BY <1>1 DEF IInv, ExportedOnce
<1> QED BY <1>5, <1>6, <1>7, <1>8, <1>9, <1>10, <1>11, <1>12 DEF IInv

LEMMA AlarmInv == IInv /\ Alarm => IInv'
<1> SUFFICES ASSUME IInv, Alarm PROVE IInv' OBVIOUS
<1>1. UNCHANGED <<periodic, phase, files, part, stamp, spoiled, gone, cutoff>> BY DEF Alarm
<1>2. phase = "started" /\ pc = "idle" /\ Slew BY DEF Alarm
<1>3. ClockTypes' /\ Disciplined' BY <1>2, ClockKeeps DEF IInv, Types, ClockTypes, ClockStep
<1>4. /\ mem' \in [recs : SUBSET Recs, exp : 0 .. MaxTime]
      /\ mem'.exp = mem.exp
      /\ made' \in 0 .. MaxRecs
      /\ Exported' = Exported /\ Known \subseteq Known'
      /\ Covered(mem'.recs, mem.exp, Known')
      /\ stamp # None => made' = made
  <2>1. CASE periodic /\ Due(sys, timers.add, add_period) /\ made < MaxRecs
    <3>1. Put(sys') BY <2>1 DEF Alarm
    <3>2. sys' \in 0 .. MaxTime BY <1>3, Constants DEF ClockTypes
    <3>3. stamp = None BY <2>1 DEF IInv, Working
    <3> QED BY <1>1, <2>1, <3>1, <3>2, <3>3, PutCovers
  <2>2. CASE ~(periodic /\ Due(sys, timers.add, add_period) /\ made < MaxRecs)
    <3>1. UNCHANGED <<made, mem, late>> BY <2>2 DEF Alarm
    <3>2. Exported' = Exported /\ Known' = Known BY <1>1, <3>1 DEF Exported, Known
    <3> QED BY <3>1, <3>2 DEF IInv, Types, ImagesCovered
  <2> QED BY <2>1, <2>2
<1>5. disk' = mem' \/ disk' = disk BY DEF Alarm, FileSync
<1>6. /\ pc' = "copy" /\ cut' = sys
      \/ UNCHANGED <<pc, cut>>
  BY DEF Alarm
<1>7. part = {} BY <1>2 DEF IInv, Working
<1>8. sys \in 1 .. MaxTime BY DEF IInv, Types
<1>9. Types' BY <1>1, <1>3, <1>4, <1>5, <1>6, <1>8, Constants DEF IInv, Types, ClockTypes
<1>10. Working'
  <2>1. ((pc = "idle") = (cut = None))' BY <1>2, <1>6, <1>8, Constants DEF IInv, Working, None
  <2>2. ((part # {}) = (pc = "rename"))' BY <1>1, <1>2, <1>6, <1>7
  <2> QED BY <1>1, <1>2, <1>4, <2>1, <2>2 DEF IInv, Working
<1>11. ImagesCovered' BY <1>4, <1>5 DEF IInv, ImagesCovered, Covered
<1>12. CutCovered' BY <1>2, <1>6 DEF CutCovered
<1>13. NothingLost' BY <1>1, <1>4 DEF IInv, NothingLost
<1>14. NoneAhead' BY <1>1, <1>2, <1>4, <1>6, <1>7 DEF IInv, NoneAhead, Base
<1>15. ExportedOnce' BY <1>1 DEF IInv, ExportedOnce
<1> QED BY <1>3, <1>9, <1>10, <1>11, <1>12, <1>13, <1>14, <1>15 DEF IInv

LEMMA ExportCopyInv == IInv /\ ExportCopy => IInv'
<1> SUFFICES ASSUME IInv, ExportCopy PROVE IInv' OBVIOUS
<1> DEFINE due == ToExport(mem.recs, ExportTime, cut)
<1>1. UNCHANGED <<timevars, periodic, phase, mem, disk, files, cut, stamp, made, late, gone, cutoff>>
  BY DEF ExportCopy
<1>2. PICK copied \in SUBSET due :
        /\ part' = copied
        /\ spoiled' = spoiled \cup (due \ copied)
        /\ pc' = AfterCopy(copied)
  BY DEF ExportCopy
<1>3. pc = "copy" /\ phase = "started" BY DEF ExportCopy, IInv, Working
<1>4. \A r : r \in due <=> r \in mem.recs /\ mem.exp < r.time /\ r.time <= cut
  BY DEF ToExport, ExportTime
<1> HIDE DEF due
<1>5. Exported' = Exported /\ Known \subseteq Known' BY <1>1, <1>2 DEF Exported, Known
<1>6. due \subseteq Recs BY <1>4 DEF IInv, Types
<1>7. \A r \in Recs : r.time \in Int BY DEF Recs
<1>8. mem.recs \subseteq Recs /\ mem.exp \in Int /\ cut \in Int BY DEF IInv, Types
<1>9. pc' \in {"rename", "clean"} /\ (pc' = "rename" <=> copied # {}) BY <1>2 DEF AfterCopy
<1>10. Disciplined' BY <1>1 DEF IInv, Disciplined, timevars
<1>11. Types' BY <1>1, <1>2, <1>6, <1>9 DEF IInv, Types, timevars
<1>12. Working' BY <1>1, <1>2, <1>3, <1>9 DEF IInv, Working
<1>13. ImagesCovered' BY <1>1, <1>5 DEF IInv, ImagesCovered, Covered
<1>14. CutCovered'
  <2>1. ASSUME NEW r \in mem.recs, r.time <= cut PROVE r \in Known' \cup part'
    <3>1. r.time \in Int BY <1>7, <1>8
    <3>2. CASE r.time <= mem.exp BY <3>2, <1>5 DEF IInv, ImagesCovered, Covered
    <3>3. CASE r \in copied BY <3>3, <1>2
    <3>4. CASE r \notin copied /\ mem.exp < r.time BY <3>4, <2>1, <1>2, <1>4 DEF Known
    <3> QED BY <3>1, <3>2, <3>3, <3>4, <1>8
  <2> QED BY <1>1, <2>1 DEF CutCovered, Covered
<1>15. NothingLost' BY <1>1, <1>5 DEF IInv, NothingLost
<1>16. NoneAhead'
  <2>1. Base' = Base BY <1>1 DEF Base
  <2>2. \A r \in part' : mem.exp < r.time /\ r.time <= cut BY <1>2, <1>4
  <2>3. pc' = "rename" => mem.exp < cut
    <3> SUFFICES ASSUME pc' = "rename" PROVE mem.exp < cut OBVIOUS
    <3>1. PICK r \in copied : TRUE BY <1>9
    <3>2. r.time \in Int /\ mem.exp < r.time /\ r.time <= cut BY <3>1, <1>2, <1>4, <1>6, <1>7
    <3> QED BY <3>2, <1>8
  <2> QED BY <1>1, <1>3, <1>5, <1>9, <2>1, <2>2, <2>3 DEF IInv, NoneAhead
<1>17. ExportedOnce' BY <1>1 DEF IInv, ExportedOnce
<1> QED BY <1>10, <1>11, <1>12, <1>13, <1>14, <1>15, <1>16, <1>17 DEF IInv

LEMMA ExportRenameInv == IInv /\ ExportRename => IInv'
<1> SUFFICES ASSUME IInv, ExportRename PROVE IInv' OBVIOUS
<1>1. UNCHANGED <<timevars, periodic, phase, mem, disk, cut, stamp, made, late, gone, cutoff>>
  BY DEF ExportRename
<1>2. pc = "rename" /\ pc' = "settime" /\ part' = {} /\ phase = "started"
  BY DEF ExportRename, IInv, Working
<1>3. files' = [t \in DOMAIN files \cup {cut} |-> IF t = cut THEN part ELSE files[t]]
  BY DEF ExportRename
<1>4. /\ Known \cup part \subseteq Known'
      /\ \A r \in Exported' : r \in Exported \/ r \in part
  BY RenameKnown DEF IInv
<1>5. cut \in 1 .. MaxTime BY <1>2, Constants DEF IInv, Types, Working, None
<1>6. Disciplined' BY <1>1 DEF IInv, Disciplined, timevars
<1>7. Types'
  <2>1. DOMAIN files' = DOMAIN files \cup {cut} BY <1>3
  <2>2. \A t \in DOMAIN files' : files'[t] \in SUBSET Recs BY <1>3 DEF IInv, Types
  <2>3. files' \in [DOMAIN files' -> SUBSET Recs] BY <1>3, <2>1, <2>2
  <2>4. DOMAIN files' \subseteq 1 .. MaxTime BY <1>5, <2>1 DEF IInv, Types
  <2> QED BY <1>1, <1>2, <2>3, <2>4 DEF IInv, Types, timevars
<1>8. Working' BY <1>1, <1>2 DEF IInv, Working
<1>9. ImagesCovered' BY <1>1, <1>4 DEF IInv, ImagesCovered, Covered
<1>10. CutCovered' BY <1>1, <1>2, <1>4 DEF IInv, CutCovered, Covered
<1>11. NothingLost' BY <1>1, <1>4 DEF IInv, NothingLost
<1>12. NoneAhead' BY <1>1, <1>2, <1>4 DEF IInv, NoneAhead, Base
<1>13. ExportedOnce'
  <2> SUFFICES ASSUME ~cutoff, NEW t \in DOMAIN files', NEW u \in DOMAIN files', t # u,
                      NEW r \in files'[t], r \in files'[u]
               PROVE  FALSE
    BY <1>1 DEF ExportedOnce
  <2>1. \A v \in DOMAIN files : ~(r \in part /\ r \in files[v])
    <3> SUFFICES ASSUME NEW v \in DOMAIN files, r \in part, r \in files[v] PROVE FALSE OBVIOUS
    <3>1. r \in Exported BY InFile
    <3>2. r.time <= mem.exp /\ mem.exp < r.time BY <1>2, <3>1 DEF IInv, NoneAhead, Base
    <3>3. r.time \in Int /\ mem.exp \in Int BY DEF IInv, Types, Recs
    <3> QED BY <3>2, <3>3
  <2>2. CASE t = cut
    <3>1. r \in part /\ u \in DOMAIN files /\ r \in files[u] BY <2>2, <1>3
    <3> QED BY <3>1, <2>1
  <2>3. CASE u = cut
    <3>1. r \in part /\ t \in DOMAIN files /\ r \in files[t] BY <2>3, <1>3
    <3> QED BY <3>1, <2>1
  <2>4. CASE t # cut /\ u # cut
    <3>1. t \in DOMAIN files /\ u \in DOMAIN files /\ r \in files[t] /\ r \in files[u] BY <2>4, <1>3
    <3> QED BY <3>1 DEF IInv, ExportedOnce
  <2> QED BY <2>2, <2>3, <2>4
<1> QED BY <1>6, <1>7, <1>8, <1>9, <1>10, <1>11, <1>12, <1>13 DEF IInv

LEMMA SetExportTimeInv == IInv /\ SetExportTime => IInv'
<1> SUFFICES ASSUME IInv, SetExportTime PROVE IInv' OBVIOUS
<1>1. UNCHANGED <<timevars, periodic, phase, disk, files, cut, part, stamp, made, late, spoiled, gone, cutoff>>
  BY DEF SetExportTime, history
<1>2. pc = "settime" /\ pc' = "clean" /\ part = {} /\ phase = "started"
  BY DEF SetExportTime, IInv, Working
<1>3. mem' = [mem EXCEPT !.exp = cut] BY DEF SetExportTime
<1>4. mem'.recs = mem.recs /\ mem'.exp = cut BY <1>3 DEF IInv, Types
<1>5. mem' \in [recs : SUBSET Recs, exp : 0 .. MaxTime] BY <1>3 DEF IInv, Types
<1>6. Exported' = Exported /\ Known' = Known BY <1>1 DEF Exported, Known
<1>7. Disciplined' BY <1>1 DEF IInv, Disciplined, timevars
<1>8. Types' BY <1>1, <1>2, <1>5 DEF IInv, Types, timevars
<1>9. Working' BY <1>1, <1>2 DEF IInv, Working
<1>10. ImagesCovered' BY <1>1, <1>2, <1>4, <1>6 DEF IInv, ImagesCovered, CutCovered, Covered
<1>11. CutCovered' BY <1>1, <1>2, <1>4, <1>6 DEF IInv, CutCovered, Covered
<1>12. NothingLost' BY <1>1, <1>6 DEF IInv, NothingLost
<1>13. NoneAhead'
  <2>1. ASSUME ~cutoff, NEW r \in Exported PROVE r.time <= cut
    <3>1. r.time <= mem.exp \/ r.time <= cut BY <2>1, <1>2 DEF IInv, NoneAhead, Base
    <3>2. r \in Recs BY InFile DEF IInv, Types
    <3>3. r.time \in Int /\ mem.exp \in Int /\ cut \in Int BY <3>2 DEF IInv, Types, Recs
    <3>4. mem.exp < cut BY <2>1, <1>2 DEF IInv, NoneAhead
    <3> QED BY <3>1, <3>3, <3>4
  <2> QED BY <2>1, <1>1, <1>2, <1>4, <1>6 DEF NoneAhead, Base
<1>14. ExportedOnce' BY <1>1 DEF IInv, ExportedOnce
<1> QED BY <1>7, <1>8, <1>9, <1>10, <1>11, <1>12, <1>13, <1>14 DEF IInv

LEMMA CleanOldDataInv == IInv /\ CleanOldData => IInv'
<1> SUFFICES ASSUME IInv, CleanOldData PROVE IInv' OBVIOUS
<1>1. UNCHANGED <<timevars, periodic, phase, disk, files, part, stamp, made, late, spoiled, cutoff>>
  BY DEF CleanOldData
<1>2. pc = "clean" /\ pc' = "idle" /\ cut' = None /\ part = {} /\ phase = "started"
  BY DEF CleanOldData, IInv, Working
<1>3. mem' = [mem EXCEPT !.recs = @ \ OldData(@, cut)] /\ gone' = gone \cup OldData(mem.recs, cut)
  BY DEF CleanOldData
<1>4. mem'.recs = mem.recs \ OldData(mem.recs, cut) /\ mem'.exp = mem.exp BY <1>3 DEF IInv, Types
<1>5. mem' \in [recs : SUBSET Recs, exp : 0 .. MaxTime] BY <1>3 DEF IInv, Types
<1>6. Exported' = Exported /\ Known' = Known BY <1>1 DEF Exported, Known
<1>7. \A r \in OldData(mem.recs, cut) : r \in Known
  <2> SUFFICES ASSUME NEW r \in mem.recs, r.time <= cut - storage_deep PROVE r \in Known BY DEF OldData
  <2>1. r.time \in Int /\ cut \in Int BY DEF IInv, Types, Recs
  <2>2. r.time <= cut BY <2>1, Constants
  <2> QED BY <2>2, <1>2 DEF IInv, CutCovered, Covered
<1>8. Disciplined' BY <1>1 DEF IInv, Disciplined, timevars
<1>9. Types' BY <1>1, <1>2, <1>5, Constants DEF IInv, Types, timevars, None
<1>10. Working' BY <1>1, <1>2 DEF IInv, Working
<1>11. ImagesCovered' BY <1>1, <1>4, <1>6 DEF IInv, ImagesCovered, Covered
<1>12. CutCovered' BY <1>2 DEF CutCovered
<1>13. NothingLost' BY <1>3, <1>6, <1>7 DEF IInv, NothingLost
<1>14. NoneAhead' BY <1>1, <1>2, <1>4, <1>6 DEF IInv, NoneAhead, Base
<1>15. ExportedOnce' BY <1>1 DEF IInv, ExportedOnce
<1> QED BY <1>8, <1>9, <1>10, <1>11, <1>12, <1>13, <1>14, <1>15 DEF IInv

LEMMA NextInv == IInv /\ [Next]_vars => IInv'
<1> SUFFICES ASSUME IInv, [Next]_vars PROVE IInv' OBVIOUS
<1>1. ClockStep BY StepIsClockStep
<1>2. CASE EnvOpen BY <1>2, EnvOpenInv
<1>3. CASE InitTimers BY <1>3, InitTimersInv
<1>4. CASE EnvClose
  <2>1. Down /\ disk' = mem /\ cutoff' = (cutoff \/ pc # "idle") BY <1>4 DEF EnvClose
  <2> QED BY <1>1, <2>1, DownInv
<1>5. CASE Crash
  <2>1. Down /\ disk' = disk /\ cutoff' = TRUE BY <1>5 DEF Crash
  <2> QED BY <1>1, <2>1, DownInv
<1>6. CASE EventTime
  <2>1. /\ UNCHANGED <<phase, mem, disk, files, pc, cut, part, made, late, spoiled, gone, cutoff>>
        /\ stamp' = sys /\ periodic' = periodic /\ ~periodic /\ made < MaxRecs /\ phase # "down"
    BY <1>6 DEF EventTime, alarmvars, history
  <2>2. stamp' \in 0 .. MaxTime BY <2>1, Constants DEF IInv, Types
  <2>3. Working' BY <2>1 DEF IInv, Working
  <2> QED BY <1>1, <2>1, <2>2, <2>3, Aside
<1>7. CASE EventPut BY <1>7, EventPutInv
<1>8. CASE ServerTime \/ Second \/ UNCHANGED vars
  <2>1. UNCHANGED <<phase, mem, disk, files, pc, cut, part, made, late, spoiled, gone, cutoff, stamp, periodic>>
    BY <1>8 DEF ServerTime, Second, vars, dbvars, alarmvars, history
  <2>2. stamp' \in 0 .. MaxTime /\ Working' BY <2>1 DEF IInv, Types, Working
  <2> QED BY <1>1, <2>1, <2>2, Aside
<1>9. CASE Alarm BY <1>9, AlarmInv
<1>10. CASE ExportCopy BY <1>10, ExportCopyInv
<1>11. CASE ExportRename BY <1>11, ExportRenameInv
<1>12. CASE SetExportTime BY <1>12, SetExportTimeInv
<1>13. CASE CleanOldData BY <1>13, CleanOldDataInv
<1> QED
  BY <1>2, <1>3, <1>4, <1>5, <1>6, <1>7, <1>8, <1>9, <1>10, <1>11, <1>12, <1>13 DEF Next

\* The invariant holds at any time, for every logdb.cfg.
THEOREM Invariance == Spec => []IInv
<1>1. Init => IInv BY InitInv
<1>2. IInv /\ [Next]_vars => IInv' BY NextInv
<1> QED BY <1>1, <1>2, PTL DEF Spec

-----------------------------------------------------------------------------
\* The archive keeps well formed records and times, the clocks stay within their bounds,
\* and there is a .part file only between the copy and the rename.
THEOREM TypeCorrect == Spec => []TypeOK
<1>1. IInv => TypeOK
  <2> SUFFICES ASSUME IInv PROVE TypeOK OBVIOUS
  <2>1. Exported \subseteq Recs BY InFile DEF IInv, Types
  <2>2. /\ mem.recs \subseteq Recs /\ mem.exp \in 0 .. MaxTime
        /\ disk.recs \subseteq Recs /\ disk.exp \in 0 .. MaxTime
    BY DEF IInv, Types
  <2>3. {sys, rtc} \subseteq 0 .. MaxTime BY Constants DEF IInv, Types
  <2> QED BY <2>1, <2>2, <2>3 DEF IInv, Types, Working, TypeOK
<1> QED BY <1>1, Invariance, PTL

\* A correction of the system clock goes on until it agrees with the RTC: whatever the
\* server sends meanwhile, and also through a power failure, only equal clocks have
\* nothing left to correct (sync_time and catch_alarm).
THEOREM DisciplinedHolds == Spec => []Disciplined
<1>1. IInv => Disciplined BY DEF IInv
<1> QED BY <1>1, Invariance, PTL

\* What export_log says is true at any time: a record of the archive that is not younger
\* than its export time is in an export file, or late, or was spoiled; also after the
\* program ended between any two steps of log_db_maintain_database.
THEOREM TimeMeansExportedHolds == Spec => []TimeMeansExported
<1>1. IInv => TimeMeansExported BY DEF IInv, ImagesCovered, Covered, TimeMeansExported
<1> QED BY <1>1, Invariance, PTL

\* log_db_clean_old_data deletes no record that was not exported, the late and spoiled
\* ones apart, although it goes by age only.
THEOREM NothingLostHolds == Spec => []NothingLost
<1>1. IInv => NothingLost BY DEF IInv
<1> QED BY <1>1, Invariance, PTL

\* Unless the program ended before the export time was on disk, no record is in two
\* export files, also when the clock was set back between the exports.
THEOREM ExportedOnceHolds == Spec => []ExportedOnce
<1>1. IInv => ExportedOnce BY DEF IInv
<1> QED BY <1>1, Invariance, PTL
=============================================================================
