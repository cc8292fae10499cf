-------------------------------- MODULE Vars --------------------------------
(***************************************************************************)
(* HMI against startiec: the variables of the menus that are open          *)
(* (hmi/winparser.c, hmi/menu.c, common/varcontrol.c), the messages that   *)
(* attach and detach them, and the events that bring their values          *)
(* (hmi/hmi.c, iec61850/virtualize.c).                                     *)
(*                                                                         *)
(* The uid of a variable is the address of its varrec in HMI.  A menu that *)
(* is closed frees its varrecs while messages about them are on the way,   *)
(* and the next menu may be given the same addresses.  startiec takes as   *)
(* many messages at once as it finds (MfRing): a batch.                    *)
(***************************************************************************)
EXTENDS StartIec

CONSTANTS
  Cells,       \* addresses of varrecs
  Menus,       \* name -> [items, consts, into]: its remote variables, whether it has
               \* others, and the menus one enters from it
  MainMenu,    \* the menu at the bottom, which has no remote variables
  Times,       \* what jourtime may be
  Held(_),     \* how many records the archive has from a time on
  Samples,     \* what meters may send: [adr, name, value]
  MaxDown, MaxUp   \* bounds: messages to startiec, events to HMI on the way

ASSUME MenusAssumption ==
  /\ MainMenu \in DOMAIN Menus /\ Menus[MainMenu].items = <<>>
  /\ \A m \in DOMAIN Menus :
       /\ Menus[m].into \subseteq DOMAIN Menus
       /\ Menus[m].items \in Seq(Range(Menus[m].items))
       /\ \A item \in Range(Menus[m].items) : item.logged \in BOOLEAN /\ item.max \in Nat \ {0}

ASSUME ArchiveAssumption == \A t \in Times : Held(t) \in Nat

\* An address is not 0, what stands for no variable.
ASSUME CellsAssumption == NoUid \notin Cells

\* The table of variables is a list.
ASSUME TableAssumption == VarRecs \in Seq(Range(VarRecs))

\* An actual value is one value (newiecvarrec(1)); a menu shows it once, and none of the menus
\* that can be opened above that menu shows actual values: so are the files in src/menus.
Shows(m) == \E item \in Range(Menus[m].items) : ~item.logged
ASSUME ActualsAssumption ==
  \A m \in DOMAIN Menus :
    /\ \A item \in Range(Menus[m].items) : ~item.logged => item.max = 1
    /\ \A j, k \in DOMAIN Menus[m].items :
         /\ ~Menus[m].items[j].logged /\ ~Menus[m].items[k].logged
         /\ Menus[m].items[j].do = Menus[m].items[k].do /\ Menus[m].items[j].leaf = Menus[m].items[k].leaf
         => j = k
    /\ \E above \in SUBSET DOMAIN Menus :
         /\ Menus[m].into \subseteq above
         /\ \A n \in above : Menus[n].into \subseteq above /\ (Shows(m) => ~Shows(n))

VARIABLES
  open,      \* HMI: the menus that are open: [name, vars], vars the varrecs
  actlnode,  \* HMI: the LD of the logical node in view
  jourtime,
  alive,     \* HMI has not died of a write past the values of a variable
  dn, up,    \* messages to startiec, events to HMI
  vr,        \* startiec: its varrecs
  misread,   \* history: a detach was read behind another message
  crossed    \* history: addresses attached while something about them was on the way

vars == <<open, actlnode, jourtime, alive, dn, up, vr, misread, crossed>>

Lds == {LNodes[k].ldinst : k \in DOMAIN LNodes}
Live == UNION {Range(open[k].vars) : k \in DOMAIN open}
InUse == {v.cell : v \in Live}
NoTime == 0
Main == [name |-> MainMenu, vars |-> <<>>]

Init ==
  /\ open = <<Main>>
  /\ actlnode \in Lds /\ jourtime \in Times /\ alive = TRUE
  /\ dn = <<>> /\ up = <<>>
  /\ vr = FirstVars
  /\ misread = FALSE /\ crossed = {}

----------------------------------------------------------------------------
(* HMI: the keys. *)

\* Mutant: a journal keeps what it showed until the answer comes.
AskedKeeps(v, adr, time) == [v EXCEPT !.adr = adr, !.time = IF v.logged THEN time ELSE @]

\* vc_attach_dataset: whatever the menu was opened for, the LD in view and the time of
\* the journals (of which an actual value makes no use) are asked for; the values are
\* cleared.
Asked(v, adr, time) ==
  [v EXCEPT !.adr = adr, !.time = IF v.logged THEN time ELSE @, !.val = [k \in DOMAIN v.val |-> NoVal]]
AttachMsg(v) == [sys_msg |-> "VARATTACH", of |-> [v EXCEPT !.val = [k \in DOMAIN v.val |-> NoVal]]]

\* The variables that have a journal, or those that have not, in the order of the list.
OfKind(list, logged) ==
  LET upTo[k \in 0 .. Len(list)] ==
        IF k = 0 THEN <<>>
        ELSE IF list[k].logged = logged THEN Append(upTo[k - 1], list[k]) ELSE upTo[k - 1]
  IN  upTo[Len(list)]

\* vc_detach_dataset: what is attached for its actual value, if anything.  Only a menu
\* without varrecs sends nothing.
DetachMsg(m) ==
  LET actual == OfKind(m.vars, FALSE)
  IN  IF m.vars = <<>> /\ ~Menus[m.name].consts THEN <<>>
      ELSE <<[sys_msg |-> "VARDETACH", uids |-> [k \in DOMAIN actual |-> actual[k].cell]]>>

\* Something about an address is on the way, or will be.
OnTheWay(c) ==
  \/ \E k \in DOMAIN dn : IF dn[k].sys_msg = "VARATTACH" THEN dn[k].of.cell = c ELSE c \in Range(dn[k].uids)
  \/ \E k \in DOMAIN up : up[k].uid = c
  \/ \E k \in DOMAIN vr : vr[k].uid = c

\* The menus are what they are after a key; some variables are asked for after the
\* menus before were closed and let go of theirs.
Ask(menus, detached, asked) ==
  LET cells == {v.cell : v \in Range(asked)}
      kept == {v.cell : v \in UNION {Range(menus[k].vars) : k \in DOMAIN menus}} \ cells
  IN  /\ open' = menus
      /\ dn' = dn \o detached \o [k \in DOMAIN asked |-> AttachMsg(asked[k])]
      /\ crossed' = (crossed \cap kept) \cup {c \in cells : OnTheWay(c)}
      /\ UNCHANGED <<alive, up, vr, misread>>

Top == Last(open)
Under == Front(open)

\* newiecvarrec
NewVar(item, cell) ==
  [do |-> item.do, leaf |-> item.leaf, logged |-> item.logged, cell |-> cell, adr |-> actlnode,
   time |-> NoTime, val |-> [j \in 1 .. item.max |-> NoVal]]

\* create_menu: varrecs at any free addresses, all of them attached.
EnterMenu ==
  \E m \in Menus[Top.name].into :
    LET items == Menus[m].items
    IN  \E at \in [DOMAIN items -> Cells \ InUse] :
          LET new_vars == [k \in DOMAIN items |-> Asked(NewVar(items[k], at[k]), actlnode, jourtime)]
          IN  /\ IsInjective(at)
              /\ Ask(Append(open, [name |-> m, vars |-> new_vars]), <<>>, new_vars)
              /\ UNCHANGED <<actlnode, jourtime>>

\* vc_attach_dataset(fvarrec of the menu in view, ..., LOGGED)
Refresh(menus, detached, time) ==
  LET top == Last(menus)
      again == [k \in DOMAIN top.vars |->
                  IF top.vars[k].logged THEN Asked(top.vars[k], actlnode, time) ELSE top.vars[k]]
  IN  Ask(Append(Front(menus), [top EXCEPT !.vars = again]), detached, OfKind(again, TRUE))

\* The key MENU; the last menu stays.
LeaveMenu == Len(open) > 1 /\ Ask(Under, DetachMsg(Top), <<>>) /\ UNCHANGED <<actlnode, jourtime>>

\* date_enter, time_enter, setinterval, settarif: back, and the journals for another time.
LeaveForTime == Len(open) > 1 /\ jourtime' \in Times /\ Refresh(Under, DetachMsg(Top), jourtime') /\ UNCHANGED actlnode

\* REDRAW, REDRAWTIMEJOUR
ChangeTime == jourtime' \in Times /\ Refresh(open, <<>>, jourtime') /\ UNCHANGED actlnode

\* REMAKEMENU: another LD, the menu is closed, and made again if it was the last.
Remade(menus) == IF menus = <<>> THEN <<Main>> ELSE menus
ChangeLd == actlnode' \in Lds /\ Ask(Remade(Under), DetachMsg(Top), <<>>) /\ UNCHANGED jourtime

\* setlnbyclass, setlnbytype: back from the menu of LDs, then the same.
SelectLd ==
  /\ Len(open) > 1 /\ actlnode' \in Lds
  /\ Ask(Remade(Front(Under)), DetachMsg(Top) \o DetachMsg(Last(Under)), <<>>)
  /\ UNCHANGED jourtime

Keys ==
  /\ alive
  /\ EnterMenu \/ LeaveMenu \/ LeaveForTime \/ ChangeTime \/ ChangeLd \/ SelectLd
  /\ Len(dn') <= MaxDown

----------------------------------------------------------------------------
(* startiec: rcvdata. *)

\* find_varrecbyname
FindVarrec(v) ==
  LET named == {k \in DOMAIN VarRecs : VarRecs[k].asdu = v.adr /\ VarRecs[k].name = v.do /\ VarRecs[k].leaf = v.leaf}
  IN  IF named = {} THEN 0 ELSE Least(named)

\* What an attach of an unknown name is answered with is undefined: menus have none.
ASSUME NamesAssumption ==
  \A m \in DOMAIN Menus : \A k \in DOMAIN Menus[m].items : \A ld \in Lds :
    FindVarrec([adr |-> ld, do |-> Menus[m].items[k].do, leaf |-> Menus[m].items[k].leaf]) # 0

\* Mutant: validx counts from 1 (from 2 here).
LogEventsFromOne(v) ==
  [i \in 1 .. (IF Held(v.time) < Len(v.val) THEN Held(v.time) ELSE Len(v.val)) |->
     [uid |-> v.cell, validx |-> i + 1, value |-> <<v.adr, v.do, v.time, i>>]]

\* get_logvarevent: the records from a time on, as many as were asked for at most.
LogEvents(v) ==
  [i \in 1 .. (IF Held(v.time) < Len(v.val) THEN Held(v.time) ELSE Len(v.val)) |->
     [uid |-> v.cell, validx |-> i, value |-> <<v.adr, v.do, v.time, i>>]]

\* An actual value.
Event(uid, value) == [uid |-> uid, validx |-> 1, value |-> value]

\* EP_MSG_VARATTACH; get_actvarevent
VarAttach(acc, v) ==
  LET k == FindVarrec(v)
  IN  IF v.logged THEN [acc EXCEPT !.up = @ \o LogEvents(v)]
      ELSE [vr |-> [acc.vr EXCEPT ![k].uid = v.cell, ![k].attaching = TRUE],
            up |-> Append(acc.up, Event(v.cell, acc.vr[k].val))]

\* The words a detach reads: those at the start of the batch, whatever is there.  The
\* second word of an attach is its uid; behind the uids of a detach comes a header.
Uids(batch, k) ==
  LET first == IF batch[1].sys_msg = "VARATTACH" THEN <<NoUid, batch[1].of.cell>> ELSE batch[1].uids
  IN  [j \in DOMAIN batch[k].uids |-> IF j <= Len(first) THEN first[j] ELSE NoUid]

\* EP_MSG_VARDETACH: the first varrec that has the uid.
DetachUid(recs, uid) ==
  LET having == {k \in DOMAIN recs : recs[k].uid = uid}
  IN  IF having = {} THEN recs ELSE [recs EXCEPT ![Least(having)].uid = NoUid, ![Least(having)].attaching = FALSE]

DetachUids(recs, uids) ==
  LET after[k \in 0 .. Len(uids)] == IF k = 0 THEN recs ELSE DetachUid(after[k - 1], uids[k])
  IN  after[Len(uids)]

RcvMsg(batch, acc, k) ==
  IF batch[k].sys_msg = "VARATTACH" THEN VarAttach(acc, batch[k].of)
  ELSE [acc EXCEPT !.vr = DetachUids(@, Uids(batch, k))]

\* The messages of a batch, one after the other.
RcvData(batch) ==
  LET after[k \in 0 .. Len(batch)] ==
        IF k = 0 THEN [vr |-> vr, up |-> up] ELSE RcvMsg(batch, after[k - 1], k)
  IN  after[Len(batch)]

FromHmi ==
  \E n \in DOMAIN dn :
    LET batch == SubSeq(dn, 1, n)
        done == RcvData(batch)
    IN  /\ vr' = done.vr /\ up' = done.up
        /\ Len(up') <= MaxUp
        /\ dn' = SubSeq(dn, n + 1, Len(dn))
        /\ misread' = (misread \/ \E k \in 2 .. n : batch[k].sys_msg = "VARDETACH"
                                                    /\ Uids(batch, k) # batch[k].uids)
        /\ UNCHANGED <<open, actlnode, jourtime, alive, crossed>>

\* EP_USER_DATA: add_varevent for one unit of a meter.
FromMeter ==
  \E s \in Samples :
    LET x == [id |-> MapByName(s.name), value_type |-> "FLT", value |-> s.value]
        done == AddVarevent([vr |-> vr, events |-> <<>>], x, s.adr)
    IN  /\ vr' = done.vr
        /\ up' = up \o [k \in DOMAIN done.events |-> Event(done.events[k].uid, done.events[k].value)]
        /\ Len(up') <= MaxUp
        /\ UNCHANGED <<open, actlnode, jourtime, alive, dn, misread, crossed>>

----------------------------------------------------------------------------
(* HMI: setvarbyevent, in the thread of the callback. *)

WriteVar(c, k, value) ==
  LET put(v) == IF v.cell = c THEN [v EXCEPT !.val[k] = value] ELSE v
      menu(m) == [m EXCEPT !.vars = [j \in DOMAIN m.vars |-> put(m.vars[j])]]
  IN  [j \in DOMAIN open |-> menu(open[j])]

\* An event for an address that is free is ignored: its varrec has uid 0.  One past
\* the values of a variable writes through what happens to be behind them.
SetVarByEvent ==
  /\ alive /\ up # <<>>
  /\ up' = Tail(up)
  /\ LET ev == Head(up)
         to == {v \in Live : v.cell = ev.uid}
     IN  \/ to = {} /\ UNCHANGED <<open, alive>>
         \/ \E v \in to : ev.validx \in DOMAIN v.val /\ open' = WriteVar(ev.uid, ev.validx, ev.value) /\ UNCHANGED alive
         \/ \E v \in to : ev.validx \notin DOMAIN v.val /\ alive' \in BOOLEAN /\ UNCHANGED open
  /\ UNCHANGED <<actlnode, jourtime, dn, vr, misread, crossed>>

Next == Keys \/ FromHmi \/ FromMeter \/ SetVarByEvent
Spec == Init /\ [][Next]_vars

----------------------------------------------------------------------------
(* Properties. *)

\* What a variable ought to show: the value of its varrec, or what the archive has.
Due(v) ==
  IF v.logged
  THEN [k \in DOMAIN v.val |-> IF k <= Held(v.time) THEN <<v.adr, v.do, v.time, k>> ELSE NoVal]
  ELSE <<vr[FindVarrec(v)].val>>

\* When nothing is on the way every variable in HMI shows what startiec has for it,
\* although addresses are used again and late events reach the next owner: only a
\* detach read behind another message, or a journal asked for while something about
\* its address was on the way, may leave a wrong value.
Settled ==
  (alive /\ dn = <<>> /\ up = <<>> /\ ~misread)
    => \A v \in Live : (v.logged /\ v.cell \in crossed) \/ v.val = Due(v)

\* HMI writes past the values of a variable only if the variable was given the address
\* of a journal whose answer was on the way.
Within ==
  \A k \in DOMAIN up : \A v \in Live :
    (v.cell = up[k].uid /\ v.cell \notin crossed) => up[k].validx \in DOMAIN v.val
=============================================================================
