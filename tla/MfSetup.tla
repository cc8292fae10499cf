------------------------------- MODULE MfSetup -------------------------------
(***************************************************************************)
(* How end-points come into being (common/multififo.c): a chain of         *)
(* processes, hmi (0), startiec or the manager (1), a unitlink (2) and a   *)
(* phylink (3).  mf_newendpoint of a process registers an end-point with   *)
(* the process below through its init FIFO, and the answers come back      *)
(* through the up FIFO of the channel.                                     *)
(*                                                                         *)
(* Each process has a main thread and an inotify thread.  The inotify      *)
(* thread calls one handler for each event it takes from its queue, and is *)
(* taken to run that handler without being overtaken.  The main threads    *)
(* keep to no time: the sleeps between two end-points may be cut short by  *)
(* a signal, and startiec, which hmi has just forked, registers its own    *)
(* end-points while hmi registers one with it.                             *)
(*                                                                         *)
(* Left out: fork and the semaphore file (the processes are running), the  *)
(* ring of the working channels (MfRing), and whatever is not about        *)
(* setting up.  A behaviour ends when a process exits.                     *)
(***************************************************************************)
EXTENDS Integers, Sequences, FiniteSetsExt, SequencesExt

CONSTANTS Iec,     \* the addresses of addr.cfg, in the order in which startiec takes them
          Devices, \* those of the devices, in the order in which the manager takes them
          Hmi,     \* IDHMI, the address of hmi's end-point
          MaxEp    \* end-points a process has room for: 63

\* Two devices do not share an address.
ASSUME SetupAssumption == /\ Iec \in Seq(Nat) /\ IsInjective(Iec)
                          /\ Devices \in Seq(Nat) /\ IsInjective(Devices)
                          /\ Hmi \in Nat \ (Range(Iec) \cup Range(Devices)) /\ MaxEp \in Nat

Procs == 0 .. 3
Above == 0 .. 2     \* those that call mf_newendpoint
Adrs == {Hmi} \cup Range(Iec) \cup Range(Devices)

VARIABLES
  sys,     \* what the threads share, see FirstSys
  main,    \* the main thread of each process: where it is in mf_newendpoint
  done,    \* history: the addresses whose wait was ended by their own event
  stolen   \* history: the events that a wait for another end-point has taken

vars == <<sys, main, done, stolen>>

(***************************************************************************)
(* State.  eps, chan and fifo speak for themselves; mask is the event mask *)
(* of the init channel, ring what was read from it and not yet taken, q    *)
(* the inotify queue, hpp the pipe to the main thread, conn the addresses  *)
(* the phylink was asked to connect and has not answered.  The rest is     *)
(* history: dead the processes that have exited, hidden whether NEWEP or   *)
(* EPRDY was read behind another message, mixed whether main has made an   *)
(* end-point between init_read and init_close, told the numbers of the     *)
(* end-points for which NEWEP was seen.                                    *)
(*                                                                         *)
(* A process has up to three channels: "init", its own init FIFO (in) and  *)
(* the one of the process below (out); "dn" and "up".  The file read as    *)
(* "dn" of process p is the one written as "up" of process p + 1, and the  *)
(* other way round.                                                        *)
(***************************************************************************)
Channel == [made : BOOLEAN, in : BOOLEAN, out : {"no", "open", "stale"}]
NoChannel == [made |-> FALSE, in |-> FALSE, out |-> "no"]

\* struct endpoint; up and dn are the numbers of the end-point in the processes
\* above and below, 0 if unknown; an end-point of process 0 or 1 of its own has no up.
Endpoint == [adr : Adrs, up : Nat, dn : Nat]

Channels == {"init", "dn", "up"}
Events == {"open", "modify", "close"}
Header == [adr : Adrs, numep : Nat]    \* ep_init_header
Msg == [msg : {"NEWEP", "EPRDY", "DATA", "CONNECT"}, numep : Nat, my : Nat]
Sys == [eps : [Procs -> Seq(Endpoint)], chan : [Procs -> [Channels -> Channel]],
        mask : [Procs -> SUBSET Events], ring : [Procs -> Seq(Header)],
        q : [Procs -> Seq(Channels \X Events)],
        fifo : [Procs -> [Channels -> Seq(Header \cup Msg)]], hpp : [Procs -> Seq(Adrs)],
        conn : SUBSET Nat, dead : SUBSET Procs, hidden : BOOLEAN, mixed : BOOLEAN,
        told : [Procs -> SUBSET Nat]]
Thread == [at : {"idle", "open", "write", "wait", "connect"}, adr : Nat, left : Seq(Adrs)]

FirstSys == [eps |-> [p \in Procs |-> <<>>],
             chan |-> [p \in Procs |-> [c \in Channels |->
                         [NoChannel EXCEPT !.made = (c = "init")]]],
             mask |-> [p \in Procs |-> Events],
             ring |-> [p \in Procs |-> <<>>],
             q |-> [p \in Procs |-> <<>>],
             fifo |-> [p \in Procs |-> [c \in Channels |-> <<>>]],
             hpp |-> [p \in Procs |-> <<>>],
             conn |-> {}, dead |-> {}, hidden |-> FALSE, mixed |-> FALSE,
             told |-> [p \in Procs |-> {}]]

\* The manager tries another speed: the processes below are new, its own end-points
\* are those of the last time, with the numbers of then.
AgainSys == [FirstSys EXCEPT
  !.eps[1] = [i \in 1 .. Min({Len(Devices), MaxEp}) |-> [adr |-> Devices[i], up |-> 0, dn |-> i]],
  !.chan[1]["dn"].made = TRUE]

\* hmi stands above startiec, nobody above the manager.  left are the addresses whose
\* end-points a main thread has still to register.
Init == \E start \in {"startiec", "manager", "again"} :
          /\ sys = IF start = "again" THEN AgainSys ELSE FirstSys
          /\ main = [p \in Procs |->
               [at |-> "idle", adr |-> 0,
                left |-> CASE p = 0 /\ start = "startiec" -> <<Hmi>>
                           [] p = 1 -> IF start = "startiec" THEN Iec ELSE Devices
                           [] OTHER -> <<>>]]
          /\ done = [p \in Procs |-> {}] /\ stolen = {}

Peer(p, c) == IF c = "up" THEN [p |-> p - 1, c |-> "dn"] ELSE [p |-> p + 1, c |-> "up"]

\* inotify: an event equal to the last one in the queue is dropped.
Notify(s, p, c, e) ==
  IF s.chan[p][c].made /\ (s.q[p] = <<>> \/ Last(s.q[p]) # <<c, e>>)
  THEN [s EXCEPT !.q[p] = Append(@, <<c, e>>)] ELSE s

Exit(s, p) == [s EXCEPT !.dead = @ \cup {p}]

\* A write to a channel.
Put(s, p, c, m) ==
  LET f == Peer(p, c)
  IN  Notify([s EXCEPT !.fifo[f.p][f.c] = Append(@, m)], f.p, f.c, "modify")

NewEp(n, my) == [msg |-> "NEWEP", numep |-> n, my |-> my]
EpRdy(n) == [msg |-> "EPRDY", numep |-> n, my |-> 0]
Message(m, n, adr) == [msg |-> m, numep |-> n, my |-> adr]
System == {"NEWEP", "EPRDY"}

Known(s, p, adr) == \E i \in DOMAIN s.eps[p] : s.eps[p][i].adr = adr
Numep(s, p, adr) == CHOOSE i \in DOMAIN s.eps[p] :
  s.eps[p][i].adr = adr /\ \A j \in 1 .. i - 1 : s.eps[p][j].adr # adr

\* mf_toendpoint: the number of the receiver goes into the header; without an
\* end-point nothing happens, without a descriptor the process exits.
ToEndpoint(s, p, c, m, adr) ==
  LET ep == s.eps[p][Numep(s, p, adr)]
  IN  IF ~Known(s, p, adr) THEN s
      ELSE IF s.chan[p][c].out # "open" THEN Exit(s, p)
      ELSE Put(s, p, c, Message(m, IF c = "up" THEN ep.up ELSE ep.dn, adr))

(***************************************************************************)
(* The init channel, in the process below                                  *)
(***************************************************************************)
InitOpen(s, p) ==
  IF s.chan[p]["init"].in THEN s
  ELSE Notify([s EXCEPT !.chan[p]["init"].in = TRUE,
                        !.mask[p] = (@ \ {"open"}) \cup {"close"}], p, "init", "open")

\* create_ep: there may be no room.
CreateEp(s, p, adr, up) == [s EXCEPT !.eps[p] = Append(@, [adr |-> adr, up |-> up, dn |-> 0])]
Room(s, p) == Len(s.eps[p]) < MaxEp

\* Mutant: the number before create_ep counted.
NewEp2ChannelUpBefore(s, p, h) ==
  LET s1 == [CreateEp(s, p, h.adr, h.numep) EXCEPT !.mask[p] = {"close"}]
  IN  IF ~Room(s, p) THEN s
      ELSE IF s.chan[p]["up"].made THEN Put(s1, p, "up", NewEp(h.numep, Len(s.eps[p])))
      ELSE Notify([s1 EXCEPT !.chan[p]["up"] = [made |-> TRUE, in |-> FALSE, out |-> "open"]],
                  p - 1, "dn", "open")

\* newep2channelup.  Through a new channel the number is announced once both
\* sides have opened it (SysOpen), through a known one at once.
NewEp2ChannelUp(s, p, h) ==
  LET s1 == [CreateEp(s, p, h.adr, h.numep) EXCEPT !.mask[p] = {"close"}]
  IN  IF ~Room(s, p) THEN s
      ELSE IF s.chan[p]["up"].made THEN Put(s1, p, "up", NewEp(h.numep, Len(s1.eps[p])))
      ELSE Notify([s1 EXCEPT !.chan[p]["up"] = [made |-> TRUE, in |-> FALSE, out |-> "open"]],
                  p - 1, "dn", "open")

\* init_read: everything there is, but one header is taken.  A closed channel is not
\* read; on an empty FIFO, opened to block, the thread hangs.
InitReadHangs(s, p) == s.chan[p]["init"].in /\ s.fifo[p]["init"] = <<>>
InitRead(s, p) ==
  LET headers == s.ring[p] \o s.fifo[p]["init"]
  IN  IF ~s.chan[p]["init"].in THEN s
      ELSE NewEp2ChannelUp([s EXCEPT !.fifo[p]["init"] = <<>>, !.ring[p] = Tail(headers)],
                           p, Head(headers))

\* init_close: the process above has closed its end.  It is told that the newest
\* end-point is ready, and so is the main thread; one that main has made meanwhile
\* has no channel up.
InitClose(s, p) ==
  LET ep == Last(s.eps[p])
      s1 == Notify([s EXCEPT !.chan[p]["init"].in = FALSE,
                             !.mask[p] = @ \cup {"open", "modify"}], p, "init", "close")
  IN  IF ~s.chan[p]["init"].in THEN s
      ELSE IF s.eps[p] = <<>> \/ ep.up = 0 THEN Exit(s1, p)
      ELSE [Put(s1, p, "up", EpRdy(ep.up)) EXCEPT !.hpp[p] = Append(@, ep.adr)]

(***************************************************************************)
(* The working channels, on both sides                                     *)
(***************************************************************************)
\* The newest end-point that came from above.
LastUp(s, p) == CHOOSE i \in DOMAIN s.eps[p] :
  s.eps[p][i].up # 0 /\ \A j \in i + 1 .. Len(s.eps[p]) : s.eps[p][j].up = 0

\* sys_open: read side first; the process below, which has the write side
\* already, then announces its newest end-point.
SysOpen(s, p, c) ==
  LET s1 == Notify([s EXCEPT !.chan[p][c].in = TRUE], p, c, "open")
      n == LastUp(s, p)
      s2 == IF s.chan[p][c].in THEN s
            ELSE IF s.chan[p][c].out = "open"
            THEN Put(s1, p, c, NewEp(s.eps[p][n].up, n)) ELSE s1
  IN  IF s.chan[p][c].out = "open" THEN s2
      ELSE Notify([s2 EXCEPT !.chan[p][c].out = "open"], Peer(p, c).p, Peer(p, c).c, "open")

\* Mutants: the number is not kept; the init FIFO below is not let go.
NewEpReadNoNumber(s, p, m) ==
  LET s1 == [s EXCEPT !.told[p] = @ \cup {m.numep}]
  IN  IF s.chan[p]["init"].out = "open"
      THEN Notify([s1 EXCEPT !.chan[p]["init"].out = "stale"], p + 1, "init", "close") ELSE s1
NewEpReadKeepsInit(s, p, m) ==
  [s EXCEPT !.eps[p][m.numep].dn = m.my, !.told[p] = @ \cup {m.numep}]

\* NEWEP: the number below is known, and the init FIFO below is let go, unless main
\* has forgotten it.  mychs[0]->descout keeps its value, and close() fails a second time.
NewEpRead(s, p, m) ==
  LET s1 == [s EXCEPT !.eps[p][m.numep].dn = m.my, !.told[p] = @ \cup {m.numep}]
  IN  IF s.chan[p]["init"].out = "open"
      THEN Notify([s1 EXCEPT !.chan[p]["init"].out = "stale"], p + 1, "init", "close")
      ELSE s1

\* The callback: a unitlink passes on what a device sends, a phylink connects.
Callback(s, p, batch) ==
  LET passed[k \in 0 .. Len(batch)] ==
        IF k = 0 THEN s
        ELSE IF batch[k].msg = "DATA" THEN ToEndpoint(passed[k - 1], p, "up", "DATA", batch[k].my)
        ELSE passed[k - 1]
  IN  CASE p = 2 -> passed[Len(batch)]
        [] p = 3 -> [s EXCEPT !.conn = @ \cup {m.my : m \in {x \in Range(batch) : x.msg = "CONNECT"}}]
        [] OTHER -> s

\* sys_read: everything there is, but only the first header is looked at for
\* NEWEP and EPRDY, and its end-point has to exist.
SysRead(s, p, c) ==
  LET batch == s.fifo[p][c]
      m == Head(batch)
      s1 == [s EXCEPT !.fifo[p][c] = <<>>,
                      !.hidden = @ \/ \E k \in 2 .. Len(batch) : batch[k].msg \in System]
      s2 == CASE m.msg = "NEWEP" -> NewEpRead(s1, p, m)
              [] m.msg = "EPRDY" -> [s1 EXCEPT !.hpp[p] = Append(@, s.eps[p][m.numep].adr)]
              [] OTHER -> s1
  IN  IF batch = <<>> THEN s
      ELSE IF m.numep \notin DOMAIN s.eps[p] THEN Exit(s1, p)
      ELSE Callback(s2, p, batch)

(***************************************************************************)
(* The threads                                                             *)
(***************************************************************************)
Running == sys.dead = {}

\* No process closes a working channel while it runs.
Handler(s, p, c, e) ==
  CASE c = "init" /\ e = "open" -> InitOpen(s, p)
    [] c = "init" /\ e = "modify" -> InitRead(s, p)
    [] c = "init" /\ e = "close" -> InitClose(s, p)
    [] c # "init" /\ e = "open" -> SysOpen(s, p, c)
    [] c # "init" /\ e = "modify" -> SysRead(s, p, c)

\* inotify_thr takes an event; those the channel does not want are dropped.
Inotify(p) ==
  /\ Running /\ sys.q[p] # <<>>
  /\ LET c == Head(sys.q[p])[1]
         e == Head(sys.q[p])[2]
         s == [sys EXCEPT !.q[p] = Tail(@)]
         wanted == c # "init" \/ e \in sys.mask[p]
     IN  /\ ~(wanted /\ c = "init" /\ e = "modify" /\ InitReadHangs(s, p))
         /\ sys' = IF wanted THEN Handler(s, p, c, e) ELSE s
  /\ UNCHANGED <<main, done, stolen>>

At(p, place) == Running /\ main[p].at = place
Go(p, place) == main' = [main EXCEPT ![p].at = place]

\* mf_newendpoint, from the semaphore to the init FIFO: the end-point of a new address
\* is made, one the manager has already is found.
Create(p) ==
  /\ At(p, "idle") /\ main[p].left # <<>>
  /\ LET adr == Head(main[p].left)
         s == IF Known(sys, p, adr) THEN sys ELSE CreateEp(sys, p, adr, 0)
         go == Known(sys, p, adr) \/ Room(sys, p)
     IN  /\ main' = [main EXCEPT ![p] = [at |-> IF go THEN "open" ELSE "idle",
                                         adr |-> adr, left |-> Tail(@.left)]]
         /\ sys' = IF go THEN [s EXCEPT !.chan[p]["dn"].made = TRUE,
                                        !.chan[p]["init"].out = "no",
                                        !.mixed = @ \/ sys.mask[p] = {"close"}]
                   ELSE sys
  /\ UNCHANGED <<done, stolen>>

\* The same for an end-point the process above has announced (process 2): its main
\* takes an address from hpp.
Forward == /\ At(2, "idle") /\ sys.hpp[2] # <<>>
           /\ sys' = [sys EXCEPT !.hpp[2] = Tail(@), !.chan[2]["dn"].made = TRUE,
                                 !.chan[2]["init"].out = "no"]
           /\ main' = [main EXCEPT ![2].at = "open", ![2].adr = Head(sys.hpp[2])]
           /\ UNCHANGED <<done, stolen>>

OpenInit(p) == /\ At(p, "open") /\ Go(p, "write")
               /\ sys' = Notify([sys EXCEPT !.chan[p]["init"].out = "open"], p + 1, "init", "open")
               /\ UNCHANGED <<done, stolen>>

WriteInit(p) ==
  /\ At(p, "write") /\ Go(p, "wait")
  /\ LET h == [adr |-> main[p].adr, numep |-> Numep(sys, p, main[p].adr)]
     IN  sys' = Notify([sys EXCEPT !.fifo[p + 1]["init"] = Append(@, h)], p + 1, "init", "modify")
  /\ UNCHANGED <<done, stolen>>

\* The wait ends with whatever is in hpp, and takes all of it.  The descriptor of the
\* init FIFO is forgotten; one that NEWEP has not closed yet stays open for ever.
Wake(p) == /\ At(p, "wait") /\ sys.hpp[p] # <<>>
           /\ sys' = [sys EXCEPT !.hpp[p] = <<>>, !.chan[p]["init"].out = "no"]
           /\ Go(p, IF p = 2 THEN "connect" ELSE "idle")
           /\ LET taken == Range(sys.hpp[p])
              IN  /\ done' = [done EXCEPT ![p] = @ \cup (taken \cap {main[p].adr})]
                  /\ stolen' = stolen \cup {<<p, adr>> : adr \in taken \ {main[p].adr}}

\* main of a unitlink goes on with EP_MSG_CONNECT.
SendConnect == /\ At(2, "connect") /\ Go(2, "idle")
               /\ sys' = ToEndpoint(sys, 2, "dn", "CONNECT", main[2].adr)
               /\ UNCHANGED <<done, stolen>>

\* A device answers; a phylink sends what comes from it.
Answer == /\ Running
          /\ \E adr \in sys.conn :
               sys' = ToEndpoint([sys EXCEPT !.conn = @ \ {adr}], 3, "up", "DATA", adr)
          /\ UNCHANGED <<main, done, stolen>>

Next == \/ \E p \in Procs : Inotify(p)
        \/ \E p \in {0, 1} : Create(p)
        \/ Forward
        \/ SendConnect
        \/ Answer
        \/ \E p \in Above : OpenInit(p) \/ WriteInit(p) \/ Wake(p)

Spec == Init /\ [][Next]_vars

\* Every thread goes on as long as it can; a device need not answer.
Main(p) == \/ OpenInit(p) \/ WriteInit(p) \/ Wake(p)
           \/ p \in {0, 1} /\ Create(p)
           \/ p = 2 /\ (Forward \/ SendConnect)
FairSpec == /\ Spec
            /\ \A p \in Procs : WF_vars(Inotify(p))
            /\ \A p \in Above : WF_vars(Main(p))

(***************************************************************************)
(* Properties                                                              *)
(***************************************************************************)
\* The variables have their types.
TypeOK == sys \in Sys /\ main \in [Procs -> Thread]
          /\ done \in [Procs -> SUBSET Adrs] /\ stolen \subseteq Procs \X Adrs

\* Two processes never disagree about an end-point, in whatever haste it was set up: a
\* number that NEWEP has brought (multififo.c:711) is that of an end-point below with
\* the same address, which knows the number above.
Paired == \A p \in Above : \A n \in sys.told[p] :
  LET below == sys.eps[p][n].dn
  IN  /\ below \in DOMAIN sys.eps[p + 1]
      /\ sys.eps[p + 1][below].adr = sys.eps[p][n].adr /\ sys.eps[p + 1][below].up = n

\* Paired, and what "Return 0: OK" of mf_newendpoint (multififo.c:910) stands for: when
\* its wait was ended by its own end-point, that end-point has its number below, until
\* a wait takes the event of another end-point.
ReadyIsReady == Paired /\ (stolen = {} =>
  \A p \in Above : \A adr \in done[p] : Numep(sys, p, adr) \in sys.told[p])

\* The two ways in which haste spoils the set-up: a wait has taken an event that was not
\* its own, or main has made an end-point between init_read and init_close.
Gone == stolen # {} \/ sys.mixed

\* Without these two nobody finds a channel without a descriptor or a header with an
\* end-point that does not exist, which ends the process.
NobodyExits == sys.dead = {} \/ Gone

\* The addresses of its own end-points.
Mine(p) == {ep.adr : ep \in {x \in Range(sys.eps[p]) : x.up = 0}}

\* Without these two every end-point a process has of its own is set up all the way
\* down, unless NEWEP or EPRDY was read behind another message and never seen.
AllSetUp == <>( \/ sys.hidden \/ Gone
                \/ \A p \in {0, 1} : main[p].left = <<>> /\ main[p].at = "idle" /\ Mine(p) = done[p]
                   /\ done[2] = Mine(1))
=============================================================================
