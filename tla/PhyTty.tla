------------------------------ MODULE PhyTty ------------------------------
(***************************************************************************)
(* phylinks/phy_tty.c: the process that has the serial lines.  Meters of   *)
(* one line share its descriptor, and what is read from it goes to each of *)
(* them; only the collector knows whose answer it waits for.               *)
(*                                                                         *)
(* The callback thread (TtyRecv) and the main thread (Read, Copy, Lost)    *)
(* run in turns; the messages of both go up through one FIFO.              *)
(***************************************************************************)
EXTENDS Integers, Sequences

CONSTANTS
  NRoutes,     \* maxpr: the meters of lowlevel.cfg
  Lines        \* tty devices

ASSUME RoutesAssumption == NRoutes \in Nat \ {0}

Routes == 1 .. NRoutes
NoRoute == 0
NoScan == [line |-> CHOOSE l \in Lines : TRUE, chunk |-> <<>>, next |-> NoRoute]

VARIABLES
  devindex,    \* route -> its line
  state,       \* route -> connected
  desc,        \* line -> "open", "none" (-1 or 0)
  wire,        \* line -> pieces that wait to be read
  scan,        \* the main thread between a read and its last copy
  pr           \* its variable pr, NoRoute until it has a value

ttyvars == <<devindex, state, desc, wire, scan, pr>>

TtyInit == /\ devindex \in [Routes -> Lines]
           /\ state = [d \in Routes |-> FALSE]
           /\ desc = [l \in Lines |-> "none"]
           /\ wire = [l \in Lines |-> <<>>]
           /\ scan = NoScan
           /\ pr = NoRoute

ToEp(type, d, chunk) == [type |-> type, dev |-> d, chunk |-> chunk]

\* start_ttydevice: opening clears what has not been read; it may fail.
Start(l, d, ok) ==
  /\ desc' = [desc EXCEPT ![l] = IF ok THEN "open" ELSE "none"]
  /\ wire' = IF ok \/ desc[l] = "none" THEN [wire EXCEPT ![l] = <<>>] ELSE wire

\* rcvdata on CONNECT, and on RECONNECT, which closes the line first, whoever uses it.
\* A second meter that opens an open line leaves the first descriptor behind.
TtyConnect(m, ok, up) ==
  LET d == m.dev
  IN  /\ Start(devindex[d], d, ok)
      /\ state' = [state EXCEPT ![d] = ok \/ (@ /\ m.type = "CONNECT")]
      /\ up = <<ToEp(IF ok THEN "CONNECT_ACK" ELSE "CONNECT_NACK", d, <<>>)>>
      /\ UNCHANGED <<devindex, scan, pr>>

\* rcvdata on EP_USER_DATA: heard says whether the request reaches the line.
TtyWrite(m, heard) == /\ heard = (state[m.dev] /\ desc[devindex[m.dev]] = "open")
                      /\ UNCHANGED ttyvars

\* main: read gives some of what waits.
Read(l) ==
  /\ scan = NoScan /\ desc[l] = "open" /\ wire[l] # <<>>
  /\ \E k \in DOMAIN wire[l] :
       /\ scan' = [line |-> l, chunk |-> SubSeq(wire[l], 1, k), next |-> 1]
       /\ wire' = [wire EXCEPT ![l] = SubSeq(@, k + 1, Len(@))]
  /\ UNCHANGED <<devindex, state, desc, pr>>

\* The next route gets a copy if it is connected at this moment and of the line.
CopyTo(d) == state[d] /\ devindex[d] = scan.line

Copy(up) ==
  LET d == scan.next
  IN  /\ scan # NoScan
      /\ up = IF CopyTo(d) THEN <<ToEp("USER_DATA", d, scan.chunk)>> ELSE <<>>
      /\ pr' = d
      /\ scan' = IF d + 1 \in Routes THEN [scan EXCEPT !.next = d + 1] ELSE NoScan
      /\ UNCHANGED <<devindex, state, desc, wire>>

\* select reports an exception: the line is closed and the route of the last loop,
\* whatever line it is on, is told.
Lost(l, up) ==
  /\ scan = NoScan /\ desc[l] = "open" /\ pr # NoRoute
  /\ desc' = [desc EXCEPT ![l] = "none"]
  /\ state' = [state EXCEPT ![pr] = FALSE]
  /\ up = <<ToEp("CONNECT_LOST", pr, <<>>)>>
  /\ UNCHANGED <<devindex, wire, scan, pr>>
=============================================================================
