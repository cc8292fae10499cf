------------------------------ MODULE Channel ------------------------------
(***************************************************************************)
(* What one direction of a FIFO channel of common/multififo.c promises to  *)
(* the callback: the stream of its writer, in order, in batches of whole   *)
(* messages; only a writer that is ahead by more than the reader's buffer  *)
(* holds may find its message cut.  Until it breaks.  MfRing, with the     *)
(* ring, its pointers and the two reads, implements it.  The other modules *)
(* of the project take their queues between processes for such channels.   *)
(***************************************************************************)
EXTENDS Integers, Sequences

CONSTANTS Lens,   \* lengths of messages
          Size    \* what the reader's buffer holds

VARIABLES
  sent,       \* bytes written
  ends,       \* places where messages end
  handed,     \* bytes the callback was given
  batch,      \* what it was given last
  broken      \* the promise ends here

vars == <<sent, ends, handed, batch, broken>>

Init == sent = 0 /\ ends = {0} /\ handed = 0 /\ batch = <<>> /\ broken = FALSE

\* mf_toendpoint: a message is written.
Write(len) == /\ sent' = sent + len
              /\ ends' = ends \cup {sent + len}
              /\ UNCHANGED <<handed, batch, broken>>

\* The callback: the messages up to the end of one of them.
Deliver(to) == /\ handed < to
               /\ batch' = [i \in 1 .. to - handed |-> handed + i]
               /\ handed' = to
               /\ UNCHANGED <<sent, ends, broken>>

\* The callback: a full buffer, of a writer that is further ahead.
DeliverFull == /\ sent - handed > Size
               /\ batch' = [i \in 1 .. Size |-> handed + i]
               /\ handed' = handed + Size
               /\ UNCHANGED <<sent, ends, broken>>

\* A callback for nothing.
DeliverNothing == batch' = <<>> /\ UNCHANGED <<sent, ends, handed, broken>>

\* Nothing is promised any more.
Break == broken' = TRUE /\ UNCHANGED <<sent, ends>>

Next == \/ \E len \in Lens : Write(len)
        \/ \E to \in ends : Deliver(to)
        \/ DeliverFull
        \/ DeliverNothing
        \/ Break

Spec == Init /\ [][Next]_vars
=============================================================================
