--------------------------- MODULE MessageChannel ---------------------------
(***************************************************************************)
(* What a netchan promises the layer above it, in one direction: messages  *)
(* may be lost, but each that arrives arrives whole, once, and after every *)
(* earlier one that arrives.  It promises neither delivery nor recovery:   *)
(* reliable commands and snapshots are built on top with exactly this.     *)
(***************************************************************************)
EXTENDS Naturals, Sequences

CONSTANT Message        \* what one endpoint may hand to the channel

VARIABLES
    sent,               \* the messages sent; sequence number s is sent[s]
    delivered           \* what the other endpoint was given: [seq, msg] records

chan == <<sent, delivered>>

\* The sequence number of the last delivered message, 0 before the first.
LastSeq(d) == IF d = <<>> THEN 0 ELSE d[Len(d)].seq

Init == sent = <<>> /\ delivered = <<>>

Send == \E m \in Message : sent' = Append(sent, m) /\ UNCHANGED delivered

\* Skipping sequence numbers is how a lost message shows.
Deliver ==
    \E s \in 1..Len(sent) :
        /\ s > LastSeq(delivered)
        /\ delivered' = Append(delivered, [seq |-> s, msg |-> sent[s]])
        /\ UNCHANGED sent

Next == Send \/ Deliver

Spec == Init /\ [][Next]_chan
=============================================================================
