------------------------------ MODULE Delivery ------------------------------
(***************************************************************************)
(* What the engine promises the consumer of its events, without saying     *)
(* how: events are numbered as they are made; a number that is kept waits  *)
(* in the queue; the queue is handed over, or lost, as a whole.  So events *)
(* arrive in the order they were made, none arrives twice, and a lost      *)
(* event never arrives.                                                    *)
(***************************************************************************)
EXTENDS Integers, Sequences

VARIABLES
    made,       \* how many events were made
    queue,      \* the numbers of the events that wait
    delivered,  \* the numbers of the events the consumer has, in order
    lost        \* the numbers of the events that will never arrive

vars == <<made, queue, delivered, lost>>

Increasing(s) == \A i, j \in 1 .. Len(s) : i < j => s[i] < s[j]

Elements(s) == {s[i] : i \in 1 .. Len(s)}

\* long continues short by events made in this step, in their order.
Continues(long, short) ==
    /\ long \in Seq(Nat) /\ Len(long) >= Len(short)
    /\ \A i \in 1 .. Len(short) : long[i] = short[i]
    /\ \A i \in Len(short) + 1 .. Len(long) : long[i] \in made + 1 .. made'
    /\ \A i, j \in Len(short) + 1 .. Len(long) : i < j => long[i] < long[j]

Init ==
    /\ made = 0
    /\ queue = <<>>
    /\ delivered = <<>>
    /\ lost = {}

Keep ==
    /\ Continues(queue', queue)
    /\ UNCHANGED <<delivered, lost>>

HandOver ==
    /\ Continues(delivered', delivered \o queue)
    /\ queue' = <<>>
    /\ UNCHANGED lost

Lose ==
    /\ lost \cup Elements(queue) \subseteq lost'
    /\ lost' \subseteq lost \cup Elements(queue) \cup made + 1 .. made'
    /\ queue' = <<>>
    /\ UNCHANGED delivered

Next ==
    /\ made' \in Nat /\ made' >= made
    /\ Keep \/ HandOver \/ Lose

Spec == Init /\ [][Next]_vars

\* Events arrive in the order they were made, and none arrives twice.
InOrder == Increasing(delivered)

\* An event is at one place: with the consumer, in the queue, or lost.
Apart ==
    /\ Elements(delivered) \cap Elements(queue) = {}
    /\ Elements(delivered) \cap lost = {}
    /\ Elements(queue) \cap lost = {}

=============================================================================
