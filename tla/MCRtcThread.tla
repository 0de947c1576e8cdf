---------------------------- MODULE MCRtcThread -----------------------------
(***************************************************************************)
(* Threads a and b post and send to each other; c only sends to a, so that *)
(* no ring of three senders can form (each would handle only what the next *)
(* one sends, and all three would wait for ever).                          *)
(***************************************************************************)
EXTENDS RtcThread

CONSTANTS a, b, c

MCThreads == {a, b, c}

Queues(x, y, z) == [t \in MCThreads |-> CASE t = a -> x [] t = b -> y [] t = c -> z]

\* Two threads with three more messages to make, or all three with two more.
MCInitials == {Queues(<<1>>, <<2>>, << >>), Queues(<<1>>, << >>, <<2, 3>>)}

MCPostsTo == {<<b, a>>}

MCSendsTo == {<<a, b>>, <<b, a>>, <<c, a>>}

\* The own queue, and that of another thread.
MCClearsOf == {<<a, a>>, <<c, a>>}
=============================================================================
