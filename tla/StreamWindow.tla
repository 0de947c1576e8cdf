---------------------------- MODULE StreamWindow ----------------------------
(***************************************************************************)
(* What a WebRTC RingBuffer promises its users, without positions, wrap    *)
(* flags or memory: a window over the stream of the elements written to    *)
(* it.  The window holds the last ElementCount elements written (zeros     *)
(* before the first ones), oldest first, and the last "unread" of them     *)
(* have not been read yet.  Moving the read position back re-exposes       *)
(* elements already read, in the order in which they were written.         *)
(***************************************************************************)
EXTENDS Integers, Sequences

CONSTANTS ElementCount,   \* capacity of the buffer
          Value,          \* the elements
          Zero,           \* what an initialized element holds
          MaxRequest      \* largest element_count passed to an operation

VARIABLES window,         \* the last ElementCount elements of the stream
          unread,         \* how many of them are still to be read
          ret,            \* what the last operation returned
          delivered       \* the elements the last read delivered

wvars == <<window, unread, ret, delivered>>

Requests == UNION {[1..n -> Value] : n \in 0..MaxRequest}

Least(a, b) == IF a <= b THEN a ELSE b

Clamp(k, lo, hi) == IF k > hi THEN hi ELSE IF k < lo THEN lo ELSE k

Fresh == [i \in 1..ElementCount |-> Zero]

\* The window after k elements of d have entered it.
Slide(d, k) ==
  [i \in 1..ElementCount |->
     IF i + k <= ElementCount THEN window[i + k] ELSE d[i + k - ElementCount]]

\* The oldest n unread elements.
Oldest(n) == [i \in 1..n |-> window[ElementCount - unread + i]]

WInit == /\ window = Fresh
         /\ unread = 0
         /\ ret = 0
         /\ delivered = << >>

Reset == /\ window' = Fresh
         /\ unread' = 0
         /\ UNCHANGED <<ret, delivered>>

Write(d) ==
  LET k == Least(ElementCount - unread, Len(d)) IN
  /\ window' = Slide(d, k)
  /\ unread' = unread + k
  /\ ret' = k
  /\ UNCHANGED delivered

Read(n) ==
  LET k == Least(unread, n) IN
  /\ delivered' = Oldest(k)
  /\ unread' = unread - k
  /\ ret' = k
  /\ UNCHANGED window

Move(k) ==
  LET m == Clamp(k, unread - ElementCount, unread) IN
  /\ unread' = unread - m
  /\ ret' = m
  /\ UNCHANGED <<window, delivered>>

Refuse == ret' = 0 /\ UNCHANGED <<window, unread, delivered>>

WNext == \/ Reset
         \/ \E d \in Requests : Write(d)
         \/ \E n \in 0..MaxRequest : Read(n)
         \/ \E k \in -MaxRequest..MaxRequest : Move(k)
         \/ Refuse

WSpec == WInit /\ [][WNext]_wvars
=============================================================================
