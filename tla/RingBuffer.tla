----------------------------- MODULE RingBuffer -----------------------------
(***************************************************************************)
(* One RingBuffer of common_audio/ring_buffer.c and the calls its owner    *)
(* may make on it, in any order.  Besides the buffer the state holds what  *)
(* the caller got: the return value, and the view WebRtc_ReadBuffer gave   *)
(* it, which is a pointer into the buffer's own memory when the caller     *)
(* passed a data_ptr and the elements were contiguous, and a copy          *)
(* otherwise.  "delivered" and "slack" are history variables: what the     *)
(* view showed when it was given, and how many more elements may be        *)
(* written before the memory it points to is reused (-1: it has been).     *)
(***************************************************************************)
EXTENDS RingBufferOps

CONSTANTS ElementCount, Value, Zero, MaxRequest

ASSUME RingBufferAssumption ==
  /\ ElementCount \in Nat \ {0}
  /\ MaxRequest \in Nat
  /\ Zero \in Value

VARIABLES buf, ret, view, delivered, slack

vars == <<buf, ret, view, delivered, slack>>

Blocks == UNION {[1..n -> Value] : n \in 0..MaxRequest}

Copied == [pointer |-> FALSE, start |-> 0]

Init ==
  /\ buf = Initialized(ElementCount, Zero)
  /\ ret = 0
  /\ view = Copied
  /\ delivered = << >>
  /\ slack = -1

Reinit ==
  /\ buf' = Initialized(ElementCount, Zero)
  /\ slack' = -1
  /\ UNCHANGED <<ret, view, delivered>>

Write(d) ==
  LET k == WriteCount(buf, d) IN
  /\ buf' = WriteBuffer(buf, d)
  /\ ret' = k
  /\ slack' = IF slack < k THEN -1 ELSE slack - k
  /\ UNCHANGED <<view, delivered>>

\* byPointer: the caller passed a data_ptr.
Read(n, byPointer) ==
  /\ buf' = ReadBuffer(buf, n)
  /\ ret' = ReadCount(buf, n)
  /\ view' = IF byPointer /\ ~ReadWraps(buf, n)
             THEN [pointer |-> TRUE, start |-> buf.read_pos]
             ELSE Copied
  /\ delivered' = ReadData(buf, n)
  /\ slack' = available_write(buf)

Move(k) ==
  /\ buf' = MoveReadPtr(buf, k)
  /\ ret' = MoveCount(buf, k)
  /\ UNCHANGED <<view, delivered, slack>>

\* A call with a NULL handle or NULL data returns 0 at once.
NullArgument ==
  /\ ret' = 0
  /\ UNCHANGED <<buf, view, delivered, slack>>

Next ==
  \/ Reinit
  \/ \E d \in Blocks : Write(d)
  \/ \E n \in 0..MaxRequest, p \in BOOLEAN : Read(n, p)
  \/ \E k \in -MaxRequest..MaxRequest : Move(k)
  \/ NullArgument

Spec == Init /\ [][Next]_vars

-----------------------------------------------------------------------------
\* The fields have their types.  In particular the positions may rest at
\* ElementCount itself (the code wraps on ">" only), never beyond.
TypeOK ==
  /\ buf \in RingBufferType(ElementCount, Value)
  /\ ret \in Int
  /\ view \in [pointer : BOOLEAN, start : 0..ElementCount]
  /\ slack \in -1..ElementCount

\* The wrap flag agrees with the order of the positions, so that neither
\* available_read nor available_write (both size_t) ever goes below zero.
Positions ==
  /\ buf.rw_wrap = "SAME_WRAP" => buf.read_pos <= buf.write_pos
  /\ buf.rw_wrap = "DIFF_WRAP" => buf.write_pos <= buf.read_pos

\* A pointer handed out by WebRtc_ReadBuffer keeps showing the elements that
\* were read as long as no more elements are written than were free before
\* the read: reads, seeks and rewinds in between do not matter.
ViewStable ==
  (view.pointer /\ slack >= 0) =>
     \A i \in 1..Len(delivered) :
        /\ view.start + i - 1 < ElementCount
        /\ buf.data[view.start + i - 1] = delivered[i]

\* Why ViewStable holds: the elements delivered are still in the window, as
\* many places from its old end as elements may yet be written.
ViewInWindow ==
  slack >= 0 =>
     /\ slack + Len(delivered) <= ElementCount
     /\ \A i \in 1..Len(delivered) :
          /\ Written(buf)[slack + i] = delivered[i]
          /\ view.pointer => view.start + i - 1 = Slot(buf, slack + i)

Abstract == INSTANCE StreamWindow WITH
  window <- Written(buf),
  unread <- available_read(buf)

\* The ring buffer implements the window over the written stream: partial
\* writes, reads across the end of the memory, clamped seeks and rewinds
\* deliver the elements written, in order, none invented and none skipped.
RefinesStreamWindow == Abstract!WSpec
=============================================================================
