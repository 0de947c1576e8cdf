------------------------- MODULE IceConnectionProofs --------------------------
(***************************************************************************)
(* What an ICE connection guarantees for every number of pings and every   *)
(* value of its time limits.                                               *)
(***************************************************************************)
EXTENDS IceConnection, SequenceTheorems, TLAPS

\* One more ping is one more age.
LEMMA AppendedAges ==
  ASSUME NEW n \in Nat, NEW s \in Seq(0..n)
  PROVE  Append(s, 0) \in Seq(0..n)
OBVIOUS

\* Time makes an age an age.
LEMMA OlderAge ==
  ASSUME NEW n \in Nat, NEW a \in 0..n
  PROVE  Older(a, n) \in 0..n
BY DEF Older

\* Time makes ages of requests ages of requests.
LEMMA OlderRequests ==
  ASSUME NEW n \in Nat, NEW f, f \in [DOMAIN f -> 0..n]
  PROVE  [i \in DOMAIN f |-> Older(f[i], n)] \in [DOMAIN f -> 0..n]
<1>1. \A i \in DOMAIN f : Older(f[i], n) \in 0..n
  BY OlderAge
<1> QED
  BY <1>1

\* Time makes a sequence of ages a sequence of ages.
LEMMA OlderAges ==
  ASSUME NEW n \in Nat, NEW s \in Seq(0..n)
  PROVE  [k \in 1..Len(s) |-> Older(s[k], n)] \in Seq(0..n)
<1>1. Len(s) \in Nat
  OBVIOUS
<1>2. \A k \in 1..Len(s) : Older(s[k], n) \in 0..n
  BY DEF Older
<1>3. [k \in 1..Len(s) |-> Older(s[k], n)] \in [1..Len(s) -> 0..n]
  BY <1>2
<1> QED
  BY <1>1, <1>3, SeqDef

\* The limits of the ages are numbers.
LEMMA Limits ==
  /\ PingLimit \in Nat /\ RequestLimit \in Nat
  /\ ReceivedLimit \in Nat /\ RespondedLimit \in Nat
  /\ RespondedLimit <= PingLimit
BY IceConnectionAssumption
DEF PingLimit, RequestLimit, ReceivedLimit, RespondedLimit

\* The estimate of the round trip stays a number.
LEMMA EstimateIsNat ==
  ASSUME NEW r \in Nat, NEW e \in Nat
  PROVE  (RTT_RATIO * r + e) \div (RTT_RATIO + 1) \in Nat
BY DEF RTT_RATIO

\* UpdateState leaves a connection in one of the four write states.
LEMMA UpdatedIsState ==
  ASSUME TypeOK
  PROVE  UpdatedWriteState \in WriteStates /\ UpdatedReceiving \in BOOLEAN
BY DEF TypeOK, UpdatedWriteState, UpdatedReceiving, WriteStates

\* No requests are requests.
LEMMA NoRequests ==
  << >> \in [DOMAIN << >> -> 0..RequestLimit] /\ DOMAIN << >> \subseteq Ids
<1>1. << >> \in Seq(0..RequestLimit) /\ Len(<< >>) = 0
  OBVIOUS
<1>2. DOMAIN << >> = 1..0
  BY <1>1, LenProperties
<1>3. << >> \in [1..0 -> 0..RequestLimit]
  BY <1>1, LenProperties
<1> QED
  BY <1>2, <1>3

\* Nothing is outstanding when there are no requests.
LEMMA NoElements == DOMAIN << >> = {}
<1>1. << >> \in Seq(Nat) /\ Len(<< >>) = 0
  OBVIOUS
<1>2. DOMAIN << >> = 1..0
  BY <1>1, LenProperties
<1> QED
  BY <1>2

\* A request that is removed leaves the others as they are.
LEMMA RemovedType ==
  ASSUME NEW i, DOMAIN requests_ \subseteq Ids,
         requests_ \in [DOMAIN requests_ -> 0..RequestLimit]
  PROVE  /\ DOMAIN Removed(i) = DOMAIN requests_ \ {i}
         /\ Removed(i) \in [DOMAIN Removed(i) -> 0..RequestLimit]
BY DEF Removed, Restrict

\* So does an answer that leaves the network.
LEMMA DeliveredType ==
  ASSUME TypeOK, NEW i \in Ids, Delivered(i)
  PROVE  network' \in [Ids -> Answers] /\ early' \subseteq Ids
BY DEF TypeOK, Delivered, Gone, Answers
-----------------------------------------------------------------------------
(* The type invariant *)

\* Every step keeps the types.
LEMMA TypeStep ==
  ASSUME TypeOK, [Next]_vars
  PROVE  TypeOK'
<1> USE Limits, IceConnectionAssumption
<1>1. CASE CheckStates
  BY <1>1, UpdatedIsState DEF TypeOK, CheckStates, Dead
<1>2. CASE \E i \in Ids, weak \in BOOLEAN : CheckAndPing(i, weak)
  <2>1. PICK i \in Ids, weak \in BOOLEAN : CheckAndPing(i, weak)
    BY <1>2
  <2>2. pings' \in Seq(0..PingLimit)
    BY <2>1, AppendedAges DEF TypeOK, CheckAndPing, Ping
  <2>3. DOMAIN requests_' \subseteq Ids /\ requests_' \in [DOMAIN requests_' -> 0..RequestLimit]
    <3>1. requests_' = [j \in DOMAIN requests_ \cup {i} |-> IF j = i THEN 0 ELSE requests_[j]]
      BY <2>1 DEF CheckAndPing, Ping
    <3>2. DOMAIN requests_ \subseteq Ids /\ requests_ \in [DOMAIN requests_ -> 0..RequestLimit]
      BY DEF TypeOK
    <3>3. 0 \in 0..RequestLimit
      OBVIOUS
    <3> QED
      BY <3>1, <3>2, <3>3
  <2>4. network' \in [Ids -> Answers]
    BY <2>1 DEF TypeOK, CheckAndPing, Ping
  <2> QED
    BY <2>1, <2>2, <2>3, <2>4, UpdatedIsState DEF TypeOK, CheckAndPing, Dead
<1>3. CASE SortAndPrune
  <2>1. DOMAIN requests_' \subseteq Ids /\ requests_' \in [DOMAIN requests_' -> 0..RequestLimit]
    BY <1>3, NoRequests DEF TypeOK, SortAndPrune, Prune, ClearedRequests
  <2>2. write_state_' \in WriteStates /\ pruned_' \in BOOLEAN /\ early' \subseteq Ids
    BY <1>3 DEF TypeOK, SortAndPrune, Prune, WriteStates
  <2> QED
    BY <1>3, <2>1, <2>2, UpdatedIsState DEF TypeOK, SortAndPrune, Dead
<1>4. CASE SortAndDestroy
  BY <1>4, UpdatedIsState DEF TypeOK, SortAndDestroy
<1>5. CASE OnMessageDelete
  BY <1>5, NoRequests DEF TypeOK, OnMessageDelete, stateVars
<1>6. CASE ReadDataOrPing
  BY <1>6 DEF TypeOK, ReadDataOrPing, StartsUpAgain, WriteStates
<1>7. CASE ReadOtherPing
  <2>1. 0 \in 0..ReceivedLimit
    OBVIOUS
  <2>2. receiving_' = TRUE /\ last_received' = 0
    BY <1>7 DEF ReadOtherPing
  <2>3. UNCHANGED <<write_state_, pruned_, rtt_, pings, requests_, responded,
                    time_created, deletePosted, deleted, network, early, proven>>
    BY <1>7 DEF ReadOtherPing
  <2> HIDE Limits, IceConnectionAssumption
  <2> QED
    BY <2>1, <2>2, <2>3 DEF TypeOK
<1>8. CASE \E i \in Ids : ReadUnknownResponse(i)
  BY <1>8, DeliveredType DEF TypeOK, ReadUnknownResponse, Delivered, stateVars
<1>9. CASE \E i \in Ids : ReadSuccess(i)
  <2>1. PICK i \in Ids : ReadSuccess(i)
    BY <1>9
  <2>2. rtt_' \in Nat
    BY <2>1, EstimateIsNat DEF TypeOK, ReadSuccess
  <2>3. DOMAIN requests_' \subseteq Ids /\ requests_' \in [DOMAIN requests_' -> 0..RequestLimit]
    BY <2>1, RemovedType DEF TypeOK, ReadSuccess
  <2>4. network' \in [Ids -> Answers] /\ early' \subseteq Ids
    BY <2>1, DeliveredType DEF ReadSuccess
  <2>5. pings' \in Seq(0..PingLimit)
    BY <2>1 DEF ReadSuccess, ReceivedPingResponse, ClearedPings
  <2>6. proven' \in BOOLEAN
    BY <2>1 DEF ReadSuccess
  <2>7. last_received' \in 0..ReceivedLimit /\ responded' \in 0..RespondedLimit
    BY <2>1 DEF ReadSuccess, ReceivedPingResponse
  <2> QED
    BY <2>1, <2>2, <2>3, <2>4, <2>5, <2>6, <2>7
    DEF TypeOK, ReadSuccess, ReceivedPingResponse, WriteStates
<1>10. CASE \E i \in Ids : ReadError(i)
  <2>1. PICK i \in Ids : ReadError(i)
    BY <1>10
  <2>2. DOMAIN requests_' \subseteq Ids /\ requests_' \in [DOMAIN requests_' -> 0..RequestLimit]
    BY <2>1, RemovedType DEF TypeOK, ReadError
  <2>3. network' \in [Ids -> Answers] /\ early' \subseteq Ids
    BY <2>1, DeliveredType DEF ReadError
  <2> QED
    BY <2>1, <2>2, <2>3 DEF TypeOK, ReadError, stateVars
<1>11. CASE \E i \in Ids : OnRequestTimeout(i)
  BY <1>11, RemovedType DEF TypeOK, OnRequestTimeout, stateVars
<1>12. CASE Tick
  <2>1. pings' \in Seq(0..PingLimit)
    BY <1>12, OlderAges DEF TypeOK, Tick
  <2>2. DOMAIN requests_' \subseteq Ids /\ requests_' \in [DOMAIN requests_' -> 0..RequestLimit]
    BY <1>12, OlderRequests DEF TypeOK, Tick
  <2>3. /\ last_received' \in 0..ReceivedLimit
        /\ responded' \in 0..RespondedLimit
        /\ time_created' \in 0..MIN_CONNECTION_LIFETIME
    BY <1>12, OlderAge DEF TypeOK, Tick
  <2> QED
    BY <1>12, <2>1, <2>2, <2>3 DEF TypeOK, Tick
<1>13. CASE \E i \in Ids : Lose(i)
  BY <1>13, DeliveredType DEF TypeOK, Lose, Delivered, stateVars
<1>14. CASE UNCHANGED vars
  BY <1>14 DEF TypeOK, vars, stateVars
<1> QED
  BY <1>1, <1>2, <1>3, <1>4, <1>5, <1>6, <1>7, <1>8, <1>9, <1>10, <1>11, <1>12,
     <1>13, <1>14 DEF Next

\* The variables keep their types and the ages stay below their limits.
THEOREM TypeCorrect == Spec => []TypeOK
<1>1. Init => TypeOK
  <2> SUFFICES ASSUME Init PROVE TypeOK
    OBVIOUS
  <2>1. DOMAIN requests_ \subseteq Ids /\ requests_ \in [DOMAIN requests_ -> 0..RequestLimit]
    BY NoRequests DEF Init
  <2>2. /\ rtt_ \in Nat /\ last_received \in 0..ReceivedLimit
        /\ responded \in 0..RespondedLimit
        /\ time_created \in 0..MIN_CONNECTION_LIFETIME
    BY Limits, IceConnectionAssumption DEF Init
  <2>3. network \in [Ids -> Answers] /\ pings \in Seq(0..PingLimit)
    BY DEF Init, Answers
  <2> QED
    BY <2>1, <2>2, <2>3 DEF Init, TypeOK, WriteStates
<1> QED
  BY <1>1, TypeStep, PTL DEF Spec
-----------------------------------------------------------------------------
(* Writability is proven *)

\* The answers to pings sent before the last prune are still under way, and no
\* request waits for them.
EarlyUnknown ==
  \A i \in early : i \notin DOMAIN requests_ /\ network[i] # "none"

Evidence == TypeOK /\ EarlyUnknown /\ ProvenSincePrune

\* UpdateState makes no connection writable or unreliable that was neither.
LEMMA UpdateNeedsProof ==
  ASSUME UpdatedWriteState \in {"WRITABLE", "WRITE_UNRELIABLE"}
  PROVE  write_state_ \in {"WRITABLE", "WRITE_UNRELIABLE"}
BY DEF UpdatedWriteState, BecomesUnreliable

\* An answer that is delivered or lost is forgotten, or stays what it was.
LEMMA DeliveredEarly ==
  ASSUME TypeOK, NEW i \in Ids, Delivered(i)
  PROVE  \A j \in early' : j \in early /\ network'[j] = network[j]
BY DEF TypeOK, Delivered, Gone

\* Removing a request adds none.
LEMMA RemovedUnknown ==
  ASSUME NEW i
  PROVE  DOMAIN Removed(i) \subseteq DOMAIN requests_
BY DEF Removed, Restrict

\* Every step keeps the evidence.
LEMMA EvidenceStep ==
  ASSUME Evidence, [Next]_vars
  PROVE  EarlyUnknown' /\ ProvenSincePrune'
<1> USE DEF Evidence, EarlyUnknown, ProvenSincePrune
<1>1. CASE CheckStates
  BY <1>1, UpdateNeedsProof DEF CheckStates
<1>2. CASE \E i \in Ids, weak \in BOOLEAN : CheckAndPing(i, weak)
  <2>1. PICK i \in Ids, weak \in BOOLEAN : CheckAndPing(i, weak)
    BY <1>2
  <2>2. i \notin early /\ early' = early
    BY <2>1 DEF CheckAndPing
  <2>3. /\ DOMAIN requests_' = DOMAIN requests_ \cup {i}
        /\ \A j \in Ids \ {i} : network'[j] = network[j]
    BY <2>1 DEF CheckAndPing, Ping, TypeOK
  <2>4. EarlyUnknown'
    BY <2>2, <2>3 DEF TypeOK
  <2>5. ProvenSincePrune'
    BY <2>1, UpdateNeedsProof DEF CheckAndPing
  <2> QED
    BY <2>4, <2>5
<1>3. CASE SortAndPrune
  <2>1. ProvenSincePrune'
    BY <1>3 DEF SortAndPrune, Prune
  <2>2. CASE pruned_ /\ UpdatedWriteState = "WRITE_TIMEOUT"
    BY <1>3, <2>1, <2>2 DEF SortAndPrune, Prune
  <2>3. CASE ~(pruned_ /\ UpdatedWriteState = "WRITE_TIMEOUT")
    <3>1. DOMAIN requests_' = {}
      BY <1>3, <2>3, NoElements DEF SortAndPrune, Prune, ClearedRequests
    <3>2. \A j \in early' : network'[j] # "none"
      BY <1>3, <2>3 DEF SortAndPrune, Prune
    <3> QED
      BY <3>1, <3>2, <2>1
  <2> QED
    BY <2>2, <2>3
<1>4. CASE SortAndDestroy
  BY <1>4 DEF SortAndDestroy
<1>5. CASE OnMessageDelete
  <2>1. DOMAIN requests_' = {}
    BY <1>5, NoElements DEF OnMessageDelete
  <2> QED
    BY <1>5, <2>1 DEF OnMessageDelete, stateVars
<1>6. CASE ReadDataOrPing
  BY <1>6 DEF ReadDataOrPing, StartsUpAgain
<1>7. CASE ReadOtherPing
  BY <1>7 DEF ReadOtherPing
<1>8. CASE \E i \in Ids : ReadUnknownResponse(i)
  BY <1>8, DeliveredEarly DEF ReadUnknownResponse, Delivered, stateVars
<1>9. CASE \E i \in Ids : ReadSuccess(i)
  <2>1. PICK i \in Ids : ReadSuccess(i)
    BY <1>9
  <2>2. proven'
    BY <2>1 DEF ReadSuccess
  <2>3. DOMAIN requests_' \subseteq DOMAIN requests_
    BY <2>1, RemovedUnknown DEF ReadSuccess
  <2>4. \A j \in early' : j \in early /\ network'[j] = network[j]
    BY <2>1, DeliveredEarly DEF ReadSuccess
  <2> QED
    BY <2>2, <2>3, <2>4
<1>10. CASE \E i \in Ids : ReadError(i)
  <2>1. PICK i \in Ids : ReadError(i)
    BY <1>10
  <2>2. DOMAIN requests_' \subseteq DOMAIN requests_
    BY <2>1, RemovedUnknown DEF ReadError
  <2>3. \A j \in early' : j \in early /\ network'[j] = network[j]
    BY <2>1, DeliveredEarly DEF ReadError
  <2> QED
    BY <2>1, <2>2, <2>3 DEF ReadError, stateVars
<1>11. CASE \E i \in Ids : OnRequestTimeout(i)
  BY <1>11, RemovedUnknown DEF OnRequestTimeout, stateVars
<1>12. CASE Tick
  <2>1. DOMAIN requests_' = DOMAIN requests_
    BY <1>12 DEF Tick
  <2> QED
    BY <1>12, <2>1 DEF Tick
<1>13. CASE \E i \in Ids : Lose(i)
  BY <1>13, DeliveredEarly DEF Lose, Delivered, stateVars
<1>14. CASE UNCHANGED vars
  BY <1>14 DEF vars, stateVars
<1> QED
  BY <1>1, <1>2, <1>3, <1>4, <1>5, <1>6, <1>7, <1>8, <1>9, <1>10, <1>11, <1>12,
     <1>13, <1>14 DEF Next

\* A connection is writable, or was until recently, only because a ping sent
\* since it was last pruned was answered.
THEOREM WritabilityProven == Spec => []ProvenSincePrune
<1>1. Init => EarlyUnknown /\ ProvenSincePrune
  BY DEF Init, EarlyUnknown, ProvenSincePrune
<1>2. Evidence /\ [Next]_vars => EarlyUnknown' /\ ProvenSincePrune'
  BY EvidenceStep
<1> QED
  BY <1>1, <1>2, TypeCorrect, PTL DEF Spec, Evidence
-----------------------------------------------------------------------------
(* A response secures writability *)

\* Every ping since the last response is at most as old as the response.
PingsYoung ==
  \A k \in 1..Len(pings) :
    pings[k] <= responded \/ responded = RespondedLimit

\* Time passes for the pings as for the response.
LEMMA OlderKeepsOrder ==
  ASSUME NEW m \in Nat, NEW n \in Nat, NEW p \in 0..m, NEW r \in 0..n,
         p <= r \/ r = n
  PROVE  Older(p, m) <= Older(r, n) \/ Older(r, n) = n
BY DEF Older

\* Every step keeps the pings younger than the response.
LEMMA PingsYoungStep ==
  ASSUME TypeOK, PingsYoung, [Next]_vars
  PROVE  PingsYoung'
<1> USE Limits DEF PingsYoung
<1>1. CASE \E i \in Ids, weak \in BOOLEAN : CheckAndPing(i, weak)
  <2>1. responded' = responded
    BY <1>1 DEF CheckAndPing
  <2>2. pings' = pings \/ pings' = Append(pings, 0)
    BY <1>1 DEF CheckAndPing, Ping
  <2>3. \A k \in 1..Len(pings') :
          pings'[k] = 0 \/ (k \in 1..Len(pings) /\ pings'[k] = pings[k])
    <3>1. pings \in Seq(0..PingLimit)
      BY DEF TypeOK
    <3>2. CASE pings' = pings
      BY ONLY <3>2
    <3>3. CASE pings' = Append(pings, 0)
      BY ONLY <3>1, <3>3
    <3> QED BY ONLY <2>2, <3>2, <3>3
  <2> QED
    BY <2>1, <2>3 DEF TypeOK
<1>2. CASE \E i \in Ids : ReadSuccess(i)
  <2>1. pings' = << >>
    BY <1>2 DEF ReadSuccess, ReceivedPingResponse, ClearedPings
  <2> QED
    BY <2>1
<1>3. CASE Tick
  <2>1. /\ Len(pings') = Len(pings)
        /\ \A k \in 1..Len(pings) : pings'[k] = Older(pings[k], PingLimit)
    BY <1>3 DEF Tick, TypeOK
  <2>2. responded' = Older(responded, RespondedLimit)
    BY <1>3 DEF Tick
  <2>3. \A k \in 1..Len(pings) : pings[k] \in 0..PingLimit
    BY DEF TypeOK
  <2>4. responded \in 0..RespondedLimit
    BY DEF TypeOK
  <2> QED
    BY <2>1, <2>2, <2>3, <2>4, OlderKeepsOrder
<1>4. CASE UNCHANGED <<pings, responded>>
  BY <1>4
<1>5. \/ \E i \in Ids, weak \in BOOLEAN : CheckAndPing(i, weak)
      \/ \E i \in Ids : ReadSuccess(i)
      \/ Tick
      \/ UNCHANGED <<pings, responded>>
  BY DEF Next, vars, stateVars, CheckStates, SortAndPrune, SortAndDestroy,
     OnMessageDelete, ReadDataOrPing, ReadOtherPing, ReadUnknownResponse,
     ReadError, OnRequestTimeout, Lose
<1> QED
  BY <1>1, <1>2, <1>3, <1>4, <1>5

\* UpdateState takes writability away only long after the last response.
LEMMA UnreliableIsOld ==
  ASSUME TypeOK, PingsYoung, write_state_ = "WRITABLE",
         UpdatedWriteState # "WRITABLE"
  PROVE  responded > CONNECTION_WRITE_CONNECT_TIMEOUT
<1>1. BecomesUnreliable
  BY DEF UpdatedWriteState, TimesOut
<1>2. 1 \in 1..Len(pings) /\ pings[1] > CONNECTION_WRITE_CONNECT_TIMEOUT
  BY <1>1, IceConnectionAssumption
  DEF BecomesUnreliable, TooLongWithoutResponse, TypeOK
<1>3. pings[1] <= responded \/ responded = RespondedLimit
  BY <1>2 DEF PingsYoung
<1>4. CASE pings[1] <= responded
  <2>0. pings \in Seq(0..PingLimit) /\ 1 \in 1..Len(pings)
    BY <1>2 DEF TypeOK
  <2>1. pings[1] \in 0..PingLimit
    BY <2>0, ElementOfSeq
  <2>2. responded \in 0..RespondedLimit
    BY DEF TypeOK
  <2> QED
    BY <1>2, <1>4, <2>1, <2>2, Limits, IceConnectionAssumption
<1>5. CASE responded = RespondedLimit
  BY <1>5, IceConnectionAssumption DEF RespondedLimit
<1> QED
  BY <1>3, <1>4, <1>5

\* A connection that is not pruned stays writable for the connect timeout after
\* every response.
THEOREM ResponseSecuresWritability == Spec => ResponseKeepsWritable
<1>1. Init => PingsYoung
  BY DEF Init, PingsYoung
<1>2. TypeOK /\ PingsYoung /\ [Next]_vars => PingsYoung'
  BY PingsYoungStep
<1>3. TypeOK /\ PingsYoung /\ [Next]_vars
      => [ write_state_ = "WRITABLE" /\ write_state_' # "WRITABLE"
           => responded > CONNECTION_WRITE_CONNECT_TIMEOUT \/ SortAndPrune ]_vars
  <2> SUFFICES ASSUME TypeOK, PingsYoung, Next, write_state_ = "WRITABLE",
                      write_state_' # "WRITABLE", ~SortAndPrune
               PROVE  responded > CONNECTION_WRITE_CONNECT_TIMEOUT
    OBVIOUS
  <2>1. write_state_' = UpdatedWriteState
    BY DEF Next, stateVars, CheckStates, CheckAndPing, SortAndDestroy,
       OnMessageDelete, ReadDataOrPing, StartsUpAgain, ReadOtherPing,
       ReadUnknownResponse, ReadSuccess, ReceivedPingResponse, ReadError,
       OnRequestTimeout, Tick, Lose
  <2> QED
    BY <2>1, UnreliableIsOld
<1> QED
  BY <1>1, <1>2, <1>3, TypeCorrect, PTL DEF Spec, ResponseKeepsWritable
=============================================================================
