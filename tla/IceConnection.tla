--------------------------- MODULE IceConnection ----------------------------
(***************************************************************************)
(* One ICE connection, cricket::Connection of p2p/base/port.cc, with its   *)
(* StunRequestManager (p2p/base/stunrequest.cc), called by its             *)
(* P2PTransportChannel and by a network that loses, delays, duplicates and *)
(* reorders the answers to its pings.                                      *)
(*                                                                         *)
(* A time is kept as an age, the time since, which stops growing just      *)
(* beyond the limits it is compared with: the model has no clock that runs *)
(* out.  What the channel does with its other connections is open: it may  *)
(* find itself weak or not, and prune this one or not.                     *)
(***************************************************************************)
EXTENDS Integers, Sequences, Functions

CONSTANTS
  Ids,               \* transaction ids: a bound on the pings that have an answer
                     \* under way or awaited
  MIN_CONNECTION_LIFETIME,
  WEAK_CONNECTION_RECEIVE_TIMEOUT,
  CONNECTION_WRITE_TIMEOUT,
  CONNECTION_WRITE_CONNECT_TIMEOUT,
  CONNECTION_WRITE_CONNECT_FAILURES,
  CONNECTION_RESPONSE_TIMEOUT,
  MINIMUM_RTT,
  MAXIMUM_RTT

RTT_RATIO == 3

ASSUME IceConnectionAssumption ==
  /\ MIN_CONNECTION_LIFETIME \in Nat
  /\ WEAK_CONNECTION_RECEIVE_TIMEOUT \in Nat
  /\ CONNECTION_WRITE_TIMEOUT \in Nat
  /\ CONNECTION_WRITE_CONNECT_TIMEOUT \in 0..CONNECTION_WRITE_TIMEOUT
  /\ CONNECTION_WRITE_CONNECT_FAILURES \in Nat \ {0}
  /\ CONNECTION_RESPONSE_TIMEOUT \in Nat
  /\ MAXIMUM_RTT \in 0..CONNECTION_WRITE_TIMEOUT /\ MINIMUM_RTT \in 0..MAXIMUM_RTT

WriteStates == {"WRITABLE", "WRITE_UNRELIABLE", "WRITE_INIT", "WRITE_TIMEOUT"}

\* What the peer makes of a ping: nothing (or its answer is lost), success, an
\* error after which the connection goes on (401, 420, 430, 487, 500), any other
Answers == {"none", "success", "retry", "fatal"}

VARIABLES
  write_state_,
  receiving_,
  pruned_,
  rtt_,
  pings,          \* ages of the pings since the last response: of the first
                  \* CONNECTION_WRITE_CONNECT_FAILURES, the only ones looked at
  requests_,      \* the outstanding requests: a function from ids to ages
  last_received,  \* age of what was received last, data, ping or response
  responded,      \* age of the last response
  time_created,   \* age of the connection
  deletePosted,   \* MSG_DELETE is in the thread's queue, once or several times
  deleted,
  network,        \* the answer under way to each id
  \* history variables
  early,          \* ids of answers under way to pings sent before the
                  \* connection was last pruned
  proven          \* the last answer that made it writable was not one of them

stateVars == <<write_state_, receiving_, rtt_, pings, last_received, responded>>
vars == <<stateVars, pruned_, requests_, time_created, deletePosted, deleted,
          network, early, proven>>

\* Where the ages stop.  A request that is answered even later counts as this
\* old in the estimate of the round trip.
PingLimit == CONNECTION_WRITE_TIMEOUT + 1
RequestLimit == CONNECTION_RESPONSE_TIMEOUT + 1
ReceivedLimit == WEAK_CONNECTION_RECEIVE_TIMEOUT + 1
RespondedLimit == CONNECTION_WRITE_CONNECT_TIMEOUT + 1

Older(age, limit) == IF age < limit THEN age + 1 ELSE limit

TypeOK ==
  /\ write_state_ \in WriteStates
  /\ receiving_ \in BOOLEAN /\ pruned_ \in BOOLEAN
  /\ rtt_ \in Nat
  /\ pings \in Seq(0..PingLimit)
  /\ DOMAIN requests_ \subseteq Ids
  /\ requests_ \in [DOMAIN requests_ -> 0..RequestLimit]
  /\ last_received \in 0..ReceivedLimit
  /\ responded \in 0..RespondedLimit
  /\ time_created \in 0..MIN_CONNECTION_LIFETIME
  /\ deletePosted \in BOOLEAN /\ deleted \in BOOLEAN
  /\ network \in [Ids -> Answers]
  /\ early \subseteq Ids
  /\ proven \in BOOLEAN

\* The times of what has never happened are 0, long ago on rtc::Time's scale.
Init ==
  /\ write_state_ = "WRITE_INIT"
  /\ receiving_ = FALSE /\ pruned_ = FALSE
  /\ rtt_ = MAXIMUM_RTT
  /\ pings = << >>
  /\ requests_ = << >>
  /\ last_received = ReceivedLimit /\ responded = RespondedLimit
  /\ time_created = 0
  /\ deletePosted = FALSE /\ deleted = FALSE
  /\ network = [i \in Ids |-> "none"]
  /\ early = {} /\ proven = FALSE
-----------------------------------------------------------------------------
(* UpdateState: what time alone does to the connection                     *)

ConservativeRTTEstimate ==
  LET twice == IF 2 * rtt_ < MAXIMUM_RTT THEN 2 * rtt_ ELSE MAXIMUM_RTT IN
  IF twice > MINIMUM_RTT THEN twice ELSE MINIMUM_RTT

TooManyFailures ==
  /\ Len(pings) >= CONNECTION_WRITE_CONNECT_FAILURES
  /\ pings[CONNECTION_WRITE_CONNECT_FAILURES] > ConservativeRTTEstimate

TooLongWithoutResponse(limit) == pings # << >> /\ pings[1] > limit

BecomesUnreliable ==
  /\ write_state_ = "WRITABLE"
  /\ TooManyFailures
  /\ TooLongWithoutResponse(CONNECTION_WRITE_CONNECT_TIMEOUT)

TimesOutIfUnreliable ==  \* mutant
  /\ BecomesUnreliable \/ write_state_ = "WRITE_UNRELIABLE"
  /\ TooLongWithoutResponse(CONNECTION_WRITE_TIMEOUT)

\* The second check is made after the first: a connection may pass through both.
TimesOut ==
  /\ BecomesUnreliable \/ write_state_ \in {"WRITE_UNRELIABLE", "WRITE_INIT"}
  /\ TooLongWithoutResponse(CONNECTION_WRITE_TIMEOUT)

UpdatedWriteState ==
  IF TimesOut THEN "WRITE_TIMEOUT"
  ELSE IF BecomesUnreliable THEN "WRITE_UNRELIABLE" ELSE write_state_

UpdatedReceiving == last_received <= WEAK_CONNECTION_RECEIVE_TIMEOUT

\* dead(now), with the state that UpdateState has just brought up to date
Dead ==
  /\ time_created >= MIN_CONNECTION_LIFETIME
  /\ ~UpdatedReceiving
  /\ UpdatedWriteState = "WRITE_TIMEOUT"
-----------------------------------------------------------------------------
(* What the channel does                                                   *)

\* OnCheckAndPing when another connection's turn to be pinged comes, or none's
CheckStates ==
  /\ ~deleted
  /\ write_state_' = UpdatedWriteState /\ receiving_' = UpdatedReceiving
  /\ deletePosted' = (deletePosted \/ Dead)
  /\ UNCHANGED <<pruned_, rtt_, pings, requests_, last_received, responded,
                 time_created, deleted, network, early, proven>>

\* IsPingable: a weak channel also pings the connections that have timed out.  The
\* remote candidate has its ufrag and password, and connected() is always true: only
\* a TCPConnection ever clears it.
IsPingable(weak) == weak \/ UpdatedWriteState # "WRITE_TIMEOUT"

\* Ping makes a request that is sent at once and never again; the peer answers,
\* or not.
Ping(i) ==
  /\ pings' = IF Len(pings) < CONNECTION_WRITE_CONNECT_FAILURES
              THEN Append(pings, 0) ELSE pings
  /\ requests_' = [j \in DOMAIN requests_ \cup {i} |->
                     IF j = i THEN 0 ELSE requests_[j]]
  /\ \E a \in Answers : network' = [network EXCEPT ![i] = a]

\* OnCheckAndPing when it is this connection's turn
CheckAndPing(i, weak) ==
  /\ ~deleted
  /\ i \notin DOMAIN requests_ /\ network[i] = "none"
  /\ IsPingable(weak)
  /\ write_state_' = UpdatedWriteState /\ receiving_' = UpdatedReceiving
  /\ deletePosted' = (deletePosted \/ Dead)
  /\ Ping(i)
  /\ UNCHANGED <<pruned_, rtt_, last_received, responded, time_created, deleted,
                 early, proven>>

ForgetsNothing == requests_  \* mutant

\* StunRequestManager::Clear, by Prune
ClearedRequests == << >>

\* Prune does nothing to a connection that is pruned and timed out already,
\* although it may have been pinged since.
Prune(state) ==
  /\ write_state_' = "WRITE_TIMEOUT"
  /\ IF pruned_ /\ state = "WRITE_TIMEOUT"
     THEN UNCHANGED <<pruned_, requests_, early>>
     ELSE /\ pruned_' = TRUE
          /\ requests_' = ClearedRequests
          /\ early' = {i \in Ids : network[i] # "none"}

\* SortConnections that prunes this connection
SortAndPrune ==
  /\ ~deleted
  /\ receiving_' = UpdatedReceiving
  /\ deletePosted' = (deletePosted \/ Dead)
  /\ Prune(UpdatedWriteState)
  /\ UNCHANGED <<rtt_, pings, last_received, responded, time_created,
                 deleted, network, proven>>

\* SortConnections that finds every connection timed out, and destroys them all
SortAndDestroy ==
  /\ ~deleted
  /\ UpdatedWriteState = "WRITE_TIMEOUT"
  /\ write_state_' = UpdatedWriteState /\ receiving_' = UpdatedReceiving
  /\ deletePosted' = TRUE
  /\ UNCHANGED <<pruned_, rtt_, pings, requests_, last_received, responded,
                 time_created, deleted, network, early, proven>>

\* OnMessage(MSG_DELETE): the destructors clear the requests and whatever else
\* is posted to the connection or to them.
OnMessageDelete ==
  /\ deletePosted /\ ~deleted
  /\ deleted' = TRUE /\ deletePosted' = FALSE
  /\ requests_' = << >>
  /\ UNCHANGED <<stateVars, pruned_, time_created, network, early, proven>>
-----------------------------------------------------------------------------
(* What the connection reads                                               *)

StartsUpAgain ==
  IF ~pruned_ /\ write_state_ = "WRITE_TIMEOUT" THEN "WRITE_INIT" ELSE write_state_

\* A data packet, or a ping whose role is not in conflict with ours
ReadDataOrPing ==
  /\ ~deleted
  /\ receiving_' = TRUE /\ last_received' = 0
  /\ write_state_' = StartsUpAgain
  /\ UNCHANGED <<pruned_, rtt_, pings, requests_, responded, time_created,
                 deletePosted, deleted, network, early, proven>>

\* A binding indication, or a ping with a conflicting role
ReadOtherPing ==
  /\ ~deleted
  /\ receiving_' = TRUE /\ last_received' = 0
  /\ UNCHANGED <<write_state_, pruned_, rtt_, pings, requests_, responded,
                 time_created, deletePosted, deleted, network, early, proven>>

\* An answer leaves the network; the network may deliver it again.
Gone(i) ==
  /\ network' = [network EXCEPT ![i] = "none"]
  /\ early' = early \ {i}

Delivered(i) == Gone(i) \/ UNCHANGED <<network, early>>

\* CheckResponse deletes the request, whose destructor removes it.
Removed(i) == Restrict(requests_, DOMAIN requests_ \ {i})

\* CheckResponse finds no request: answered before, timed out, or cleared.
ReadUnknownResponse(i) ==
  /\ ~deleted
  /\ network[i] # "none" /\ i \notin DOMAIN requests_
  /\ Gone(i)
  /\ UNCHANGED <<stateVars, pruned_, requests_, time_created, deletePosted,
                 deleted, proven>>

PingsKept == pings  \* mutant

\* ReceivedPingResponse's clear() of the pings since the last response
ClearedPings == << >>

ReceivedPingResponse ==
  /\ receiving_' = TRUE /\ write_state_' = "WRITABLE"
  /\ pings' = ClearedPings
  /\ last_received' = 0 /\ responded' = 0

\* CheckResponse and OnConnectionRequestResponse
ReadSuccess(i) ==
  /\ ~deleted
  /\ network[i] = "success" /\ i \in DOMAIN requests_
  /\ ReceivedPingResponse
  /\ rtt_' = (RTT_RATIO * rtt_ + requests_[i]) \div (RTT_RATIO + 1)
  /\ requests_' = Removed(i)
  /\ Delivered(i)
  /\ proven' = (i \notin early)
  /\ UNCHANGED <<pruned_, time_created, deletePosted, deleted>>

\* CheckResponse and OnConnectionRequestErrorResponse
ReadError(i) ==
  /\ ~deleted
  /\ network[i] \in {"retry", "fatal"} /\ i \in DOMAIN requests_
  /\ deletePosted' = (deletePosted \/ network[i] = "fatal")
  /\ requests_' = Removed(i)
  /\ Delivered(i)
  /\ UNCHANGED <<stateVars, pruned_, time_created, deleted, proven>>
-----------------------------------------------------------------------------
(* Time and the network                                                    *)

\* The delayed MSG_STUN_SEND comes back: OnTimeout, and the request is deleted.
OnRequestTimeout(i) ==
  /\ ~deleted
  /\ i \in DOMAIN requests_ /\ requests_[i] >= CONNECTION_RESPONSE_TIMEOUT
  /\ requests_' = Removed(i)
  /\ UNCHANGED <<stateVars, pruned_, time_created, deletePosted, deleted,
                 network, early, proven>>

Tick ==
  /\ ~deleted
  /\ pings' = [k \in 1..Len(pings) |-> Older(pings[k], PingLimit)]
  /\ requests_' = [i \in DOMAIN requests_ |-> Older(requests_[i], RequestLimit)]
  /\ last_received' = Older(last_received, ReceivedLimit)
  /\ responded' = Older(responded, RespondedLimit)
  /\ time_created' = Older(time_created, MIN_CONNECTION_LIFETIME)
  /\ UNCHANGED <<write_state_, receiving_, rtt_, pruned_, deletePosted,
                 deleted, network, early, proven>>

Lose(i) ==
  /\ ~deleted
  /\ network[i] # "none"
  /\ Gone(i)
  /\ UNCHANGED <<stateVars, pruned_, requests_, time_created, deletePosted,
                 deleted, proven>>

\* The pings the channel owes the connection, weak or not
Pings == \E i \in Ids : CheckAndPing(i, FALSE)

Next ==
  \/ CheckStates
  \/ \E i \in Ids, weak \in BOOLEAN : CheckAndPing(i, weak)
  \/ SortAndPrune
  \/ SortAndDestroy
  \/ OnMessageDelete
  \/ ReadDataOrPing
  \/ ReadOtherPing
  \/ \E i \in Ids : ReadUnknownResponse(i)
  \/ \E i \in Ids : ReadSuccess(i)
  \/ \E i \in Ids : ReadError(i)
  \/ \E i \in Ids : OnRequestTimeout(i)
  \/ Tick
  \/ \E i \in Ids : Lose(i)

Spec == Init /\ [][Next]_vars

\* Time passes, the thread handles what is due and what is posted, the channel
\* checks its connections for ever and pings the pingable ones in turn, and
\* the network keeps nothing for ever.
LSpec ==
  /\ Spec
  /\ WF_vars(Tick)
  /\ WF_vars(CheckStates)
  /\ WF_vars(Pings)
  /\ WF_vars(OnMessageDelete)
  /\ WF_vars(\E i \in Ids : OnRequestTimeout(i))
  /\ WF_vars(\E i \in Ids : Lose(i) \/ ReadUnknownResponse(i))
-----------------------------------------------------------------------------
(* A connection counts as writable, or as writable until recently, only on *)
(* the strength of an answer to a ping sent since it was last pruned: the  *)
(* answers to earlier pings, which may still arrive at any time and more   *)
(* than once, find no request (Prune, StunRequestManager::Clear,           *)
(* CheckResponse).                                                         *)
ProvenSincePrune ==
  write_state_ \in {"WRITABLE", "WRITE_UNRELIABLE"} => proven

(* Unless it is pruned, a connection stays writable for                    *)
(* CONNECTION_WRITE_CONNECT_TIMEOUT after every response, whichever pings  *)
(* were lost before or after it and in whatever order the answers came     *)
(* (UpdateState, ReceivedPingResponse).                                    *)
ResponseKeepsWritable ==
  [][ write_state_ = "WRITABLE" /\ write_state_' # "WRITABLE"
      => responded > CONNECTION_WRITE_CONNECT_TIMEOUT \/ SortAndPrune ]_vars

\* What keeps a connection alive
Heard == ReadDataOrPing \/ ReadOtherPing \/ \E i \in Ids : ReadSuccess(i)

(* A connection whose peer has gone silent, or only answers with errors,   *)
(* is eventually deleted, from every state and although the channel goes   *)
(* on pinging it (UpdateState, dead, OnMessage).                           *)
SilentIsDeleted == <>deleted \/ []<><<Heard>>_vars
=============================================================================
