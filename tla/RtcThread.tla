----------------------------- MODULE RtcThread ------------------------------
(***************************************************************************)
(* rtc::Thread and its rtc::MessageQueue (base/thread.cc,                  *)
(* base/messagequeue.cc) over the wake-up event of PhysicalSocketServer    *)
(* (base/physicalsocketserver.cc): threads post messages to each other and *)
(* send them, which blocks the sender until the handler has run on the     *)
(* other thread, while the sender itself handles what that thread sends.   *)
(*                                                                         *)
(* A message is a number.  Handlers post, send and clear as PostsTo,       *)
(* SendsTo and ClearsOf allow, up to MaxMessages messages.  Each thread    *)
(* has a stack of frames: at its bottom ProcessMessages, which is          *)
(* somewhere in Get, and above it the calls that are active.  One step is  *)
(* what a thread does under one lock, or between two of them.              *)
(***************************************************************************)
EXTENDS Integers, Sequences, SequencesExt, FiniteSets

CONSTANTS
  Threads,
  NoThread,      \* NULL
  Initials,      \* what may be posted before the threads start: a set of
                 \* functions that give each thread its queue
  PostsTo,       \* who posts to whom: a set of pairs
  SendsTo,       \* who sends to whom
  ClearsOf,      \* who clears whose queue
  FailingWaits,  \* the threads whose select may fail
  QuitThreads,   \* the threads Quit may be called for
  MaxMessages,   \* bound: messages made
  MaxClears      \* bound: calls of Clear

Messages == 1..MaxMessages

ASSUME RtcThreadAssumption ==
  /\ NoThread \notin Threads
  /\ MaxMessages \in Nat /\ MaxClears \in Nat
  /\ Initials \subseteq [Threads -> Seq(Messages)]
  /\ \A q \in Initials :          \* each initial message is somewhere, once
       /\ \E n \in 0..MaxMessages : UNION {ToSet(q[t]) : t \in Threads} = 1..n
       /\ \A t, u \in Threads : \A i \in DOMAIN q[t], j \in DOMAIN q[u] :
            q[t][i] = q[u][j] => t = u /\ i = j
  /\ PostsTo \subseteq Threads \X Threads /\ SendsTo \subseteq Threads \X Threads
  /\ \A p \in SendsTo : p[1] # p[2]
  /\ ClearsOf \subseteq Threads \X Threads
  /\ QuitThreads \subseteq Threads /\ FailingWaits \subseteq Threads

VARIABLES
  msgq_,      \* posted messages
  dmsgq_,     \* delayed messages, the soonest first
  due,        \* how many of them have reached their trigger time
  sendlist_,  \* messages sent by a thread that waits: [thread, msg]
  fSignaled_, \* the wake-up event of the thread's socket server
  fStop_,
  ready,      \* the messages whose Send has been told that it is over
  stack,      \* the active calls
  made,       \* messages made so far
  clears,     \* calls of Clear so far
  \* history variables
  handled,    \* messages whose handler was called
  gone,       \* messages that were cleared, or refused because of fStop_
  missed      \* messages that another thread's Clear came too late for

queueVars == <<msgq_, dmsgq_, due>>
vars == <<queueVars, sendlist_, fSignaled_, fStop_, ready, stack, made, clears,
          handled, gone, missed>>

Frame(at, peer, msg) == [at |-> at, peer |-> peer, msg |-> msg, waited |-> FALSE]

Top(t) == Last(stack[t])

Call(t, f) == stack' = [stack EXCEPT ![t] = Append(@, f)]

Return(t) == stack' = [stack EXCEPT ![t] = Front(@)]

\* The top frame of t goes on at another place.
Go(t, at) == stack' = [stack EXCEPT ![t] = Append(Front(@), [Top(t) EXCEPT !.at = at])]

\* PhysicalSocketServer::WakeUp, EventDispatcher::Signal: the event stays
\* signalled until a Wait of that thread takes it.
WakeUp(t) == fSignaled_' = [fSignaled_ EXCEPT ![t] = TRUE]

-----------------------------------------------------------------------------
(* ProcessMessages and Get, with kForever.                                 *)

\* Get first handles what was sent, then looks at its queue.
Get == <<Frame("queue", NoThread, 0), Frame("ReceiveSends", NoThread, 0)>>

\* The messages whose time has come join the posted ones, and the first of
\* those is taken.  It is dispatched when the lock has been released.
Triggered(t) == msgq_[t] \o SubSeq(dmsgq_[t], 1, due[t])

GetTakesMessage(t) ==
  /\ Top(t).at = "queue"
  /\ Triggered(t) # << >>
  /\ msgq_' = [msgq_ EXCEPT ![t] = Tail(Triggered(t))]
  /\ dmsgq_' = [dmsgq_ EXCEPT ![t] = SubSeq(@, due[t] + 1, Len(@))]
  /\ due' = [due EXCEPT ![t] = 0]
  /\ stack' = [stack EXCEPT ![t] = Append(Get, Frame("Dispatch", NoThread, Triggered(t)[1]))]
  /\ UNCHANGED <<sendlist_, fSignaled_, fStop_, ready, made, clears,
                 handled, gone, missed>>

\* The handler of the message that was taken from a queue is called, by
\* MessageQueue::Dispatch or in ReceiveSendsFromThread.
Dispatch(t) ==
  /\ Top(t).at = "Dispatch"
  /\ Go(t, "OnMessage")
  /\ handled' = handled \cup {Top(t).msg}
  /\ UNCHANGED <<queueVars, sendlist_, fSignaled_, fStop_, ready, made, clears,
                 gone, missed>>

GetFindsNothing(t) ==
  /\ Top(t).at = "queue"
  /\ Triggered(t) = << >>
  /\ Go(t, "fStop_")
  /\ UNCHANGED <<queueVars, sendlist_, fSignaled_, fStop_, ready, made, clears,
                 handled, gone, missed>>

\* Mutant of GetStops: the event is reset before the wait, not after it.
GetStopsAndResets(t) ==
  /\ Top(t).at = "fStop_"
  /\ Go(t, IF fStop_[t] THEN "exited" ELSE "wait")
  /\ fSignaled_' = [fSignaled_ EXCEPT ![t] = FALSE]
  /\ UNCHANGED <<queueVars, sendlist_, fStop_, ready, made, clears,
                 handled, gone, missed>>

GetStops(t) ==
  /\ Top(t).at = "fStop_"
  /\ Go(t, IF fStop_[t] THEN "exited" ELSE "wait")
  /\ UNCHANGED <<queueVars, sendlist_, fSignaled_, fStop_, ready, made, clears,
                 handled, gone, missed>>

\* Wait returns because of the event, which it resets, or because the next
\* delayed message is due.
GetWakes(t) ==
  /\ Top(t).at = "wait"
  /\ fSignaled_[t] \/ due[t] > 0
  /\ stack' = [stack EXCEPT ![t] = Get]
  /\ fSignaled_' = [fSignaled_ EXCEPT ![t] = FALSE]
  /\ UNCHANGED <<queueVars, sendlist_, fStop_, ready, made, clears,
                 handled, gone, missed>>

\* select fails: Get returns false and ProcessMessages ends.
GetWaitFails(t) ==
  /\ Top(t).at = "wait"
  /\ Go(t, "exited")
  /\ UNCHANGED <<queueVars, sendlist_, fSignaled_, fStop_, ready, made, clears,
                 handled, gone, missed>>

-----------------------------------------------------------------------------
(* Thread::ReceiveSendsFromThread(source).                                 *)

\* Mutant of Poppable: the source is not looked at.
PoppableAny(t, source) == DOMAIN sendlist_[t]

Poppable(t, source) ==
  {i \in DOMAIN sendlist_[t] : source \in {NoThread, sendlist_[t][i].thread}}

\* PopSendMessageFromThread finds one, which is dispatched after the unlock.
ReceiveSend(t) ==
  /\ Top(t).at = "ReceiveSends"
  /\ \E i \in Poppable(t, Top(t).peer) :
       /\ \A j \in Poppable(t, Top(t).peer) : i <= j
       /\ sendlist_' = [sendlist_ EXCEPT ![t] = RemoveAt(@, i)]
       /\ Call(t, Frame("Dispatch", sendlist_[t][i].thread, sendlist_[t][i].msg))
  /\ UNCHANGED <<queueVars, fSignaled_, fStop_, ready, made, clears,
                 handled, gone, missed>>

ReceiveSendsReturns(t) ==
  /\ Top(t).at = "ReceiveSends"
  /\ Poppable(t, Top(t).peer) = {}
  /\ Return(t)
  /\ UNCHANGED <<queueVars, sendlist_, fSignaled_, fStop_, ready, made, clears,
                 handled, gone, missed>>

-----------------------------------------------------------------------------
(* Handlers.                                                               *)

\* OnMessage returns.  The sender of a sent message is told so, under the lock
\* its loop looks at ready with.
OnMessageReturns(t) ==
  /\ Top(t).at = "OnMessage"
  /\ Return(t)
  /\ IF Top(t).peer = NoThread THEN UNCHANGED <<ready, fSignaled_>>
     ELSE ready' = ready \cup {Top(t).msg} /\ WakeUp(Top(t).peer)
  /\ UNCHANGED <<queueVars, sendlist_, fStop_, made, clears, handled, gone, missed>>

\* Post, PostDelayed and Send first look at fStop_, without the lock.
Make(t, at, to) ==
  /\ Top(t).at = "OnMessage"
  /\ made < MaxMessages
  /\ made' = made + 1
  /\ IF fStop_[to] THEN gone' = gone \cup {made + 1} /\ UNCHANGED stack
                   ELSE Call(t, Frame(at, to, made + 1)) /\ UNCHANGED gone
  /\ UNCHANGED <<queueVars, sendlist_, fSignaled_, fStop_, ready, clears,
                 handled, missed>>

\* MessageQueue::Post under its lock.
Post(t) ==
  /\ Top(t).at = "Post"
  /\ msgq_' = [msgq_ EXCEPT ![Top(t).peer] = Append(@, Top(t).msg)]
  /\ WakeUp(Top(t).peer)
  /\ Return(t)
  /\ UNCHANGED <<dmsgq_, due, sendlist_, fStop_, ready, made, clears,
                 handled, gone, missed>>

\* MessageQueue::DoDelayPost: the message takes its place by trigger time,
\* behind those of its own time.
DoDelayPost(t) ==
  /\ Top(t).at = "DoDelayPost"
  /\ \E i \in due[Top(t).peer]+1..Len(dmsgq_[Top(t).peer])+1 :
       dmsgq_' = [dmsgq_ EXCEPT ![Top(t).peer] = InsertAt(@, i, Top(t).msg)]
  /\ WakeUp(Top(t).peer)
  /\ Return(t)
  /\ UNCHANGED <<msgq_, due, sendlist_, fStop_, ready, made, clears,
                 handled, gone, missed>>

-----------------------------------------------------------------------------
(* Thread::Send to another thread, after its look at fStop_.               *)

SendPushes(t) ==
  /\ Top(t).at = "Send"
  /\ sendlist_' = [sendlist_ EXCEPT ![Top(t).peer] =
                     Append(@, [thread |-> t, msg |-> Top(t).msg])]
  /\ Go(t, "WakeUp")
  /\ UNCHANGED <<queueVars, fSignaled_, fStop_, ready, made, clears,
                 handled, gone, missed>>

\* WakeUp follows the unlock: the target may have handled the message by then.
SendSignals(t) ==
  /\ Top(t).at = "WakeUp"
  /\ WakeUp(Top(t).peer)
  /\ Go(t, "while")
  /\ UNCHANGED <<queueVars, sendlist_, fStop_, ready, made, clears,
                 handled, gone, missed>>

\* The loop: while it is not over, handle what the other thread sends, and
\* wait.
SendLoops(t) ==
  /\ Top(t).at = "while"
  /\ Top(t).msg \notin ready
  /\ stack' = [stack EXCEPT ![t] =
                 Append(Append(Front(@), [Top(t) EXCEPT !.at = "Wait"]),
                        Frame("ReceiveSends", Top(t).peer, 0))]
  /\ UNCHANGED <<queueVars, sendlist_, fSignaled_, fStop_, ready, made, clears,
                 handled, gone, missed>>

SendWakes(t) ==
  /\ Top(t).at = "Wait"
  /\ fSignaled_[t]
  /\ fSignaled_' = [fSignaled_ EXCEPT ![t] = FALSE]
  /\ stack' = [stack EXCEPT ![t] =
                 Append(Front(@), [Top(t) EXCEPT !.at = "while", !.waited = TRUE])]
  /\ UNCHANGED <<queueVars, sendlist_, fStop_, ready, made, clears,
                 handled, gone, missed>>

\* select fails: the loop goes on, and the event stays.
SendWaitFails(t) ==
  /\ Top(t).at = "Wait"
  /\ stack' = [stack EXCEPT ![t] =
                 Append(Front(@), [Top(t) EXCEPT !.at = "while", !.waited = TRUE])]
  /\ UNCHANGED <<queueVars, sendlist_, fSignaled_, fStop_, ready, made, clears,
                 handled, gone, missed>>

\* Mutant of WakeUpAgain: the consumed wake-ups are forgotten.
WakeUpNot(t) == UNCHANGED fSignaled_

\* "Our Wait loop above may have consumed some WakeUp events."
WakeUpAgain(t) == IF Top(t).waited THEN WakeUp(t) ELSE UNCHANGED fSignaled_

SendReturns(t) ==
  /\ Top(t).at = "while"
  /\ Top(t).msg \in ready
  /\ WakeUpAgain(t)
  /\ Return(t)
  /\ UNCHANGED <<queueVars, sendlist_, fStop_, ready, made, clears,
                 handled, gone, missed>>

-----------------------------------------------------------------------------
(* Thread::Clear and Quit.                                                 *)

Senders(u, S) == {sendlist_[u][i].thread : i \in {j \in DOMAIN sendlist_[u] :
                                                    sendlist_[u][j].msg \in S}}

Pending(u) == ToSet(msgq_[u]) \cup ToSet(dmsgq_[u])
              \cup {sendlist_[u][i].msg : i \in DOMAIN sendlist_[u]}

\* What is left of the sequence s when only the positions in keep are kept: the
\* k-th element is at the k-th of them.
Selected(s, keep) ==
  [k \in 1..Cardinality(keep) |->
     s[CHOOSE i \in keep : Cardinality({j \in keep : j <= i}) = k]]

\* Mutant of Without: nothing is removed.
WithAll(s, S) == s

Without(s, S) == Selected(s, {i \in DOMAIN s : s[i] \notin S})

\* Mutant of DueLeft: the due messages are not counted again.
DueKept(t, S) == due[t]

DueLeft(t, S) == Len(Without(SubSeq(dmsgq_[t], 1, due[t]), S))

\* Mutant of Unsent: the sent messages stay in the list.
Unkept(u, S) == sendlist_[u]

Unsent(u, S) ==
  Selected(sendlist_[u], {i \in DOMAIN sendlist_[u] : sendlist_[u][i].msg \notin S})

\* The message that u has taken from a queue and whose handler it has not called.
Popped(u) == {stack[u][i].msg : i \in {j \in DOMAIN stack[u] : stack[u][j].at = "Dispatch"}}

\* A handler of t clears the queue of u: S holds the messages of the handler that
\* is cleared.  Its destructor does so for one queue after the other
\* (MessageQueueManager::Clear).  Nothing happens to a message that u has popped.
Clear(t, u, S) ==
  /\ Top(t).at = "OnMessage"
  /\ clears < MaxClears /\ clears' = clears + 1
  /\ S # {}
  /\ sendlist_' = [sendlist_ EXCEPT ![u] = Unsent(u, S)]
  /\ ready' = ready \cup {sendlist_[u][i].msg : i \in
                            {j \in DOMAIN sendlist_[u] : sendlist_[u][j].msg \in S}}
  /\ fSignaled_' = [v \in Threads |-> fSignaled_[v] \/ v \in Senders(u, S)]
  /\ msgq_' = [msgq_ EXCEPT ![u] = Without(@, S)]
  /\ dmsgq_' = [dmsgq_ EXCEPT ![u] = Without(@, S)]
  /\ due' = [due EXCEPT ![u] = DueLeft(u, S)]
  /\ gone' = gone \cup (IF t = u THEN S ELSE S \ Popped(u))
  /\ missed' = missed \cup (IF t = u THEN {} ELSE S \cap Popped(u))
  /\ UNCHANGED <<fStop_, stack, made, handled>>

Quit(t) ==
  /\ ~fStop_[t]
  /\ fStop_' = [fStop_ EXCEPT ![t] = TRUE]
  /\ WakeUp(t)
  /\ UNCHANGED <<queueVars, sendlist_, ready, stack, made, clears, handled, gone, missed>>

\* Time passes: the next delayed message is due.
TriggerTime(t) ==
  /\ due[t] < Len(dmsgq_[t])
  /\ due' = [due EXCEPT ![t] = @ + 1]
  /\ UNCHANGED <<msgq_, dmsgq_, sendlist_, fSignaled_, fStop_, ready, stack, made, clears,
                 handled, gone, missed>>

-----------------------------------------------------------------------------
\* The threads have started, and those without a message wait for one.
Init ==
  /\ msgq_ \in Initials
  /\ dmsgq_ = [t \in Threads |-> << >>] /\ due = [t \in Threads |-> 0]
  /\ sendlist_ = [t \in Threads |-> << >>]
  /\ fSignaled_ = [t \in Threads |-> msgq_[t] # << >>]
  /\ fStop_ = [t \in Threads |-> FALSE]
  /\ ready = {}
  /\ stack = [t \in Threads |-> IF msgq_[t] = << >> THEN <<Frame("wait", NoThread, 0)>>
                                                   ELSE Get]
  /\ made = Cardinality(UNION {ToSet(msgq_[t]) : t \in Threads})
  /\ clears = 0 /\ handled = {} /\ gone = {} /\ missed = {}

Running(t) ==
  \/ GetTakesMessage(t) \/ GetFindsNothing(t) \/ Dispatch(t)
  \/ GetStops(t) \/ GetWakes(t)
  \/ ReceiveSend(t) \/ ReceiveSendsReturns(t)
  \/ OnMessageReturns(t) \/ Post(t) \/ DoDelayPost(t)
  \/ SendPushes(t) \/ SendSignals(t) \/ SendLoops(t) \/ SendWakes(t) \/ SendReturns(t)
  \/ \E to \in Threads : \/ <<t, to>> \in PostsTo /\ Make(t, "Post", to)
                         \/ <<t, to>> \in PostsTo /\ Make(t, "DoDelayPost", to)
                         \/ <<t, to>> \in SendsTo /\ Make(t, "Send", to)
  \/ \E u \in Threads : \E S \in SUBSET (Pending(u) \cup Popped(u)) :
       <<t, u>> \in ClearsOf /\ Clear(t, u, S)

Next ==
  \/ \E t \in Threads : Running(t) \/ TriggerTime(t)
  \/ \E t \in QuitThreads : Quit(t)
  \/ \E t \in FailingWaits : GetWaitFails(t) \/ SendWaitFails(t)

Spec == Init /\ [][Next]_vars

\* A thread that can go on does, handlers return, and time passes.
LSpec == Spec /\ \A t \in Threads : WF_vars(Running(t)) /\ WF_vars(TriggerTime(t))

-----------------------------------------------------------------------------
Places == {"queue", "fStop_", "wait", "exited", "ReceiveSends", "Dispatch",
           "OnMessage", "Post", "DoDelayPost", "Send", "WakeUp", "while", "Wait"}

\* Type invariant.
TypeOK ==
  /\ \A t \in Threads :
       /\ Pending(t) \subseteq Messages
       /\ due[t] \in 0..Len(dmsgq_[t])
       /\ stack[t] # << >>
       /\ \A i \in DOMAIN stack[t] :
            stack[t][i] \in [at : Places, peer : Threads \cup {NoThread},
                             msg : 0..MaxMessages, waited : BOOLEAN]
       /\ \A i \in DOMAIN sendlist_[t] : sendlist_[t][i].thread \in Threads \ {t}
  /\ fSignaled_ \in [Threads -> BOOLEAN] /\ fStop_ \in [Threads -> BOOLEAN]
  /\ (ready \cup handled \cup gone \cup missed) \subseteq 1..made
  /\ made \in 0..MaxMessages /\ clears \in 0..MaxClears

Exited(t) == stack[t][1].at = "exited"

\* The Send frames of t that wait for u, and the messages sent by t that u has
\* in its list or handles.
Awaited(t, u) == {stack[t][i].msg : i \in {j \in DOMAIN stack[t] :
                   stack[t][j].at \in {"WakeUp", "while", "Wait"} /\ stack[t][j].peer = u}}
                 \ ready

Owed(t, u) ==
  {sendlist_[u][i].msg : i \in {j \in DOMAIN sendlist_[u] : sendlist_[u][j].thread = t}}
  \cup {stack[u][i].msg : i \in {j \in DOMAIN stack[u] :
          stack[u][j].at \in {"Dispatch", "OnMessage"} /\ stack[u][j].peer = t}}

\* The receiver of a sent message holds a pointer to the flag "ready" on the
\* sender's stack.  It exists as long as the receiver may use it: the sent
\* messages a thread has listed, popped or is handling are exactly those some Send
\* is still waiting for, whoever cleared, quit or nested calls in between.
\* (thread.cc: Send, ReceiveSendsFromThread, Clear)
ReadyAlive == \A t, u \in Threads : t # u => Awaited(t, u) = Owed(t, u)

\* While a thread waits in Send, only the thread it waits for can call into
\* it: a handler that runs above a Send frame is one for a message sent by
\* that Send's target.  (thread.cc, Send: "We need to limit ReceiveSends to
\* |this| thread to avoid an arbitrary thread invoking calls on the current
\* thread."; thread_unittest.cc, ThreeThreadsInvoke)
OnlyTargetReenters ==
  \A t \in Threads : \A i, j \in DOMAIN stack[t] :
    /\ i < j /\ stack[t][i].at = "Wait" /\ stack[t][j].at = "OnMessage"
    /\ \A k \in i+1..j-1 : stack[t][k].at # "Wait"
    => stack[t][j].peer = stack[t][i].peer

\* No handler is called twice for a message, nor for a message that was cleared.
\* After a Clear by the queue's own thread that is none of the handler's
\* messages: what it popped before it has dispatched.  After a Clear by another
\* thread it may still be the one that the queue's thread has popped, and no
\* other.  (messagequeue.cc: Get, Clear, Dispatch; thread.cc: Clear,
\* ReceiveSendsFromThread; ~MessageHandler clears all queues)
HandledOnce ==
  [][\A t \in Threads :
       Top(t).at = "Dispatch" /\ Last(stack'[t]).at = "OnMessage"
         => Top(t).msg \notin handled \cup gone]_vars

\* A handler that was cleared, from whatever thread, is not called any more: what
\* a deleted AsyncInvoker promises.  (asyncinvoker.h: "any calls in flight will
\* be cancelled when the AsyncInvoker used to make the call is destructed")
CallsCancelled == [][handled' \cap missed = handled \cap missed]_vars

\* Nothing tells a sender that the thread it waits for has exited, until the
\* owner of that thread clears its queue.  Lost holds for such a sender, and
\* for one that waits for such a sender.
WaitsFor(t) == {stack[t][i].peer : i \in {j \in DOMAIN stack[t] : stack[t][j].at = "Wait"}}

Lost(t) == \E u \in WaitsFor(t) : Exited(u) \/ \E v \in WaitsFor(u) : Exited(v)

\* Posted messages, delayed or not, are handled or cleared unless their thread
\* exits: as only so many are made, the queues are empty in the end.
\* (messagequeue.cc: Get; thread.cc, the wake-up at the end of Send: "or else
\* the Posted message won't be processed in a timely manner")
PostsHandled ==
  []<>(\A t \in Threads :
         Exited(t) \/ Lost(t) \/ (msgq_[t] = << >> /\ dmsgq_[t] = << >>))

\* Send returns, unless the thread waited for exits: two threads that send to
\* each other, and to each other again from the handlers, do not block each
\* other, and neither keeps a third one waiting.  (thread.cc: Send;
\* thread_unittest.cc, TwoThreadsInvokeNoDeadlock)
SendsReturn == []<>(\A t \in Threads : Lost(t) \/ WaitsFor(t) = {})
=============================================================================
