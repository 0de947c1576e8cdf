-------------------------- MODULE RtcThreadProofs ---------------------------
(***************************************************************************)
(* Proofs about rtc::Thread and rtc::MessageQueue for any set of threads,  *)
(* any wiring of who posts and sends to whom and clears whose queue, and   *)
(* any number of messages.                                                 *)
(***************************************************************************)
EXTENDS RtcThread, FiniteSetTheorems, SequenceTheorems, TLAPS

-----------------------------------------------------------------------------
(* The inductive invariant.                                                *)

Frames == [at : Places, peer : Threads \cup {NoThread}, msg : 0..MaxMessages,
           waited : BOOLEAN]

Sent == [thread : Threads, msg : Messages]

Typed ==
  /\ msgq_ \in [Threads -> Seq(Messages)] /\ dmsgq_ \in [Threads -> Seq(Messages)]
  /\ due \in [Threads -> Nat] /\ \A t \in Threads : due[t] <= Len(dmsgq_[t])
  /\ sendlist_ \in [Threads -> Seq(Sent)]
  /\ fSignaled_ \in [Threads -> BOOLEAN] /\ fStop_ \in [Threads -> BOOLEAN]
  /\ stack \in [Threads -> Seq(Frames)]
  /\ ready \subseteq 1..made /\ handled \subseteq 1..made
  /\ gone \subseteq 1..made /\ missed \subseteq 1..made
  /\ made \in 0..MaxMessages /\ clears \in 0..MaxClears

\* Which frame may lie above which: what each place of the code calls.
InGet == {"queue", "fStop_", "wait", "exited"}
Posting == {"Post", "DoDelayPost", "Send"}
Waiting == {"WakeUp", "while", "Wait"}

\* The places of a thread that has popped a message, and those of one that has a
\* message in its hands: popped, or about to be put into a queue.
Taken == {"Dispatch", "OnMessage"}
InHand == Posting \cup {"Dispatch"}

Follows(f, g) ==
  \/ f.at = "queue" /\ g.at = "ReceiveSends" /\ g.peer = NoThread
  \/ f.at = "ReceiveSends" /\ g.at \in Taken /\ f.peer \in {NoThread, g.peer}
  \/ f.at = "OnMessage" /\ g.at \in Posting \cup Waiting /\ g.peer \in Threads
  \/ f.at = "Wait" /\ g.at = "ReceiveSends" /\ g.peer = f.peer

\* Each stack has ProcessMessages at its bottom, and calls above it.
Shape(s) ==
  /\ Len(s) >= 1 /\ s[1].at \in InGet
  /\ \A i \in 1..Len(s)-1 : Follows(s[i], s[i+1])

\* The messages a thread waits for in Send from u, those it has popped that were
\* sent by u, and those of its active handlers.
WaitsOf(s, u) == {s[i].msg : i \in {j \in DOMAIN s : s[j].at \in Waiting /\ s[j].peer = u}}
HandlesOf(s, u) == {s[i].msg : i \in {j \in DOMAIN s : s[j].at \in Taken /\ s[j].peer = u}}
Handling(s) == {s[i].msg : i \in {j \in DOMAIN s : s[j].at = "OnMessage"}}

\* The message a thread has in its hands.
Carries(s) == IF Last(s).at \in InHand THEN {Last(s).msg} ELSE {}

HandlesApart(s) ==
  \A i, j \in DOMAIN s :
    s[i].at = "OnMessage" /\ s[j].at = "OnMessage" /\ s[i].msg = s[j].msg => i = j

\* Send is called for another thread.
SendsAway(t, s) ==
  \A i \in DOMAIN s : s[i].at \in {"Send"} \cup Waiting => s[i].peer # t

Legal(t, s) == Shape(s) /\ HandlesApart(s) /\ SendsAway(t, s)

\* The messages of a list of sent ones, and those of one sender.
MsgsOf(l) == {l[i].msg : i \in DOMAIN l}
MsgsBy(l, t) == {l[i].msg : i \in {j \in DOMAIN l : l[j].thread = t}}
MsgsApart(l) == \A i, j \in DOMAIN l : l[i].msg = l[j].msg => i = j
NotFrom(l, t) == \A i \in DOMAIN l : l[i].thread # t

\* The places where a message can be.
Kinds == {"posted", "delayed", "sent", "carried", "handling"}

Holds(k, t) ==
  CASE k = "posted"   -> ToSet(msgq_[t])
    [] k = "delayed"  -> ToSet(dmsgq_[t])
    [] k = "sent"     -> MsgsOf(sendlist_[t])
    [] k = "carried"  -> Carries(stack[t])
    [] k = "handling" -> Handling(stack[t])

\* No message is in two places, or twice in one.
Separate ==
  \A k, l \in Kinds : \A t, u \in Threads :
    k # l \/ t # u => Holds(k, t) \cap Holds(l, u) = {}

Apart ==
  /\ Separate
  /\ \A t \in Threads :
       /\ IsInjective(msgq_[t]) /\ IsInjective(dmsgq_[t])
       /\ MsgsApart(sendlist_[t])

\* A message that waits was neither handled nor cleared; one that is handled was
\* taken; Send is told of messages that were handled or cleared.
Untouched ==
  /\ \A k \in Kinds \ {"handling"} : \A t \in Threads :
       Holds(k, t) \subseteq (1..made) \ (handled \cup gone)
  /\ \A t \in Threads : Handling(stack[t]) \subseteq handled
  /\ ready \subseteq handled \cup gone

Stacks == \A t \in Threads : Legal(t, stack[t])

\* No thread sends to itself, and no handler is active for a message whose Send was
\* told that it is over.
Sends ==
  \A t \in Threads :
    /\ NotFrom(sendlist_[t], t)
    /\ \A u \in Threads : HandlesOf(stack[t], u) \cap ready = {}
    /\ HandlesOf(stack[t], t) = {}

IndInv == Typed /\ Stacks /\ Apart /\ Untouched /\ Sends /\ ReadyAlive

-----------------------------------------------------------------------------
(* Sequences.                                                              *)

LEMMA FrontLast ==
  ASSUME NEW X, NEW s \in Seq(X), Len(s) >= 1
  PROVE  /\ Front(s) \in Seq(X) /\ Last(s) \in X
         /\ Len(Front(s)) = Len(s) - 1
         /\ s = Append(Front(s), Last(s))
  <1>1. PICK n \in Nat : n = Len(s) /\ n >= 1 /\ s \in [1..n -> X]
    BY LenProperties
  <1>2. \A i \in 1..n-1 : s[i] \in X
    BY <1>1
  <1>3. /\ Front(s) \in Seq(X) /\ Len(Front(s)) = n - 1
        /\ \A i \in 1..n-1 : Front(s)[i] = s[i]
    <2>1. 1 \in Int /\ n - 1 \in Int
      BY <1>1
    <2>2. /\ SubSeq(s, 1, n-1) \in Seq(X)
          /\ Len(SubSeq(s, 1, n-1)) = IF 1 <= n - 1 THEN (n-1)-1+1 ELSE 0
          /\ \A i \in 1..(n-1)-1+1 : SubSeq(s, 1, n-1)[i] = s[1+i-1]
      BY <1>2, <2>1, SubSeqProperties
    <2>3. ASSUME NEW i \in 1..n-1 PROVE SubSeq(s, 1, n-1)[i] = s[i]
      <3>1. i \in 1..(n-1)-1+1 /\ 1+i-1 = i
        BY <1>1
      <3> QED BY <3>1, <2>2
    <2>4. Len(SubSeq(s, 1, n-1)) = n - 1
      BY <2>2, <1>1
    <2> QED BY <2>2, <2>3, <2>4, <1>1 DEF Front
  <1>4. Last(s) \in X /\ Last(s) = s[n]
    BY <1>1 DEF Last
  <1>5. PICK r \in Seq(X), f \in X : r = Front(s) /\ f = Last(s)
    BY <1>3, <1>4
  <1>6. s = Append(r, f)
    <2>1. /\ Append(r, f) \in Seq(X) /\ Len(Append(r, f)) = n
          /\ \A i \in 1..n-1 : Append(r, f)[i] = r[i]
          /\ Append(r, f)[n] = f
      <3>1. PICK m \in Nat : m = Len(r) /\ n = m + 1 /\ n - 1 = m
        <4>1. n - 1 \in Nat /\ n = (n - 1) + 1
          BY <1>1
        <4> QED BY <4>1, <1>3, <1>5
      <3>2. /\ Append(r, f) \in Seq(X) /\ Len(Append(r, f)) = m + 1
            /\ \A i \in 1..m : Append(r, f)[i] = r[i]
            /\ Append(r, f)[m + 1] = f
        BY <3>1, AppendProperties
      <3> QED BY <3>1, <3>2
    <2>2. ASSUME NEW i \in 1..n PROVE s[i] = Append(r, f)[i]
      <3>1. CASE i = n
        BY <3>1, <2>1, <1>4, <1>5
      <3>2. CASE i # n
        <4>1. i \in Int /\ 1 <= i /\ i <= n /\ n \in Int
          BY <1>1
        <4>2. i \in 1..n-1
          BY <3>2, <4>1
        <4> QED BY <4>2, <2>1, <1>3, <1>5
      <3> QED BY <3>1, <3>2
    <2> QED BY <2>1, <2>2, <1>1, SeqEqual
  <1> QED BY <1>1, <1>3, <1>4, <1>5, <1>6

\* What Front and Last give back of an Append.
LEMMA FrontOfAppend ==
  ASSUME NEW X, NEW r \in Seq(X), NEW f \in X
  PROVE  Front(Append(r, f)) = r /\ Last(Append(r, f)) = f
  <1>1. PICK s \in Seq(X) : s = Append(r, f) /\ Len(s) = Len(r) + 1 /\ Len(r) \in Nat
    BY AppendProperties, LenProperties
  <1>2. /\ Front(s) \in Seq(X) /\ Last(s) \in X /\ Len(Front(s)) = Len(r)
        /\ s = Append(Front(s), Last(s))
    <2>1. Len(s) >= 1 /\ Len(s) - 1 = Len(r)
      BY <1>1
    <2> QED BY <2>1, <1>1, FrontLast
  <1>3. Last(s) = f
    BY <1>1, AppendProperties DEF Last
  <1>4. \A i \in 1..Len(r) : Front(s)[i] = r[i]
    BY <1>1, <1>2, AppendProperties
  <1>5. Front(s) = r
    BY <1>2, <1>4, SeqEqual
  <1> QED BY <1>1, <1>3, <1>5

LEMMA ToSetAppend ==
  ASSUME NEW X, NEW s \in Seq(X), NEW x \in X
  PROVE  /\ ToSet(Append(s, x)) = ToSet(s) \cup {x}
         /\ IsInjective(s) /\ x \notin ToSet(s) => IsInjective(Append(s, x))
  <1>1. PICK n \in Nat : n = Len(s) /\ DOMAIN s = 1..n
    BY LenProperties
  <1>2. PICK q : /\ q = Append(s, x) /\ DOMAIN q = 1..n+1
                 /\ \A i \in 1..n : q[i] = s[i]
                 /\ q[n+1] = x
    <2>1. /\ Append(s, x) \in Seq(X) /\ Len(Append(s, x)) = n + 1
          /\ \A i \in 1..n : Append(s, x)[i] = s[i]
          /\ Append(s, x)[n+1] = x
      BY <1>1, AppendProperties
    <2>2. DOMAIN Append(s, x) = 1..n+1
      BY <2>1, LenProperties
    <2> QED BY <2>1, <2>2
  <1>3. \A i \in 1..n+1 : i \in 1..n \/ i = n+1
    BY <1>1
  <1>4. ToSet(q) = ToSet(s) \cup {x}
    BY <1>1, <1>2, <1>3 DEF ToSet
  <1>5. ASSUME IsInjective(s), x \notin ToSet(s) PROVE IsInjective(q)
    BY <1>1, <1>2, <1>3, <1>5 DEF ToSet, IsInjective
  <1> QED BY <1>2, <1>4, <1>5

\* One sequence holds the elements of another at some of its positions.
SubOf(q, s, keep) ==
  \E f \in [DOMAIN q -> keep] :
    /\ \A k \in DOMAIN q : q[k] = s[f[k]]
    /\ \A k, l \in DOMAIN q : f[k] = f[l] => k = l
    /\ \A i \in keep : \E k \in DOMAIN q : f[k] = i

LEMMA SubOfSet ==
  ASSUME NEW q, NEW s, NEW keep, keep \subseteq DOMAIN s, SubOf(q, s, keep)
  PROVE  /\ ToSet(q) = {s[i] : i \in keep}
         /\ IsInjective(s) => IsInjective(q)
  BY DEF SubOf, ToSet, IsInjective

\* The positions of a set of naturals, counted from the smallest.
LEMMA RankBijective ==
  ASSUME NEW n \in Nat, NEW keep \in SUBSET (1..n)
  PROVE  /\ IsFiniteSet(keep) /\ Cardinality(keep) \in Nat /\ Cardinality(keep) <= n
         /\ [i \in keep |-> Cardinality({j \in keep : j <= i})]
              \in Bijection(keep, 1..Cardinality(keep))
  <1> DEFINE Below(i) == {j \in keep : j <= i}
             c == Cardinality(keep)
             rank == [i \in keep |-> Cardinality(Below(i))]
  <1>1. IsFiniteSet(1..n) /\ Cardinality(1..n) = n
    <2>1. 1 \in Int /\ n \in Int
      OBVIOUS
    <2>2. IsFiniteSet(1..n) /\ Cardinality(1..n) = IF 1 > n THEN 0 ELSE n-1+1
      BY <2>1, FS_Interval
    <2> QED BY <2>2
  <1>2. IsFiniteSet(keep) /\ c <= n
    BY <1>1, FS_Subset
  <1>3. c \in Nat
    BY <1>2, FS_CardinalityType
  <1>4. ASSUME NEW i \in keep
        PROVE  IsFiniteSet(Below(i)) /\ Cardinality(Below(i)) \in 1..c
    <2>1. Below(i) \in SUBSET keep
      OBVIOUS
    <2>2. IsFiniteSet(Below(i)) /\ Cardinality(Below(i)) <= c
      BY <1>2, <2>1, FS_Subset
    <2>3. Cardinality(Below(i)) \in Nat
      BY <2>2, FS_CardinalityType
    <2>4. i \in Below(i)
      OBVIOUS
    <2>5. Cardinality(Below(i)) # 0
      BY <2>2, <2>4, FS_EmptySet
    <2> QED BY <2>2, <2>3, <2>5, <1>3
  <1>5. ASSUME NEW i \in keep, NEW k \in keep, i < k
        PROVE  Cardinality(Below(i)) # Cardinality(Below(k))
    <2>1. Below(i) \in SUBSET Below(k)
      <3>1. ASSUME NEW j \in keep, j <= i PROVE j <= k
        <4>1. i \in Int /\ j \in Int /\ k \in Int
          OBVIOUS
        <4> QED BY <4>1, <3>1, <1>5
      <3> QED BY <3>1
    <2>2. k \in Below(k) /\ k \notin Below(i)
      BY <1>5
    <2>3. Below(i) # Below(k)
      BY <2>2
    <2> QED BY <1>4, <2>1, <2>3, FS_Subset
  <1> HIDE DEF Below
  <1>6. rank \in [keep -> 1..c]
    BY <1>4
  <1>7. rank \in Injection(keep, 1..c)
    <2>1. ASSUME NEW i \in keep, NEW k \in keep, i # k PROVE rank[i] # rank[k]
      <3>1. CASE i < k
        BY <3>1, <1>5
      <3>2. CASE k < i
        BY <3>2, <1>5
      <3> QED BY <2>1, <3>1, <3>2
    <2> QED BY <2>1, <1>6 DEF Injection, IsInjective
  <1>8. IsFiniteSet(1..c) /\ Cardinality(1..c) = c
    <2>1. 1 \in Int /\ c \in Int
      BY <1>3
    <2>2. IsFiniteSet(1..c) /\ Cardinality(1..c) = IF 1 > c THEN 0 ELSE c-1+1
      BY <2>1, FS_Interval
    <2> QED BY <2>2, <1>3
  <1>9. rank \in Surjection(keep, 1..c)
    BY <1>7, <1>8, FS_Injection
  <1> QED BY <1>2, <1>3, <1>7, <1>9 DEF Bijection, Below

LEMMA SelectedSub ==
  ASSUME NEW X, NEW s \in Seq(X), NEW keep \in SUBSET DOMAIN s
  PROVE  /\ Selected(s, keep) \in Seq(X)
         /\ Len(Selected(s, keep)) = Cardinality(keep) /\ Cardinality(keep) \in Nat
         /\ SubOf(Selected(s, keep), s, keep)
  <1>1. PICK n \in Nat : n = Len(s) /\ DOMAIN s = 1..n /\ s \in [1..n -> X]
    BY LenProperties
  <1>2. PICK c \in Nat : c = Cardinality(keep)
    BY <1>1, RankBijective
  <1>3. PICK rank : /\ rank = [i \in keep |-> Cardinality({j \in keep : j <= i})]
                    /\ rank \in Bijection(keep, 1..c)
    BY <1>1, <1>2, RankBijective
  <1>4. /\ rank \in [keep -> 1..c] /\ \A i, j \in keep : rank[i] = rank[j] => i = j
        /\ \A k \in 1..c : \E i \in keep : rank[i] = k
    BY <1>3 DEF Bijection, Injection, Surjection, IsInjective
  <1> DEFINE nth == [k \in 1..c |-> CHOOSE i \in keep : Cardinality({j \in keep : j <= i}) = k]
  <1>5. ASSUME NEW k \in 1..c PROVE nth[k] \in keep /\ rank[nth[k]] = k
    <2>1. \E i \in keep : Cardinality({j \in keep : j <= i}) = k
      BY <1>3, <1>4
    <2>2. nth[k] \in keep /\ Cardinality({j \in keep : j <= nth[k]}) = k
      BY <2>1
    <2> QED BY <2>2, <1>3
  <1>6. Selected(s, keep) = [k \in 1..c |-> s[nth[k]]]
    BY <1>2 DEF Selected
  <1>7. nth \in [1..c -> keep]
    BY <1>5
  <1> HIDE DEF nth
  <1>8. PICK q : q = Selected(s, keep)
    OBVIOUS
  <1>9. q = [k \in 1..c |-> s[nth[k]]]
    BY <1>6, <1>8
  <1>10. q \in [1..c -> X]
    BY <1>1, <1>5, <1>9
  <1>11. q \in Seq(X) /\ Len(q) = c
    BY <1>10
  <1>12. SubOf(q, s, keep)
    <2>1. DOMAIN q = 1..c /\ \A k \in 1..c : q[k] = s[nth[k]]
      BY <1>9
    <2>2. \A k, l \in 1..c : nth[k] = nth[l] => k = l
      BY <1>5
    <2>3. \A i \in keep : \E k \in 1..c : nth[k] = i
      BY <1>4, <1>5
    <2>4. /\ nth \in [DOMAIN q -> keep]
          /\ \A k \in DOMAIN q : q[k] = s[nth[k]]
          /\ \A k, l \in DOMAIN q : nth[k] = nth[l] => k = l
          /\ \A i \in keep : \E k \in DOMAIN q : nth[k] = i
      BY <2>1, <2>2, <2>3, <1>7
    <2> QED BY <2>4, Zenon DEF SubOf
  <1> QED BY <1>2, <1>8, <1>11, <1>12

\* A part of a sequence.
LEMMA PartOf ==
  ASSUME NEW X, NEW s \in Seq(X), NEW m \in Nat, NEW n \in Nat, m >= 1, m <= n + 1, n <= Len(s)
  PROVE  /\ SubSeq(s, m, n) \in Seq(X) /\ Len(SubSeq(s, m, n)) = n - m + 1
         /\ \A i \in 1..n-m+1 : SubSeq(s, m, n)[i] = s[m+i-1]
  <1>1. PICK k \in Nat : k = Len(s) /\ s \in [1..k -> X]
    BY LenProperties
  <1>2. \A i \in m..n : s[i] \in X
    BY <1>1
  <1>3. m \in Int /\ n \in Int
    OBVIOUS
  <1>4. /\ SubSeq(s, m, n) \in Seq(X)
        /\ Len(SubSeq(s, m, n)) = IF m <= n THEN n-m+1 ELSE 0
        /\ \A i \in 1..n-m+1 : SubSeq(s, m, n)[i] = s[m+i-1]
    BY <1>2, <1>3, SubSeqProperties
  <1>5. (IF m <= n THEN n-m+1 ELSE 0) = n - m + 1
    OBVIOUS
  <1> QED BY <1>4, <1>5

\* A sequence without the element at one position.
LEMMA RemovedSub ==
  ASSUME NEW X, NEW s \in Seq(X), NEW i \in 1..Len(s)
  PROVE  /\ RemoveAt(s, i) \in Seq(X)
         /\ SubOf(RemoveAt(s, i), s, DOMAIN s \ {i})
  <1>1. PICK n \in Nat : n = Len(s) /\ DOMAIN s = 1..n
    BY LenProperties
  <1>2. PICK a \in Nat, b \in Nat, c \in Nat : a = i - 1 /\ b = i + 1 /\ c = n - i /\ a + c = n - 1
                                               /\ i \in Int /\ 1 <= i /\ i <= n
    <2>1. i \in Int /\ 1 <= i /\ i <= n
      BY <1>1
    <2>2. i - 1 \in Nat /\ i + 1 \in Nat /\ n - i \in Nat /\ (i - 1) + (n - i) = n - 1
      BY <1>1, <2>1
    <2> QED BY <2>1, <2>2
  <1>3. PICK p, t : p = SubSeq(s, 1, a) /\ t = SubSeq(s, b, n)
    OBVIOUS
  <1>4. p \in Seq(X) /\ Len(p) = a /\ \A k \in 1..a : p[k] = s[k]
    <2>1. 1 \in Nat /\ 1 <= a + 1 /\ a <= Len(s) /\ a - 1 + 1 = a
      BY <1>1, <1>2
    <2>2. /\ SubSeq(s, 1, a) \in Seq(X) /\ Len(SubSeq(s, 1, a)) = a - 1 + 1
          /\ \A k \in 1..a-1+1 : SubSeq(s, 1, a)[k] = s[1+k-1]
      BY <2>1, PartOf
    <2>3. \A k \in 1..a : 1 + k - 1 = k
      BY <1>2
    <2> QED BY <2>1, <2>2, <2>3, <1>3
  <1>5. t \in Seq(X) /\ Len(t) = c /\ \A k \in 1..c : t[k] = s[i + k]
    <2>1. b >= 1 /\ b <= n + 1 /\ n <= Len(s) /\ n - b + 1 = c
      BY <1>1, <1>2
    <2>2. /\ SubSeq(s, b, n) \in Seq(X) /\ Len(SubSeq(s, b, n)) = n - b + 1
          /\ \A k \in 1..n-b+1 : SubSeq(s, b, n)[k] = s[b+k-1]
      BY <2>1, PartOf
    <2>3. \A k \in 1..c : b + k - 1 = i + k
      BY <1>2
    <2> QED BY <2>1, <2>2, <2>3, <1>3
  <1>6. PICK q : q = RemoveAt(s, i) /\ q = p \o t
    BY <1>1, <1>2, <1>3 DEF RemoveAt
  <1>7. /\ q \in Seq(X) /\ Len(q) = a + c
        /\ \A k \in 1..a + c : q[k] = IF k <= a THEN p[k] ELSE t[k - a]
    <2>1. /\ p \o t \in Seq(X) /\ Len(p \o t) = Len(p) + Len(t)
          /\ \A k \in 1..Len(p) + Len(t) :
               (p \o t)[k] = IF k <= Len(p) THEN p[k] ELSE t[k - Len(p)]
      BY <1>4, <1>5, ConcatProperties
    <2> QED BY <2>1, <1>4, <1>5, <1>6
  <1>8. DOMAIN q = 1..n-1
    BY <1>2, <1>7, LenProperties
  <1> DEFINE f == [k \in 1..n-1 |-> IF k < i THEN k ELSE k + 1]
  <1>9. ASSUME NEW k \in 1..n-1
        PROVE  q[k] = s[f[k]] /\ f[k] \in (1..n) \ {i}
    <2>1. k \in Int /\ 1 <= k /\ k <= n - 1 /\ f[k] = IF k < i THEN k ELSE k + 1
      BY <1>1
    <2>2. k \in 1..a + c
      BY <2>1, <1>2
    <2>3. CASE k < i
      <3>1. k <= a /\ k \in 1..a
        BY <2>1, <2>3, <1>2
      <3> QED BY <2>1, <2>2, <2>3, <3>1, <1>1, <1>2, <1>4, <1>7
    <2>4. CASE ~(k < i)
      <3>1. PICK j \in 1..c : j = k - a /\ i + j = k + 1
        <4>1. k - a \in 1..c /\ i + (k - a) = k + 1
          BY <2>1, <2>4, <1>2
        <4> QED BY <4>1
      <3>2. ~(k <= a)
        BY <2>1, <2>4, <1>2
      <3>3. q[k] = s[k + 1]
        BY <2>2, <3>1, <3>2, <1>5, <1>7
      <3>4. k + 1 \in (1..n) \ {i}
        BY <2>1, <2>4, <1>1, <1>2
      <3> QED BY <2>1, <2>4, <3>3, <3>4
    <2> QED BY <2>3, <2>4
  <1>10. f \in [1..n-1 -> (1..n) \ {i}]
    BY <1>9
  <1>11. ASSUME NEW k \in 1..n-1, NEW l \in 1..n-1, f[k] = f[l] PROVE k = l
    <2>1. k \in Int /\ l \in Int /\ i \in Int
      BY <1>1, <1>2
    <2> QED BY <2>1, <1>11
  <1>12. ASSUME NEW j \in (1..n) \ {i} PROVE \E k \in 1..n-1 : f[k] = j
    <2>1. j \in Int /\ 1 <= j /\ j <= n /\ j # i
      BY <1>1
    <2>2. CASE j < i
      <3>1. j \in 1..n-1
        BY <2>1, <2>2, <1>1, <1>2
      <3> QED BY <2>2, <3>1
    <2>3. CASE ~(j < i)
      <3>1. j - 1 \in 1..n-1 /\ ~(j - 1 < i) /\ (j - 1) + 1 = j
        BY <2>1, <2>3, <1>1, <1>2
      <3>2. f[j - 1] = j
        BY <3>1
      <3> QED BY <3>1, <3>2
    <2> QED BY <2>2, <2>3
  <1> HIDE DEF f
  <1>13. SubOf(q, s, (1..n) \ {i})
    <2>1. \E g \in [1..n-1 -> (1..n) \ {i}] :
            /\ \A k \in 1..n-1 : q[k] = s[g[k]]
            /\ \A k, l \in 1..n-1 : g[k] = g[l] => k = l
            /\ \A j \in (1..n) \ {i} : \E k \in 1..n-1 : g[k] = j
      BY <1>9, <1>10, <1>11, <1>12
    <2>2. PICK d : d = 1..n-1
      OBVIOUS
    <2>3. \E g \in [d -> (1..n) \ {i}] :
            /\ \A k \in d : q[k] = s[g[k]]
            /\ \A k, l \in d : g[k] = g[l] => k = l
            /\ \A j \in (1..n) \ {i} : \E k \in d : g[k] = j
      BY <2>1, <2>2
    <2>4. d = DOMAIN q
      BY <2>2, <1>8
    <2> QED BY <2>3, <2>4 DEF SubOf
  <1> QED BY <1>1, <1>6, <1>7, <1>13

\* The concatenation of two sequences without a common element.
LEMMA ConcatApart ==
  ASSUME NEW X, NEW p \in Seq(X), NEW t \in Seq(X)
  PROVE  /\ p \o t \in Seq(X) /\ Len(p \o t) = Len(p) + Len(t)
         /\ ToSet(p \o t) = ToSet(p) \cup ToSet(t)
         /\ IsInjective(p) /\ IsInjective(t) /\ ToSet(p) \cap ToSet(t) = {}
              => IsInjective(p \o t)
  <1>1. PICK a \in Nat, b \in Nat : /\ a = Len(p) /\ b = Len(t)
                                    /\ DOMAIN p = 1..a /\ DOMAIN t = 1..b
    BY LenProperties
  <1>2. PICK q : /\ q = p \o t /\ q \in Seq(X) /\ Len(q) = a + b
                 /\ \A i \in 1..a+b : q[i] = IF i <= a THEN p[i] ELSE t[i - a]
    <2>1. /\ p \o t \in Seq(X) /\ Len(p \o t) = Len(p) + Len(t)
          /\ \A k \in 1..Len(p) + Len(t) :
               (p \o t)[k] = IF k <= Len(p) THEN p[k] ELSE t[k - Len(p)]
      BY ConcatProperties
    <2> QED BY <2>1, <1>1
  <1>3. DOMAIN q = 1..a+b
    BY <1>2, LenProperties
  <1>4. ASSUME NEW i \in 1..a PROVE i \in 1..a+b /\ q[i] = p[i]
    <2>1. i \in 1..a+b /\ i <= a
      BY <1>1
    <2> QED BY <2>1, <1>2
  <1>5. ASSUME NEW i \in 1..b PROVE a + i \in 1..a+b /\ q[a + i] = t[i]
    <2>1. a + i \in 1..a+b /\ ~(a + i <= a) /\ a + i - a = i
      BY <1>1
    <2>2. PICK k \in 1..a+b : k = a + i
      BY <2>1
    <2>3. q[k] = IF k <= a THEN p[k] ELSE t[k - a]
      BY <1>2
    <2> QED BY <2>1, <2>2, <2>3
  <1>6. ASSUME NEW i \in 1..a+b
        PROVE  (i \in 1..a /\ i <= a) \/ (\E j \in 1..b : i = a + j /\ ~(i <= a))
    <2>1. CASE i <= a
      BY <2>1, <1>1
    <2>2. CASE ~(i <= a)
      <3>1. i - a \in 1..b /\ i = a + (i - a)
        BY <2>2, <1>1
      <3> QED BY <3>1, <2>2
    <2> QED BY <2>1, <2>2
  <1>7. ToSet(q) = ToSet(p) \cup ToSet(t)
    <2>1. ASSUME NEW x \in ToSet(q) PROVE x \in ToSet(p) \cup ToSet(t)
      <3>1. PICK i \in 1..a+b : x = q[i]
        BY <2>1, <1>3 DEF ToSet
      <3>2. CASE i \in 1..a
        <4>1. x = p[i] /\ i \in DOMAIN p
          BY <3>1, <3>2, <1>1, <1>4
        <4> QED BY <4>1 DEF ToSet
      <3>3. ASSUME NEW j \in 1..b, i = a + j PROVE x \in ToSet(t)
        <4>1. x = t[j] /\ j \in DOMAIN t
          BY <3>1, <3>3, <1>1, <1>5
        <4> QED BY <4>1 DEF ToSet
      <3> QED BY <3>2, <3>3, <1>6
    <2>2. ASSUME NEW x \in ToSet(p) PROVE x \in ToSet(q)
      BY <2>2, <1>1, <1>3, <1>4 DEF ToSet
    <2>3. ASSUME NEW x \in ToSet(t) PROVE x \in ToSet(q)
      BY <2>3, <1>1, <1>3, <1>5 DEF ToSet
    <2> QED BY <2>1, <2>2, <2>3
  <1>8. ASSUME IsInjective(p), IsInjective(t), ToSet(p) \cap ToSet(t) = {}
        PROVE  IsInjective(q)
    <2>1. ASSUME NEW i \in 1..a+b, NEW k \in 1..a+b, q[i] = q[k] PROVE i = k
      <3>1. CASE i \in 1..a /\ k \in 1..a
        BY <3>1, <2>1, <1>1, <1>4, <1>8 DEF IsInjective
      <3>2. ASSUME NEW j \in 1..b, NEW l \in 1..b, i = a + j, k = a + l PROVE i = k
        BY <3>2, <2>1, <1>1, <1>5, <1>8 DEF IsInjective
      <3>3. ASSUME i \in 1..a, NEW l \in 1..b, k = a + l PROVE FALSE
        <4>1. p[i] = t[l] /\ i \in DOMAIN p /\ l \in DOMAIN t
          BY <3>3, <2>1, <1>1, <1>4, <1>5
        <4> QED BY <4>1, <1>8 DEF ToSet
      <3>4. ASSUME k \in 1..a, NEW l \in 1..b, i = a + l PROVE FALSE
        <4>1. p[k] = t[l] /\ k \in DOMAIN p /\ l \in DOMAIN t
          BY <3>4, <2>1, <1>1, <1>4, <1>5
        <4> QED BY <4>1, <1>8 DEF ToSet
      <3> QED BY <3>1, <3>2, <3>3, <3>4, <1>6
    <2> QED BY <2>1, <1>3 DEF IsInjective
  <1> QED BY <1>1, <1>2, <1>7, <1>8

\* The two parts of a sequence split behind position n.
LEMMA SplitApart ==
  ASSUME NEW X, NEW s \in Seq(X), NEW n \in Nat, n <= Len(s)
  PROVE  LET p == SubSeq(s, 1, n)
             t == SubSeq(s, n + 1, Len(s))
         IN  /\ p \in Seq(X) /\ Len(p) = n /\ t \in Seq(X)
             /\ ToSet(s) = ToSet(p) \cup ToSet(t)
             /\ IsInjective(s) => /\ IsInjective(p) /\ IsInjective(t)
                                  /\ ToSet(p) \cap ToSet(t) = {}
  <1>1. PICK k \in Nat, c \in Nat : k = Len(s) /\ c = k - n /\ DOMAIN s = 1..k /\ n <= k
    <2>1. Len(s) \in Nat /\ DOMAIN s = 1..Len(s)
      BY LenProperties
    <2>2. Len(s) - n \in Nat
      BY <2>1
    <2> QED BY <2>1, <2>2
  <1>2. PICK p, t : p = SubSeq(s, 1, n) /\ t = SubSeq(s, n + 1, k)
    OBVIOUS
  <1>3. p \in Seq(X) /\ Len(p) = n /\ \A i \in 1..n : p[i] = s[i]
    <2>1. 1 \in Nat /\ 1 <= n + 1 /\ n <= Len(s) /\ n - 1 + 1 = n
      BY <1>1
    <2>2. /\ SubSeq(s, 1, n) \in Seq(X) /\ Len(SubSeq(s, 1, n)) = n - 1 + 1
          /\ \A i \in 1..n-1+1 : SubSeq(s, 1, n)[i] = s[1+i-1]
      BY <2>1, PartOf
    <2>3. \A i \in 1..n : 1 + i - 1 = i
      OBVIOUS
    <2> QED BY <2>1, <2>2, <2>3, <1>2
  <1>4. t \in Seq(X) /\ Len(t) = c /\ \A i \in 1..c : t[i] = s[n + i]
    <2>1. PICK b \in Nat : b = n + 1 /\ b >= 1 /\ b <= k + 1 /\ k <= Len(s) /\ k - b + 1 = c
      <3>1. n + 1 \in Nat /\ n + 1 >= 1 /\ n + 1 <= k + 1 /\ k <= Len(s) /\ k - (n + 1) + 1 = c
        BY <1>1
      <3> QED BY <3>1
    <2>2. /\ SubSeq(s, b, k) \in Seq(X) /\ Len(SubSeq(s, b, k)) = k - b + 1
          /\ \A i \in 1..k-b+1 : SubSeq(s, b, k)[i] = s[b+i-1]
      BY <2>1, PartOf
    <2>3. \A i \in 1..c : b + i - 1 = n + i
      BY <2>1, <1>1
    <2> QED BY <2>1, <2>2, <2>3, <1>2
  <1>5. DOMAIN p = 1..n /\ DOMAIN t = 1..c
    BY <1>3, <1>4, LenProperties
  <1>6. \A i \in 1..n : i \in 1..k
    BY <1>1
  <1>7. \A i \in 1..c : n + i \in 1..k /\ ~(n + i \in 1..n)
    BY <1>1
  <1>8. \A i \in 1..k : i \in 1..n \/ \E j \in 1..c : i = n + j
    <2>1. ASSUME NEW i \in 1..k, i \notin 1..n PROVE \E j \in 1..c : i = n + j
      <3>1. i - n \in 1..c /\ i = n + (i - n)
        BY <2>1, <1>1
      <3> QED BY <3>1
    <2> QED BY <2>1
  <1>9. ToSet(s) = ToSet(p) \cup ToSet(t)
    <2>1. ASSUME NEW i \in 1..k PROVE s[i] \in ToSet(p) \cup ToSet(t)
      <3>1. CASE i \in 1..n
        <4>1. s[i] = p[i] /\ i \in DOMAIN p
          BY <3>1, <1>3, <1>5
        <4> QED BY <4>1 DEF ToSet
      <3>2. CASE i \notin 1..n
        <4>1. PICK j \in 1..c : i = n + j
          BY <3>2, <1>8
        <4>2. s[i] = t[j] /\ j \in DOMAIN t
          BY <4>1, <1>4, <1>5
        <4> QED BY <4>2 DEF ToSet
      <3> QED BY <3>1, <3>2
    <2>2. ASSUME NEW i \in 1..n PROVE p[i] \in ToSet(s)
      BY <1>1, <1>3, <1>6 DEF ToSet
    <2>3. ASSUME NEW i \in 1..c PROVE t[i] \in ToSet(s)
      BY <1>1, <1>4, <1>7 DEF ToSet
    <2> QED BY <2>1, <2>2, <2>3, <1>1, <1>5 DEF ToSet
  <1>10. ASSUME IsInjective(s)
         PROVE  IsInjective(p) /\ IsInjective(t) /\ ToSet(p) \cap ToSet(t) = {}
    <2>1. \A i, j \in 1..k : s[i] = s[j] => i = j
      BY <1>1, <1>10 DEF IsInjective
    <2>2. \A i, j \in 1..n : p[i] = p[j] => i = j
      BY <2>1, <1>3, <1>6
    <2>3. \A i, j \in 1..c : t[i] = t[j] => i = j
      <3>1. ASSUME NEW i \in 1..c, NEW j \in 1..c, t[i] = t[j] PROVE i = j
        <4>1. n + i = n + j
          BY <3>1, <2>1, <1>4, <1>7
        <4> QED BY <4>1, <1>1
      <3> QED BY <3>1
    <2>4. ASSUME NEW i \in 1..n, NEW j \in 1..c, p[i] = t[j] PROVE FALSE
      <3>1. i = n + j
        BY ZenonT(40), <2>4, <2>1, <1>3, <1>4, <1>6, <1>7
      <3> QED BY <3>1, <1>7
    <2>5. IsInjective(p) /\ IsInjective(t)
      BY <2>2, <2>3, <1>5 DEF IsInjective
    <2>6. ToSet(p) \cap ToSet(t) = {}
      BY <2>4, <1>5 DEF ToSet
    <2> QED BY <2>5, <2>6
  <1> QED BY <1>1, <1>2, <1>3, <1>4, <1>9, <1>10

LEMMA InsertApart ==
  ASSUME NEW X, NEW s \in Seq(X), NEW x \in X, NEW i \in 1..Len(s)+1
  PROVE  /\ InsertAt(s, i, x) \in Seq(X) /\ Len(InsertAt(s, i, x)) = Len(s) + 1
         /\ ToSet(InsertAt(s, i, x)) = ToSet(s) \cup {x}
         /\ IsInjective(s) /\ x \notin ToSet(s) => IsInjective(InsertAt(s, i, x))
  <1>1. PICK n \in Nat, k \in Nat : n = i - 1 /\ n <= k /\ k = Len(s) /\ n + 1 = i
    <2>1. Len(s) \in Nat
      BY LenProperties
    <2>2. i - 1 \in Nat /\ i - 1 <= Len(s) /\ (i - 1) + 1 = i
      BY <2>1
    <2> QED BY <2>1, <2>2
  <1>2. PICK p, t : p = SubSeq(s, 1, n) /\ t = SubSeq(s, n + 1, Len(s))
    OBVIOUS
  <1>3. /\ p \in Seq(X) /\ Len(p) = n /\ t \in Seq(X)
        /\ ToSet(s) = ToSet(p) \cup ToSet(t)
        /\ IsInjective(s) => /\ IsInjective(p) /\ IsInjective(t)
                             /\ ToSet(p) \cap ToSet(t) = {}
    BY <1>1, <1>2, SplitApart
  <1>4. InsertAt(s, i, x) = (p \o <<x>>) \o t
    BY <1>1, <1>2 DEF InsertAt
  <1>5. Len(t) = k - n /\ Len(t) \in Nat
    <2>1. n + 1 \in Nat /\ n + 1 >= 1 /\ n + 1 <= k + 1 /\ k <= Len(s) /\ k - (n + 1) + 1 = k - n
      BY <1>1
    <2>2. PICK b \in Nat : b = n + 1
      BY <2>1
    <2>3. Len(SubSeq(s, b, k)) = k - b + 1
      BY <2>1, <2>2, PartOf
    <2> QED BY <2>1, <2>2, <2>3, <1>1, <1>2
  <1>6. PICK q : q = p \o <<x>> /\ q = Append(p, x)
    BY <1>3, AppendIsConcat
  <1>7. /\ q \in Seq(X) /\ Len(q) = n + 1 /\ ToSet(q) = ToSet(p) \cup {x}
        /\ IsInjective(p) /\ x \notin ToSet(p) => IsInjective(q)
    <2>1. Append(p, x) \in Seq(X) /\ Len(Append(p, x)) = Len(p) + 1
      BY <1>3, AppendProperties
    <2>2. /\ ToSet(Append(p, x)) = ToSet(p) \cup {x}
          /\ IsInjective(p) /\ x \notin ToSet(p) => IsInjective(Append(p, x))
      BY <1>3, ToSetAppend
    <2> QED BY <2>1, <2>2, <1>3, <1>6
  <1>8. /\ q \o t \in Seq(X) /\ Len(q \o t) = Len(q) + Len(t)
        /\ ToSet(q \o t) = ToSet(q) \cup ToSet(t)
        /\ IsInjective(q) /\ IsInjective(t) /\ ToSet(q) \cap ToSet(t) = {} => IsInjective(q \o t)
    BY <1>3, <1>7, ConcatApart
  <1>9. n + 1 + (k - n) = k + 1
    BY <1>1
  <1>10. Len(q \o t) = k + 1
    BY <1>5, <1>7, <1>8, <1>9
  <1>11. ASSUME IsInjective(s), x \notin ToSet(s) PROVE IsInjective(q \o t)
    <2>1. ToSet(q) \cap ToSet(t) = {} /\ IsInjective(q) /\ IsInjective(t)
      BY <1>3, <1>7, <1>11
    <2> QED BY <2>1, <1>8
  <1> QED BY <1>1, <1>3, <1>4, <1>6, <1>7, <1>8, <1>10, <1>11

LEMMA TailApart ==
  ASSUME NEW X, NEW s \in Seq(X), s # << >>, IsInjective(s)
  PROVE  /\ Tail(s) \in Seq(X) /\ IsInjective(Tail(s)) /\ s[1] \in X
         /\ s[1] \in ToSet(s) /\ ToSet(Tail(s)) = ToSet(s) \ {s[1]}
  <1>1. PICK k \in Nat : k = Len(s) /\ DOMAIN s = 1..k /\ k >= 1 /\ s \in [1..k -> X]
    <2>1. Len(s) \in Nat /\ DOMAIN s = 1..Len(s) /\ s \in [1..Len(s) -> X]
      BY LenProperties
    <2>2. Len(s) # 0
      BY EmptySeq
    <2>3. Len(s) >= 1
      BY <2>1, <2>2
    <2> QED BY <2>1, <2>3
  <1>2. PICK q : /\ q = Tail(s) /\ q \in Seq(X) /\ DOMAIN q = 1..k-1
                 /\ \A i \in 1..k-1 : q[i] = s[i+1]
    <2>1. Tail(s) \in Seq(X) /\ Len(Tail(s)) = k - 1
          /\ \A i \in 1..Len(Tail(s)) : Tail(s)[i] = s[i+1]
      BY <1>1, HeadTailProperties
    <2>2. DOMAIN Tail(s) = 1..k-1
      BY <2>1, LenProperties
    <2> QED BY <2>1, <2>2
  <1>3. \A i, j \in 1..k : s[i] = s[j] => i = j
    BY <1>1 DEF IsInjective
  <1>4. \A i \in 1..k-1 : i + 1 \in 1..k /\ i + 1 # 1
    BY <1>1
  <1>5. \A i \in 1..k : i = 1 \/ \E j \in 1..k-1 : i = j + 1
    <2>1. ASSUME NEW i \in 1..k, i # 1 PROVE \E j \in 1..k-1 : i = j + 1
      <3>1. i - 1 \in 1..k-1 /\ i = (i - 1) + 1
        BY <2>1, <1>1
      <3> QED BY <3>1
    <2> QED BY <2>1
  <1>6. IsInjective(q)
    <2>1. ASSUME NEW i \in 1..k-1, NEW j \in 1..k-1, q[i] = q[j] PROVE i = j
      <3>1. i + 1 = j + 1
        BY <2>1, <1>2, <1>3, <1>4
      <3> QED BY <3>1, <1>1
    <2> QED BY <2>1, <1>2 DEF IsInjective
  <1>7. 1 \in 1..k
    BY <1>1
  <1>8. s[1] \in X /\ s[1] \in ToSet(s)
    BY <1>1, <1>7 DEF ToSet
  <1>9. ToSet(q) = ToSet(s) \ {s[1]}
    <2>1. ASSUME NEW i \in 1..k-1 PROVE q[i] \in ToSet(s) \ {s[1]}
      <3>1. q[i] = s[i+1] /\ i + 1 \in DOMAIN s /\ s[i+1] # s[1]
        BY <1>1, <1>2, <1>3, <1>4, <1>7
      <3> QED BY <3>1 DEF ToSet
    <2>2. ASSUME NEW i \in 1..k, s[i] # s[1] PROVE s[i] \in ToSet(q)
      <3>1. PICK j \in 1..k-1 : i = j + 1
        BY <2>2, <1>5
      <3> QED BY <3>1, <1>2 DEF ToSet
    <2> QED BY <2>1, <2>2, <1>1, <1>2 DEF ToSet
  <1> QED BY <1>2, <1>6, <1>8, <1>9

-----------------------------------------------------------------------------
(* Stacks.                                                                 *)

\* s is r with f on top of its n frames.
Pushed(s, r, f, n) ==
  /\ n = Len(r) /\ DOMAIN r = 1..n /\ Len(s) = n + 1 /\ DOMAIN s = 1..n+1
  /\ \A i \in 1..n : s[i] = r[i] /\ i \in 1..n+1 /\ i # n+1
  /\ s[n+1] = f /\ n+1 \in 1..n+1
  /\ \A i \in 1..n+1 : i \in 1..n \/ i = n+1

LEMMA AppendPushed ==
  ASSUME NEW X, NEW r \in Seq(X), NEW f \in X
  PROVE  Append(r, f) \in Seq(X) /\ \E n \in Nat : Pushed(Append(r, f), r, f, n)
  <1>1. PICK n \in Nat : n = Len(r) /\ DOMAIN r = 1..n
    BY LenProperties
  <1>2. /\ Append(r, f) \in Seq(X) /\ Len(Append(r, f)) = n + 1
        /\ \A i \in 1..n : Append(r, f)[i] = r[i]
        /\ Append(r, f)[n+1] = f
    BY <1>1, AppendProperties
  <1>3. DOMAIN Append(r, f) = 1..n+1
    BY <1>2, LenProperties
  <1>4. n+1 \in 1..n+1 /\ (\A i \in 1..n : i \in 1..n+1 /\ i # n+1)
        /\ \A i \in 1..n+1 : i \in 1..n \/ i = n+1
    BY <1>1
  <1>5. Pushed(Append(r, f), r, f, n)
    BY <1>1, <1>2, <1>3, <1>4 DEF Pushed
  <1> QED BY <1>2, <1>5

LEMMA AppendWaits ==
  ASSUME NEW r \in Seq(Frames), NEW f \in Frames, NEW u
  PROVE  WaitsOf(Append(r, f), u)
           = WaitsOf(r, u) \cup (IF f.at \in Waiting /\ f.peer = u THEN {f.msg} ELSE {})
  <1>1. PICK s \in Seq(Frames), n \in Nat : s = Append(r, f) /\ Pushed(s, r, f, n)
    BY AppendPushed
  <1>2. /\ DOMAIN r = 1..n /\ DOMAIN s = 1..n+1
        /\ \A i \in 1..n : s[i] = r[i] /\ i \in 1..n+1
        /\ s[n+1] = f /\ n+1 \in 1..n+1
        /\ \A i \in 1..n+1 : i \in 1..n \/ i = n+1
    BY <1>1 DEF Pushed
  <1>3. ASSUME NEW m PROVE m \in WaitsOf(s, u) <=>
          \E i \in 1..n+1 : s[i].at \in Waiting /\ s[i].peer = u /\ m = s[i].msg
    BY <1>2 DEF WaitsOf
  <1>4. ASSUME NEW m PROVE m \in WaitsOf(r, u) <=>
          \E i \in 1..n : r[i].at \in Waiting /\ r[i].peer = u /\ m = r[i].msg
    BY <1>2 DEF WaitsOf
  <1>5. ASSUME NEW m PROVE m \in WaitsOf(s, u) <=>
          m \in WaitsOf(r, u) \/ (f.at \in Waiting /\ f.peer = u /\ m = f.msg)
    BY <1>2, <1>3, <1>4
  <1> QED BY <1>1, <1>5

LEMMA AppendHandles ==
  ASSUME NEW r \in Seq(Frames), NEW f \in Frames, NEW u
  PROVE  HandlesOf(Append(r, f), u)
           = HandlesOf(r, u) \cup (IF f.at \in Taken /\ f.peer = u THEN {f.msg} ELSE {})
  <1>1. PICK s \in Seq(Frames), n \in Nat : s = Append(r, f) /\ Pushed(s, r, f, n)
    BY AppendPushed
  <1>2. /\ DOMAIN r = 1..n /\ DOMAIN s = 1..n+1
        /\ \A i \in 1..n : s[i] = r[i] /\ i \in 1..n+1
        /\ s[n+1] = f /\ n+1 \in 1..n+1
        /\ \A i \in 1..n+1 : i \in 1..n \/ i = n+1
    BY <1>1 DEF Pushed
  <1>3. ASSUME NEW m PROVE m \in HandlesOf(s, u) <=>
          \E i \in 1..n+1 : s[i].at \in Taken /\ s[i].peer = u /\ m = s[i].msg
    BY <1>2 DEF HandlesOf
  <1>4. ASSUME NEW m PROVE m \in HandlesOf(r, u) <=>
          \E i \in 1..n : r[i].at \in Taken /\ r[i].peer = u /\ m = r[i].msg
    BY <1>2 DEF HandlesOf
  <1>5. ASSUME NEW m PROVE m \in HandlesOf(s, u) <=>
          m \in HandlesOf(r, u) \/ (f.at \in Taken /\ f.peer = u /\ m = f.msg)
    BY <1>2, <1>3, <1>4
  <1> QED BY <1>1, <1>5

LEMMA AppendHandling ==
  ASSUME NEW r \in Seq(Frames), NEW f \in Frames
  PROVE  Handling(Append(r, f))
           = Handling(r) \cup (IF f.at = "OnMessage" THEN {f.msg} ELSE {})
  <1>1. PICK s \in Seq(Frames), n \in Nat : s = Append(r, f) /\ Pushed(s, r, f, n)
    BY AppendPushed
  <1>2. /\ DOMAIN r = 1..n /\ DOMAIN s = 1..n+1
        /\ \A i \in 1..n : s[i] = r[i] /\ i \in 1..n+1
        /\ s[n+1] = f /\ n+1 \in 1..n+1
        /\ \A i \in 1..n+1 : i \in 1..n \/ i = n+1
    BY <1>1 DEF Pushed
  <1>3. ASSUME NEW m PROVE m \in Handling(s) <=>
          \E i \in 1..n+1 : s[i].at = "OnMessage" /\ m = s[i].msg
    BY <1>2 DEF Handling
  <1>4. ASSUME NEW m PROVE m \in Handling(r) <=>
          \E i \in 1..n : r[i].at = "OnMessage" /\ m = r[i].msg
    BY <1>2 DEF Handling
  <1>5. ASSUME NEW m PROVE m \in Handling(s) <=>
          m \in Handling(r) \/ (f.at = "OnMessage" /\ m = f.msg)
    BY <1>2, <1>3, <1>4
  <1> QED BY <1>1, <1>5

LEMMA AppendCarries ==
  ASSUME NEW r \in Seq(Frames), NEW f \in Frames
  PROVE  Carries(Append(r, f)) = IF f.at \in InHand THEN {f.msg} ELSE {}
  <1>1. Last(Append(r, f)) = f
    BY FrontOfAppend
  <1> QED BY <1>1 DEF Carries

LEMMA AppendHandlesApart ==
  ASSUME NEW r \in Seq(Frames), NEW f \in Frames
  PROVE  HandlesApart(Append(r, f)) <=>
           HandlesApart(r) /\ (f.at = "OnMessage" => f.msg \notin Handling(r))
  <1>1. PICK s \in Seq(Frames), n \in Nat : s = Append(r, f) /\ Pushed(s, r, f, n)
    BY AppendPushed
  <1>2. /\ DOMAIN r = 1..n /\ DOMAIN s = 1..n+1
        /\ \A i \in 1..n : s[i] = r[i] /\ i \in 1..n+1 /\ i # n+1
        /\ s[n+1] = f /\ n+1 \in 1..n+1
        /\ \A i \in 1..n+1 : i \in 1..n \/ i = n+1
    BY <1>1 DEF Pushed
  <1>3. ASSUME NEW m PROVE m \in Handling(r) <=>
          \E i \in 1..n : r[i].at = "OnMessage" /\ m = r[i].msg
    BY <1>2 DEF Handling
  <1>4. ASSUME HandlesApart(s)
        PROVE  HandlesApart(r) /\ (f.at = "OnMessage" => f.msg \notin Handling(r))
    BY <1>2, <1>3, <1>4 DEF HandlesApart
  <1>5. ASSUME HandlesApart(r), f.at = "OnMessage" => f.msg \notin Handling(r)
        PROVE  HandlesApart(s)
    <2>1. ASSUME NEW i \in 1..n+1, NEW j \in 1..n+1,
                 s[i].at = "OnMessage", s[j].at = "OnMessage", s[i].msg = s[j].msg
          PROVE  i = j
      <3>1. CASE i \in 1..n /\ j \in 1..n
        BY <3>1, <2>1, <1>2, <1>5 DEF HandlesApart
      <3>2. CASE i \in 1..n /\ j = n+1
        BY <3>2, <2>1, <1>2, <1>3, <1>5
      <3>3. CASE i = n+1 /\ j \in 1..n
        BY <3>3, <2>1, <1>2, <1>3, <1>5
      <3> QED BY <3>1, <3>2, <3>3, <1>2
    <2> QED BY <2>1, <1>2 DEF HandlesApart
  <1> QED BY <1>1, <1>4, <1>5

LEMMA AppendSendsAway ==
  ASSUME NEW t, NEW r \in Seq(Frames), NEW f \in Frames
  PROVE  SendsAway(t, Append(r, f)) <=>
           SendsAway(t, r) /\ (f.at \in {"Send"} \cup Waiting => f.peer # t)
  <1>1. PICK s \in Seq(Frames), n \in Nat : s = Append(r, f) /\ Pushed(s, r, f, n)
    BY AppendPushed
  <1>2. /\ DOMAIN r = 1..n /\ DOMAIN s = 1..n+1
        /\ \A i \in 1..n : s[i] = r[i] /\ i \in 1..n+1
        /\ s[n+1] = f /\ n+1 \in 1..n+1
        /\ \A i \in 1..n+1 : i \in 1..n \/ i = n+1
    BY <1>1 DEF Pushed
  <1>3. SendsAway(t, s) <=>
          SendsAway(t, r) /\ (f.at \in {"Send"} \cup Waiting => f.peer # t)
    BY <1>2 DEF SendsAway
  <1> QED BY <1>1, <1>3

LEMMA AppendShape ==
  ASSUME NEW r \in Seq(Frames), NEW f \in Frames
  PROVE  /\ r = << >> => (Shape(Append(r, f)) <=> f.at \in InGet)
         /\ r # << >> => (Shape(Append(r, f)) <=> Shape(r) /\ Follows(Last(r), f))
  <1>1. PICK s \in Seq(Frames), n \in Nat : s = Append(r, f) /\ Pushed(s, r, f, n)
    BY AppendPushed
  <1>2. /\ n = Len(r) /\ DOMAIN r = 1..n /\ Len(s) = n+1
        /\ \A i \in 1..n : s[i] = r[i] /\ i \in 1..n+1
        /\ s[n+1] = f
    BY <1>1 DEF Pushed
  <1>3. ASSUME r = << >> PROVE Shape(s) <=> f.at \in InGet
    <2>1. n = 0 /\ Len(s) = 1 /\ s[1] = f /\ 1..Len(s)-1 = {}
      BY <1>2, <1>3
    <2> QED BY <2>1 DEF Shape
  <1>4. ASSUME r # << >> PROVE Shape(s) <=> Shape(r) /\ Follows(Last(r), f)
    <2>1. n # 0
      BY <1>2, <1>4, EmptySeq
    <2>2. n >= 1 /\ n+1 >= 1 /\ 1 \in 1..n /\ n \in 1..n /\ n+1-1 = n
      BY <2>1
    <2>3. Last(r) = r[n] /\ s[n] = r[n] /\ s[1] = r[1]
      BY <1>2, <2>2 DEF Last
    <2>4. \A i \in 1..n-1 : i \in 1..n /\ i+1 \in 1..n
      BY <2>2
    <2>5. \A i \in 1..n : i \in 1..n-1 \/ i = n
      BY <2>2
    <2>6. \A i \in 1..n-1 : s[i] = r[i] /\ s[i+1] = r[i+1]
      BY <2>4, <1>2
    <2>7. (\A i \in 1..n : Follows(s[i], s[i+1])) <=>
            (\A i \in 1..n-1 : Follows(r[i], r[i+1])) /\ Follows(Last(r), f)
      BY <1>2, <2>2, <2>3, <2>4, <2>5, <2>6
    <2>8. Shape(s) <=> s[1].at \in InGet /\ \A i \in 1..n : Follows(s[i], s[i+1])
      BY <1>2, <2>2 DEF Shape
    <2>9. Shape(r) <=> r[1].at \in InGet /\ \A i \in 1..n-1 : Follows(r[i], r[i+1])
      BY <1>2, <2>2 DEF Shape
    <2> QED BY <2>3, <2>7, <2>8, <2>9
  <1> QED BY <1>1, <1>3, <1>4

LEMMA EmptyStack ==
  /\ Handling(<< >>) = {} /\ HandlesApart(<< >>)
  /\ \A u : WaitsOf(<< >>, u) = {} /\ HandlesOf(<< >>, u) = {} /\ SendsAway(u, << >>)
  BY DEF Handling, HandlesApart, WaitsOf, HandlesOf, SendsAway

\* When a frame may be put on a stack.
LEMMA AppendLegal ==
  ASSUME NEW t, NEW r \in Seq(Frames), NEW f \in Frames
  PROVE  /\ r = << >> => (Legal(t, Append(r, f)) <=> f.at \in InGet)
         /\ r # << >> => (Legal(t, Append(r, f)) <=>
                            /\ Legal(t, r) /\ Follows(Last(r), f)
                            /\ f.at = "OnMessage" => f.msg \notin Handling(r)
                            /\ f.at \in {"Send"} \cup Waiting => f.peer # t)
  <1>1. ASSUME r = << >> PROVE Legal(t, Append(r, f)) <=> f.at \in InGet
    <2>1. Handling(r) = {} /\ HandlesApart(r) /\ SendsAway(t, r)
      BY <1>1, EmptyStack
    <2>2. f.at \in InGet => f.at # "OnMessage" /\ f.at \notin {"Send"} \cup Waiting
      BY DEF InGet, Waiting
    <2>3. Shape(Append(r, f)) <=> f.at \in InGet
      BY <1>1, AppendShape
    <2> QED BY <2>1, <2>2, <2>3, AppendHandlesApart, AppendSendsAway DEF Legal
  <1>2. ASSUME r # << >>
        PROVE  Legal(t, Append(r, f)) <=>
                 /\ Legal(t, r) /\ Follows(Last(r), f)
                 /\ f.at = "OnMessage" => f.msg \notin Handling(r)
                 /\ f.at \in {"Send"} \cup Waiting => f.peer # t
    <2>1. Shape(Append(r, f)) <=> Shape(r) /\ Follows(Last(r), f)
      BY <1>2, AppendShape
    <2> QED BY <2>1, AppendHandlesApart, AppendSendsAway DEF Legal
  <1> QED BY <1>1, <1>2

-----------------------------------------------------------------------------
(* Lists of sent messages.                                                 *)

LEMMA ListAppend ==
  ASSUME NEW l \in Seq(Sent), NEW e \in Sent
  PROVE  /\ Append(l, e) \in Seq(Sent)
         /\ MsgsOf(Append(l, e)) = MsgsOf(l) \cup {e.msg}
         /\ \A a : MsgsBy(Append(l, e), a)
                     = MsgsBy(l, a) \cup (IF e.thread = a THEN {e.msg} ELSE {})
         /\ MsgsApart(l) /\ e.msg \notin MsgsOf(l) => MsgsApart(Append(l, e))
         /\ \A a : NotFrom(l, a) /\ e.thread # a => NotFrom(Append(l, e), a)
  <1>1. PICK s \in Seq(Sent), n \in Nat : s = Append(l, e) /\ Pushed(s, l, e, n)
    BY AppendPushed
  <1>2. /\ DOMAIN l = 1..n /\ DOMAIN s = 1..n+1
        /\ \A i \in 1..n : s[i] = l[i] /\ i \in 1..n+1 /\ i # n+1
        /\ s[n+1] = e /\ n+1 \in 1..n+1
        /\ \A i \in 1..n+1 : i \in 1..n \/ i = n+1
    BY <1>1 DEF Pushed
  <1>3. MsgsOf(s) = MsgsOf(l) \cup {e.msg}
    BY <1>2 DEF MsgsOf
  <1>4. ASSUME NEW a PROVE MsgsBy(s, a) = MsgsBy(l, a) \cup (IF e.thread = a THEN {e.msg} ELSE {})
    <2>1. ASSUME NEW m PROVE m \in MsgsBy(s, a) <=>
            \E i \in 1..n+1 : s[i].thread = a /\ m = s[i].msg
      BY <1>2 DEF MsgsBy
    <2>2. ASSUME NEW m PROVE m \in MsgsBy(l, a) <=>
            \E i \in 1..n : l[i].thread = a /\ m = l[i].msg
      BY <1>2 DEF MsgsBy
    <2>3. ASSUME NEW m PROVE m \in MsgsBy(s, a) <=>
            m \in MsgsBy(l, a) \/ (e.thread = a /\ m = e.msg)
      BY <1>2, <2>1, <2>2
    <2> QED BY <2>3
  <1>5. ASSUME MsgsApart(l), e.msg \notin MsgsOf(l) PROVE MsgsApart(s)
    BY <1>2, <1>5 DEF MsgsApart, MsgsOf
  <1>6. ASSUME NEW a, NotFrom(l, a), e.thread # a PROVE NotFrom(s, a)
    BY <1>2, <1>6 DEF NotFrom
  <1> QED BY <1>1, <1>3, <1>4, <1>5, <1>6

\* q is the list l without the messages in S.
ListWithout(q, l, S) ==
  /\ MsgsOf(q) = MsgsOf(l) \ S
  /\ \A a : MsgsBy(q, a) = MsgsBy(l, a) \ S
  /\ MsgsApart(q)
  /\ \A a : NotFrom(l, a) => NotFrom(q, a)

LEMMA ListSub ==
  ASSUME NEW l, NEW q, NEW keep \in SUBSET DOMAIN l, SubOf(q, l, keep), MsgsApart(l), NEW S,
         \A i \in DOMAIN l : i \in keep <=> l[i].msg \notin S
  PROVE  ListWithout(q, l, S)
  <1>1. PICK f \in [DOMAIN q -> keep] :
          /\ \A k \in DOMAIN q : q[k] = l[f[k]]
          /\ \A k, j \in DOMAIN q : f[k] = f[j] => k = j
          /\ \A i \in keep : \E k \in DOMAIN q : f[k] = i
    BY DEF SubOf
  <1>2. \A k \in DOMAIN q : f[k] \in keep /\ f[k] \in DOMAIN l
    BY <1>1
  <1>3. MsgsOf(q) = MsgsOf(l) \ S
    <2>1. ASSUME NEW m PROVE m \in MsgsOf(q) <=> m \in MsgsOf(l) /\ m \notin S
      BY <1>1, <1>2 DEF MsgsOf
    <2> QED BY <2>1
  <1>4. ASSUME NEW a PROVE MsgsBy(q, a) = MsgsBy(l, a) \ S
    <2>1. ASSUME NEW m PROVE m \in MsgsBy(q, a) <=>
            \E k \in DOMAIN q : q[k].thread = a /\ m = q[k].msg
      BY DEF MsgsBy
    <2>2. ASSUME NEW m PROVE m \in MsgsBy(l, a) <=>
            \E i \in DOMAIN l : l[i].thread = a /\ m = l[i].msg
      BY DEF MsgsBy
    <2>3. ASSUME NEW m PROVE m \in MsgsBy(q, a) <=> m \in MsgsBy(l, a) /\ m \notin S
      BY <2>1, <2>2, <1>1, <1>2
    <2> QED BY <2>3
  <1>5. MsgsApart(q)
    BY <1>1, <1>2 DEF MsgsApart
  <1>6. ASSUME NEW a, NotFrom(l, a) PROVE NotFrom(q, a)
    BY <1>1, <1>2, <1>6 DEF NotFrom
  <1> QED BY <1>3, <1>4, <1>5, <1>6 DEF ListWithout

LEMMA SubsetsOf ==
  \A l, a : MsgsBy(l, a) \subseteq MsgsOf(l)
  BY DEF MsgsBy, MsgsOf

\* Nothing is called before a popped message is dispatched: its frame is on top.
LEMMA DispatchOnTop ==
  ASSUME NEW s \in Seq(Frames), Shape(s), NEW i \in DOMAIN s, s[i].at = "Dispatch"
  PROVE  s[i] = Last(s) /\ s[i].msg \in Carries(s)
  <1>1. PICK n \in Nat : n = Len(s) /\ i \in 1..n
    BY LenProperties
  <1>2. CASE i = n
    <2>1. s[i] = Last(s)
      BY <1>1, <1>2 DEF Last
    <2> QED BY <2>1 DEF Carries, InHand
  <1>3. CASE i # n
    <2>1. i \in 1..n-1
      BY <1>1, <1>3
    <2>2. Follows(s[i], s[i+1])
      BY <1>1, <2>1 DEF Shape
    <2> QED BY <2>2 DEF Follows
  <1> QED BY <1>2, <1>3

LEMMA HandlesOfWhat ==
  ASSUME NEW s \in Seq(Frames), Shape(s), NEW u
  PROVE  HandlesOf(s, u) \subseteq Handling(s) \cup Carries(s)
  <1>1. ASSUME NEW i \in DOMAIN s, s[i].at \in Taken
        PROVE  s[i].msg \in Handling(s) \cup Carries(s)
    <2>1. CASE s[i].at = "Dispatch"
      BY <2>1, DispatchOnTop
    <2>2. CASE s[i].at = "OnMessage"
      BY <2>2 DEF Handling
    <2> QED BY <1>1, <2>1, <2>2 DEF Taken
  <1> QED BY <1>1 DEF HandlesOf

\* A message belongs to one sender.
LEMMA OneSender ==
  ASSUME NEW l, MsgsApart(l), NEW i \in DOMAIN l, NEW a
  PROVE  l[i].msg \in MsgsBy(l, a) <=> l[i].thread = a
  BY DEF MsgsApart, MsgsBy

-----------------------------------------------------------------------------
(* States.                                                                 *)

\* The active calls of a thread are those below the top one, and that one.
LEMMA StackOf ==
  ASSUME Typed, Stacks, NEW t \in Threads
  PROVE  \E r \in Seq(Frames), f \in Frames :
           /\ stack[t] = Append(r, f) /\ Top(t) = f /\ Front(stack[t]) = r
           /\ Legal(t, Append(r, f))
           /\ r = << >> => f.at \in InGet
           /\ r # << >> => Legal(t, r) /\ Follows(Last(r), f)
                           /\ (f.at = "OnMessage" => f.msg \notin Handling(r))
  <1>1. stack[t] \in Seq(Frames) /\ Legal(t, stack[t])
    BY DEF Typed, Stacks
  <1>2. Len(stack[t]) >= 1
    BY <1>1 DEF Legal, Shape
  <1>3. PICK r \in Seq(Frames), f \in Frames :
          stack[t] = Append(r, f) /\ Top(t) = f /\ Front(stack[t]) = r
    BY <1>1, <1>2, FrontLast DEF Top
  <1>4. Legal(t, Append(r, f))
    BY <1>1, <1>3
  <1>5. r = << >> => f.at \in InGet
    BY <1>4, AppendLegal
  <1>6. r # << >> => Legal(t, r) /\ Follows(Last(r), f)
                     /\ (f.at = "OnMessage" => f.msg \notin Handling(r))
    BY <1>4, AppendLegal
  <1> QED BY <1>3, <1>4, <1>5, <1>6

LEMMA HoldsIs ==
  ASSUME NEW t
  PROVE  /\ Holds("posted", t) = ToSet(msgq_[t])
         /\ Holds("delayed", t) = ToSet(dmsgq_[t])
         /\ Holds("sent", t) = MsgsOf(sendlist_[t])
         /\ Holds("carried", t) = Carries(stack[t])
         /\ Holds("handling", t) = Handling(stack[t])
         /\ Holds("posted", t)' = ToSet(msgq_'[t])
         /\ Holds("delayed", t)' = ToSet(dmsgq_'[t])
         /\ Holds("sent", t)' = MsgsOf(sendlist_'[t])
         /\ Holds("carried", t)' = Carries(stack'[t])
         /\ Holds("handling", t)' = Handling(stack'[t])
  BY DEF Holds

\* Nothing but X changes its place, and it is then in one place only.
LEMMA MovesApart ==
  ASSUME Separate, NEW k0 \in Kinds, NEW t0 \in Threads, NEW X,
         \A k \in Kinds, t \in Threads :
           k # k0 \/ t # t0 => Holds(k, t)' \subseteq Holds(k, t) \ X,
         Holds(k0, t0)' \subseteq Holds(k0, t0) \cup X
  PROVE  Separate'
  <1>1. ASSUME NEW k \in Kinds, NEW l \in Kinds, NEW t \in Threads, NEW u \in Threads,
               k # l \/ t # u, NEW m, m \in Holds(k, t)', m \in Holds(l, u)'
        PROVE  FALSE
    BY <1>1 DEF Separate
  <1> QED BY <1>1 DEF Separate

LEMMA AliveIs ==
  ASSUME NEW t, NEW u
  PROVE  /\ Awaited(t, u) = WaitsOf(stack[t], u) \ ready
         /\ Owed(t, u) = MsgsBy(sendlist_[u], t) \cup HandlesOf(stack[u], t)
         /\ Awaited(t, u)' = WaitsOf(stack'[t], u) \ ready'
         /\ Owed(t, u)' = MsgsBy(sendlist_'[u], t) \cup HandlesOf(stack'[u], t)
  BY DEF Awaited, Owed, WaitsOf, MsgsBy, HandlesOf, Waiting, Taken

\* The stack of one thread changes.
LEMMA StacksStep ==
  ASSUME Typed, Stacks, NEW t \in Threads, NEW s, Legal(t, s),
         stack' = [stack EXCEPT ![t] = s]
  PROVE  Stacks' /\ stack'[t] = s /\ \A u \in Threads : u # t => stack'[u] = stack[u]
  <1>1. stack'[t] = s /\ \A u \in Threads : u # t => stack'[u] = stack[u]
    BY DEF Typed
  <1>2. \A u \in Threads : Legal(u, stack'[u])
    BY <1>1 DEF Stacks
  <1> QED BY <1>1, <1>2 DEF Stacks, Legal, Shape, HandlesApart, SendsAway

\* A step that neither sends a message nor receives one or is told of its end.
LEMMA SendsStep ==
  ASSUME Typed, Sends, ReadyAlive, NEW t \in Threads, NEW s,
         stack' = [stack EXCEPT ![t] = s],
         \A u \in Threads : /\ HandlesOf(s, u) = HandlesOf(stack[t], u)
                            /\ WaitsOf(s, u) \ ready = WaitsOf(stack[t], u) \ ready,
         sendlist_' = sendlist_, ready' = ready
  PROVE  Sends' /\ ReadyAlive'
  <1>1. stack'[t] = s /\ \A u \in Threads : u # t => stack'[u] = stack[u]
    BY DEF Typed
  <1>2. \A v, u \in Threads : HandlesOf(stack'[v], u) = HandlesOf(stack[v], u)
    BY <1>1
  <1>3. \A v, u \in Threads : WaitsOf(stack'[v], u) \ ready = WaitsOf(stack[v], u) \ ready
    BY <1>1
  <1>4. Sends'
    <2>1. \A v \in Threads : /\ NotFrom(sendlist_[v], v)
                             /\ \A u \in Threads : HandlesOf(stack'[v], u) \cap ready = {}
                             /\ HandlesOf(stack'[v], v) = {}
      BY <1>2 DEF Sends
    <2> QED BY <2>1 DEF Sends, NotFrom, HandlesOf
  <1>5. ReadyAlive'
    <2>1. ASSUME NEW v \in Threads, NEW u \in Threads, v # u
          PROVE  Awaited(v, u)' = Owed(v, u)'
      <3>1. Awaited(v, u)' = Awaited(v, u)
        <4>1. Awaited(v, u)' = WaitsOf(stack'[v], u) \ ready
          BY AliveIs
        <4>2. Awaited(v, u) = WaitsOf(stack[v], u) \ ready
          BY AliveIs
        <4> QED BY <1>3, <4>1, <4>2
      <3>2. Owed(v, u)' = Owed(v, u)
        BY <1>2, AliveIs
      <3> QED BY <3>1, <3>2, <2>1 DEF ReadyAlive
    <2> QED BY <2>1 DEF ReadyAlive
  <1> QED BY <1>4, <1>5

\* A step that only moves on in the code of one thread.
LEMMA QuietStep ==
  ASSUME IndInv, Typed', NEW t \in Threads, NEW s, Legal(t, s),
         stack' = [stack EXCEPT ![t] = s],
         Handling(s) \subseteq Handling(stack[t]), Carries(s) \subseteq Carries(stack[t]),
         \A u \in Threads : /\ HandlesOf(s, u) = HandlesOf(stack[t], u)
                            /\ WaitsOf(s, u) \ ready = WaitsOf(stack[t], u) \ ready,
         UNCHANGED <<msgq_, dmsgq_, sendlist_, ready, made, handled, gone>>
  PROVE  IndInv'
  <1>1. Typed /\ Stacks /\ Apart /\ Untouched /\ Sends /\ ReadyAlive
    BY DEF IndInv
  <1>2. Stacks' /\ stack'[t] = s /\ \A u \in Threads : u # t => stack'[u] = stack[u]
    BY <1>1, StacksStep
  <1>3. Sends' /\ ReadyAlive'
    BY <1>1, SendsStep
  <1>4. \A u \in Threads : /\ Handling(stack'[u]) \subseteq Handling(stack[u])
                           /\ Carries(stack'[u]) \subseteq Carries(stack[u])
    BY <1>2
  <1>5. \A k \in Kinds, u \in Threads : Holds(k, u)' \subseteq Holds(k, u)
    BY <1>4, HoldsIs DEF Kinds
  <1>6. Separate'
    <2>1. ASSUME NEW k \in Kinds, NEW l \in Kinds, NEW u \in Threads, NEW v \in Threads,
                 k # l \/ u # v
          PROVE  Holds(k, u)' \cap Holds(l, v)' = {}
      <3>1. Holds(k, u) \cap Holds(l, v) = {}
        BY <1>1, <2>1 DEF Apart, Separate
      <3> QED BY <1>5, <3>1
    <2> QED BY <2>1 DEF Separate
  <1>7. Apart'
    BY <1>1, <1>6 DEF Apart, MsgsApart, IsInjective
  <1>8. Untouched'
    <2>1. \A k \in Kinds \ {"handling"} : \A u \in Threads :
            Holds(k, u)' \subseteq (1..made) \ (handled \cup gone)
      BY <1>1, <1>5 DEF Untouched
    <2>2. \A u \in Threads : Handling(stack'[u]) \subseteq handled
      BY <1>1, <1>4 DEF Untouched
    <2>3. \A u \in Threads : Handling(stack[u])' \subseteq handled'
      BY <2>2 DEF Handling
    <2> QED BY <1>1, <2>1, <2>3 DEF Untouched
  <1> QED BY <1>2, <1>3, <1>7, <1>8 DEF IndInv

-----------------------------------------------------------------------------
(* Steps that only move on.                                                *)

LEMMA FrameIn ==
  ASSUME NEW at \in Places, NEW peer \in Threads \cup {NoThread}, NEW msg \in 0..MaxMessages
  PROVE  /\ Frame(at, peer, msg) \in Frames
         /\ Frame(at, peer, msg).at = at /\ Frame(at, peer, msg).peer = peer
         /\ Frame(at, peer, msg).msg = msg
  BY DEF Frame, Frames

LEMMA FrameAt ==
  ASSUME NEW f \in Frames, NEW at \in Places
  PROVE  \E g \in Frames : /\ g = [f EXCEPT !.at = at]
                           /\ g.at = at /\ g.peer = f.peer /\ g.msg = f.msg
  <1>1. PICK g : g = [f EXCEPT !.at = at]
    OBVIOUS
  <1>2. g = [at |-> at, peer |-> f.peer, msg |-> f.msg, waited |-> f.waited]
    BY <1>1 DEF Frames
  <1>3. g \in Frames /\ g.at = at /\ g.peer = f.peer /\ g.msg = f.msg
    BY <1>2 DEF Frames
  <1> QED BY <1>1, <1>3

LEMMA PushedIsThere ==
  ASSUME NEW r \in Seq(Frames), NEW f \in Frames
  PROVE  Append(r, f) \in Seq(Frames) /\ Append(r, f) # << >> /\ Last(Append(r, f)) = f
  <1>1. Append(r, f) \in Seq(Frames) /\ Len(Append(r, f)) = Len(r) + 1 /\ Len(r) \in Nat
    BY AppendProperties, LenProperties
  <1>2. PICK s \in Seq(Frames) : s = Append(r, f) /\ Len(s) = Len(r) + 1
    BY <1>1
  <1>3. Len(s) # 0
    BY <1>1, <1>2
  <1>4. s # << >>
    BY <1>3, EmptySeq
  <1> QED BY <1>2, <1>4, FrontOfAppend

\* A frame that is neither a handler's nor holds a message.
LEMMA PlainFrame ==
  ASSUME NEW r \in Seq(Frames), NEW g \in Frames,
         g.at \notin InHand \cup Waiting, g.at # "OnMessage"
  PROVE  /\ Handling(Append(r, g)) = Handling(r) /\ Carries(Append(r, g)) = {}
         /\ \A u : /\ WaitsOf(Append(r, g), u) = WaitsOf(r, u)
                   /\ HandlesOf(Append(r, g), u) = HandlesOf(r, u)
  <1>1. Handling(Append(r, g)) = Handling(r)
    BY AppendHandling
  <1>2. Carries(Append(r, g)) = {}
    BY AppendCarries
  <1>3. g.at \notin Taken
    BY DEF Taken, InHand
  <1>4. ASSUME NEW u PROVE WaitsOf(Append(r, g), u) = WaitsOf(r, u)
    <2>1. WaitsOf(Append(r, g), u)
            = WaitsOf(r, u) \cup (IF g.at \in Waiting /\ g.peer = u THEN {g.msg} ELSE {})
      BY AppendWaits
    <2> QED BY <2>1
  <1>5. ASSUME NEW u PROVE HandlesOf(Append(r, g), u) = HandlesOf(r, u)
    <2>1. HandlesOf(Append(r, g), u)
            = HandlesOf(r, u) \cup (IF g.at \in Taken /\ g.peer = u THEN {g.msg} ELSE {})
      BY AppendHandles
    <2> QED BY <1>3, <2>1
  <1> QED BY <1>1, <1>2, <1>4, <1>5

\* A frame of Send.
LEMMA WaitingFrame ==
  ASSUME NEW r \in Seq(Frames), NEW g \in Frames, g.at \in Waiting
  PROVE  /\ Handling(Append(r, g)) = Handling(r) /\ Carries(Append(r, g)) = {}
         /\ \A u : /\ WaitsOf(Append(r, g), u)
                        = WaitsOf(r, u) \cup (IF g.peer = u THEN {g.msg} ELSE {})
                   /\ HandlesOf(Append(r, g), u) = HandlesOf(r, u)
  <1>1. g.at # "OnMessage" /\ g.at \notin InHand /\ g.at \notin Taken
    BY DEF Waiting, InHand, Posting, Taken
  <1>2. Handling(Append(r, g)) = Handling(r)
    BY <1>1, AppendHandling
  <1>3. Carries(Append(r, g)) = {}
    BY <1>1, AppendCarries
  <1>4. ASSUME NEW u
        PROVE  WaitsOf(Append(r, g), u) = WaitsOf(r, u) \cup (IF g.peer = u THEN {g.msg} ELSE {})
    BY AppendWaits
  <1>5. ASSUME NEW u PROVE HandlesOf(Append(r, g), u) = HandlesOf(r, u)
    <2>1. HandlesOf(Append(r, g), u)
            = HandlesOf(r, u) \cup (IF g.at \in Taken /\ g.peer = u THEN {g.msg} ELSE {})
      BY AppendHandles
    <2> QED BY <1>1, <2>1
  <1> QED BY <1>2, <1>3, <1>4, <1>5

\* What lies below the top frame.
LEMMA Below ==
  ASSUME NEW r \in Seq(Frames), NEW f \in Frames, Follows(Last(r), f)
  PROVE  Carries(r) = {} /\ f.at \notin InGet
  BY DEF Follows, Carries, InGet, InHand, Taken, Posting, Waiting

LEMMA GetStack ==
  ASSUME NEW t
  PROVE  /\ Get \in Seq(Frames) /\ Get # << >> /\ Legal(t, Get)
         /\ Handling(Get) = {} /\ Carries(Get) = {}
         /\ \A u : WaitsOf(Get, u) = {} /\ HandlesOf(Get, u) = {}
         /\ Last(Get).at = "ReceiveSends" /\ Last(Get).peer = NoThread
  <1>1. PICK a \in Frames, b \in Frames :
          /\ a = Frame("queue", NoThread, 0) /\ b = Frame("ReceiveSends", NoThread, 0)
          /\ a.at = "queue" /\ b.at = "ReceiveSends" /\ b.peer = NoThread
    <2>1. 0 \in 0..MaxMessages /\ "queue" \in Places /\ "ReceiveSends" \in Places
      BY RtcThreadAssumption DEF Places
    <2> QED BY <2>1, FrameIn
  <1>2. PICK e \in Seq(Frames) : e = << >> /\ Len(e) = 0
    BY EmptySeq
  <1>3. PICK s \in Seq(Frames) : s = Append(e, a) /\ s # << >> /\ Last(s) = a
    BY PushedIsThere
  <1>4. Get = Append(s, b)
    BY <1>1, <1>2, <1>3 DEF Get
  <1>5. Get \in Seq(Frames) /\ Get # << >> /\ Last(Get) = b
    BY <1>4, PushedIsThere
  <1>6. /\ a.at \notin InHand \cup Waiting /\ a.at # "OnMessage" /\ a.at \in InGet
        /\ b.at \notin InHand \cup Waiting /\ b.at # "OnMessage"
        /\ b.at \notin {"Send"} \cup Waiting /\ Follows(a, b)
    BY <1>1 DEF InHand, Posting, Waiting, InGet, Follows
  <1>7. Legal(t, s)
    BY <1>2, <1>3, <1>6, AppendLegal
  <1>8. Legal(t, Append(s, b))
    BY <1>3, <1>6, <1>7, AppendLegal
  <1>9. /\ Handling(s) = {} /\ \A u : WaitsOf(s, u) = {} /\ HandlesOf(s, u) = {}
    BY <1>2, <1>3, <1>6, PlainFrame, EmptyStack
  <1>10. /\ Handling(Append(s, b)) = {} /\ Carries(Append(s, b)) = {}
         /\ \A u : WaitsOf(Append(s, b), u) = {} /\ HandlesOf(Append(s, b), u) = {}
    BY <1>6, <1>9, PlainFrame
  <1> QED BY <1>1, <1>4, <1>5, <1>8, <1>10

\* The bottom frame goes on.
LEMMA GetMoves ==
  ASSUME IndInv, Typed', NEW t \in Threads, NEW at \in InGet, Top(t).at \in InGet,
         Go(t, at), UNCHANGED <<msgq_, dmsgq_, sendlist_, ready, made, handled, gone>>
  PROVE  IndInv'
  <1>1. Typed /\ Stacks
    BY DEF IndInv
  <1>2. PICK r \in Seq(Frames), f \in Frames :
           /\ stack[t] = Append(r, f) /\ Top(t) = f /\ Front(stack[t]) = r
           /\ r # << >> => Follows(Last(r), f)
    BY <1>1, StackOf
  <1>3. r = << >>
    BY <1>2, Below
  <1>4. PICK g \in Frames : g = [f EXCEPT !.at = at] /\ g.at = at
    <2>1. at \in Places
      BY DEF InGet, Places
    <2> QED BY <2>1, FrameAt
  <1>5. stack' = [stack EXCEPT ![t] = Append(r, g)]
    BY <1>2, <1>4 DEF Go
  <1>6. Legal(t, Append(r, g))
    BY ZenonT(40), <1>3, <1>4, AppendLegal
  <1>7. /\ f.at \notin InHand \cup Waiting /\ f.at # "OnMessage"
        /\ g.at \notin InHand \cup Waiting /\ g.at # "OnMessage"
    BY <1>2, <1>4 DEF InGet, InHand, Posting, Waiting
  <1>8. /\ Handling(Append(r, g)) = Handling(r) /\ Carries(Append(r, g)) = {}
        /\ \A u : /\ WaitsOf(Append(r, g), u) = WaitsOf(r, u)
                  /\ HandlesOf(Append(r, g), u) = HandlesOf(r, u)
    BY <1>7, PlainFrame
  <1>9. /\ Handling(Append(r, f)) = Handling(r)
        /\ \A u : /\ WaitsOf(Append(r, f), u) = WaitsOf(r, u)
                  /\ HandlesOf(Append(r, f), u) = HandlesOf(r, u)
    BY <1>7, PlainFrame
  <1>10. PICK s : s = Append(r, g)
    OBVIOUS
  <1>11. /\ Handling(s) \subseteq Handling(stack[t]) /\ Carries(s) \subseteq Carries(stack[t])
         /\ \A u \in Threads : /\ HandlesOf(s, u) = HandlesOf(stack[t], u)
                               /\ WaitsOf(s, u) \ ready = WaitsOf(stack[t], u) \ ready
    BY <1>2, <1>8, <1>9, <1>10
  <1> QED BY <1>5, <1>6, <1>10, <1>11, QuietStep

LEMMA TypedQuiet ==
  ASSUME Typed, NEW t \in Threads, NEW s \in Seq(Frames), stack' = [stack EXCEPT ![t] = s],
         fSignaled_' \in [Threads -> BOOLEAN],
         UNCHANGED <<queueVars, sendlist_, fStop_, ready, made, clears, handled, gone, missed>>
  PROVE  Typed'
  <1>1. stack' \in [Threads -> Seq(Frames)]
    BY DEF Typed
  <1> QED BY <1>1 DEF Typed, queueVars

\* The top frame returns, and its thread still waits for what it waited for.
LEMMA ReturnQuiet ==
  ASSUME IndInv, NEW t \in Threads, Return(t), fSignaled_' \in [Threads -> BOOLEAN],
         Top(t).at \notin InGet, Top(t).at # "Dispatch",
         Top(t).at = "OnMessage" => Top(t).peer = NoThread,
         Top(t).at \in Waiting => Top(t).msg \in ready,
         UNCHANGED <<queueVars, sendlist_, fStop_, ready, made, clears, handled, gone, missed>>
  PROVE  IndInv'
  <1>1. Typed /\ Stacks
    BY DEF IndInv
  <1>2. PICK r \in Seq(Frames), f \in Frames :
           /\ stack[t] = Append(r, f) /\ Top(t) = f /\ Front(stack[t]) = r
           /\ r = << >> => f.at \in InGet
           /\ r # << >> => Legal(t, r) /\ Follows(Last(r), f)
    BY <1>1, StackOf
  <1>3. Legal(t, r) /\ Carries(r) = {}
    BY <1>2, Below
  <1>4. stack' = [stack EXCEPT ![t] = r]
    BY <1>2 DEF Return
  <1>5. Typed'
    BY <1>1, <1>4, TypedQuiet
  <1>6. Handling(r) \subseteq Handling(stack[t])
    BY <1>2, AppendHandling
  <1>7. ASSUME NEW u \in Threads
        PROVE  /\ HandlesOf(r, u) = HandlesOf(stack[t], u)
               /\ WaitsOf(r, u) \ ready = WaitsOf(stack[t], u) \ ready
    <2>1. u # NoThread
      BY RtcThreadAssumption
    <2>2. HandlesOf(Append(r, f), u)
            = HandlesOf(r, u) \cup (IF f.at \in Taken /\ f.peer = u THEN {f.msg} ELSE {})
      BY AppendHandles
    <2>3. WaitsOf(Append(r, f), u)
            = WaitsOf(r, u) \cup (IF f.at \in Waiting /\ f.peer = u THEN {f.msg} ELSE {})
      BY AppendWaits
    <2>4. HandlesOf(r, u) = HandlesOf(stack[t], u)
      BY <1>2, <2>1, <2>2 DEF Taken
    <2>5. WaitsOf(r, u) \ ready = WaitsOf(stack[t], u) \ ready
      BY <1>2, <2>3
    <2> QED BY <2>4, <2>5
  <1>8. UNCHANGED <<msgq_, dmsgq_, sendlist_, ready, made, handled, gone>>
    BY DEF queueVars
  <1> QED BY <1>3, <1>4, <1>5, <1>6, <1>7, <1>8, QuietStep

LEMMA GetFindsNothingStep ==
  ASSUME IndInv, NEW t \in Threads, GetFindsNothing(t)
  PROVE  IndInv'
  <1>1. Typed /\ Stacks
    BY DEF IndInv
  <1>2. PICK r \in Seq(Frames), f \in Frames :
           /\ stack[t] = Append(r, f) /\ Top(t) = f /\ Front(stack[t]) = r
    BY <1>1, StackOf
  <1>3. PICK g \in Frames : g = [f EXCEPT !.at = "fStop_"]
    BY FrameAt DEF Places
  <1>4. Append(r, g) \in Seq(Frames) /\ stack' = [stack EXCEPT ![t] = Append(r, g)]
    BY <1>2, <1>3, PushedIsThere DEF GetFindsNothing, Go
  <1>5. fSignaled_' \in [Threads -> BOOLEAN]
    BY <1>1 DEF Typed, GetFindsNothing
  <1>6. Typed'
    BY <1>1, <1>4, <1>5, TypedQuiet DEF GetFindsNothing
  <1>7. "fStop_" \in InGet /\ Top(t).at \in InGet
    BY DEF InGet, GetFindsNothing
  <1> QED BY <1>6, <1>7, GetMoves DEF GetFindsNothing, queueVars

LEMMA GetStopsStep ==
  ASSUME IndInv, NEW t \in Threads, GetStops(t)
  PROVE  IndInv'
  <1>1. Typed /\ Stacks
    BY DEF IndInv
  <1>2. PICK r \in Seq(Frames), f \in Frames :
           /\ stack[t] = Append(r, f) /\ Top(t) = f /\ Front(stack[t]) = r
    BY <1>1, StackOf
  <1>3. PICK at : at = IF fStop_[t] THEN "exited" ELSE "wait"
    OBVIOUS
  <1>4. at \in InGet /\ at \in Places /\ Top(t).at \in InGet
    BY <1>3 DEF InGet, Places, GetStops
  <1>5. PICK g \in Frames : g = [f EXCEPT !.at = at]
    BY <1>4, FrameAt
  <1>6. Append(r, g) \in Seq(Frames) /\ stack' = [stack EXCEPT ![t] = Append(r, g)]
    BY <1>2, <1>3, <1>5, PushedIsThere DEF GetStops, Go
  <1>7. fSignaled_' \in [Threads -> BOOLEAN]
    BY <1>1 DEF Typed, GetStops
  <1>8. Typed'
    BY <1>1, <1>6, <1>7, TypedQuiet DEF GetStops
  <1>9. Go(t, at)
    BY <1>3 DEF GetStops
  <1> QED BY <1>4, <1>8, <1>9, GetMoves DEF GetStops, queueVars

LEMMA GetWaitFailsStep ==
  ASSUME IndInv, NEW t \in Threads, GetWaitFails(t)
  PROVE  IndInv'
  <1>1. Typed /\ Stacks
    BY DEF IndInv
  <1>2. PICK r \in Seq(Frames), f \in Frames :
           /\ stack[t] = Append(r, f) /\ Top(t) = f /\ Front(stack[t]) = r
    BY <1>1, StackOf
  <1>3. PICK g \in Frames : g = [f EXCEPT !.at = "exited"]
    BY FrameAt DEF Places
  <1>4. Append(r, g) \in Seq(Frames) /\ stack' = [stack EXCEPT ![t] = Append(r, g)]
    BY <1>2, <1>3, PushedIsThere DEF GetWaitFails, Go
  <1>5. fSignaled_' \in [Threads -> BOOLEAN]
    BY <1>1 DEF Typed, GetWaitFails
  <1>6. Typed'
    BY <1>1, <1>4, <1>5, TypedQuiet DEF GetWaitFails
  <1>7. "exited" \in InGet /\ Top(t).at \in InGet
    BY DEF InGet, GetWaitFails
  <1> QED BY <1>6, <1>7, GetMoves DEF GetWaitFails, queueVars

LEMMA GetWakesStep ==
  ASSUME IndInv, NEW t \in Threads, GetWakes(t)
  PROVE  IndInv'
  <1>1. Typed /\ Stacks
    BY DEF IndInv
  <1>2. PICK r \in Seq(Frames), f \in Frames :
           /\ stack[t] = Append(r, f) /\ Top(t) = f
           /\ r # << >> => Follows(Last(r), f)
    BY <1>1, StackOf
  <1>3. f.at \in InGet /\ f.at \notin InHand \cup Waiting /\ f.at # "OnMessage"
    BY <1>2 DEF InGet, InHand, Posting, Waiting, GetWakes
  <1>4. r = << >>
    BY <1>2, <1>3, Below
  <1>5. \A u : WaitsOf(stack[t], u) = {} /\ HandlesOf(stack[t], u) = {}
    BY <1>2, <1>3, <1>4, PlainFrame, EmptyStack
  <1>6. /\ Get \in Seq(Frames) /\ Legal(t, Get) /\ Handling(Get) = {} /\ Carries(Get) = {}
        /\ \A u : WaitsOf(Get, u) = {} /\ HandlesOf(Get, u) = {}
    BY GetStack
  <1>7. stack' = [stack EXCEPT ![t] = Get] /\ fSignaled_' \in [Threads -> BOOLEAN]
    BY <1>1 DEF Typed, GetWakes
  <1>8. PICK s : s = Get
    OBVIOUS
  <1>9. Typed'
    BY <1>1, <1>6, <1>7, TypedQuiet DEF GetWakes
  <1>10. /\ Handling(s) \subseteq Handling(stack[t]) /\ Carries(s) \subseteq Carries(stack[t])
         /\ \A u \in Threads : /\ HandlesOf(s, u) = HandlesOf(stack[t], u)
                               /\ WaitsOf(s, u) \ ready = WaitsOf(stack[t], u) \ ready
    BY <1>5, <1>6, <1>8
  <1>11. UNCHANGED <<msgq_, dmsgq_, sendlist_, ready, made, handled, gone>>
    BY DEF GetWakes, queueVars
  <1> QED BY <1>6, <1>7, <1>8, <1>9, <1>10, <1>11, QuietStep

LEMMA ReceiveSendsReturnsStep ==
  ASSUME IndInv, NEW t \in Threads, ReceiveSendsReturns(t)
  PROVE  IndInv'
  <1>1. fSignaled_' \in [Threads -> BOOLEAN]
    BY DEF IndInv, Typed, ReceiveSendsReturns
  <1>2. Top(t).at \notin InGet /\ Top(t).at \notin Waiting /\ Top(t).at \notin Taken
    BY DEF InGet, Taken, Waiting, ReceiveSendsReturns
  <1> QED BY <1>1, <1>2, ReturnQuiet DEF Taken, ReceiveSendsReturns

LEMMA SendReturnsStep ==
  ASSUME IndInv, NEW t \in Threads, SendReturns(t)
  PROVE  IndInv'
  <1>1. fSignaled_' \in [Threads -> BOOLEAN]
    BY DEF IndInv, Typed, SendReturns, WakeUpAgain, WakeUp
  <1>2. Top(t).at \notin InGet /\ Top(t).at \notin Taken /\ Top(t).msg \in ready
    BY DEF InGet, Taken, SendReturns
  <1> QED BY <1>1, <1>2, ReturnQuiet DEF Taken, SendReturns

LEMMA SendLoopsStep ==
  ASSUME IndInv, NEW t \in Threads, SendLoops(t)
  PROVE  IndInv'
  <1>1. Typed /\ Stacks
    BY DEF IndInv
  <1>2. PICK r \in Seq(Frames), f \in Frames :
           /\ stack[t] = Append(r, f) /\ Top(t) = f /\ Front(stack[t]) = r
           /\ Legal(t, Append(r, f))
           /\ r = << >> => f.at \in InGet
           /\ r # << >> => Legal(t, r) /\ Follows(Last(r), f)
    BY <1>1, StackOf
  <1>3. f.at = "while" /\ r # << >> /\ f.at \in Waiting
    BY <1>2 DEF InGet, SendLoops, Waiting
  <1>4. Last(r).at = "OnMessage" /\ f.peer \in Threads /\ f.peer # t
    <2>1. Last(r).at = "OnMessage" /\ f.peer \in Threads
      BY <1>2, <1>3 DEF Follows, Taken
    <2>2. f.at \in {"Send"} \cup Waiting => f.peer # t
      BY <1>2, <1>3, AppendLegal
    <2> QED BY <2>1, <2>2, <1>3
  <1>5. PICK g \in Frames : /\ g = [f EXCEPT !.at = "Wait"]
                            /\ g.at = "Wait" /\ g.peer = f.peer /\ g.msg = f.msg
    BY FrameAt DEF Places
  <1>6. PICK h \in Frames : /\ h = Frame("ReceiveSends", f.peer, 0)
                            /\ h.at = "ReceiveSends" /\ h.peer = f.peer
    <2>1. 0 \in 0..MaxMessages /\ "ReceiveSends" \in Places
      BY RtcThreadAssumption DEF Places
    <2>2. PICK p \in Threads \cup {NoThread} : p = f.peer
      BY <1>4
    <2>3. /\ Frame("ReceiveSends", p, 0) \in Frames
          /\ Frame("ReceiveSends", p, 0).at = "ReceiveSends"
          /\ Frame("ReceiveSends", p, 0).peer = p
      BY <2>1, FrameIn
    <2> QED BY <2>2, <2>3
  <1>7. PICK q \in Seq(Frames) : q = Append(r, g) /\ q # << >> /\ Last(q) = g
    BY PushedIsThere
  <1>8. PICK s \in Seq(Frames) : s = Append(q, h)
    BY PushedIsThere
  <1>9. stack' = [stack EXCEPT ![t] = s]
    BY <1>2, <1>5, <1>6, <1>7, <1>8 DEF SendLoops
  <1>10. Legal(t, q)
    <2>1. Follows(Last(r), g) /\ g.at # "OnMessage" /\ g.peer # t
      BY <1>4, <1>5 DEF Follows, Waiting
    <2> QED BY <2>1, <1>2, <1>3, <1>7, AppendLegal
  <1>11. Legal(t, s)
    <2>1. Follows(g, h) /\ h.at # "OnMessage" /\ h.at \notin {"Send"} \cup Waiting
      BY <1>5, <1>6 DEF Follows, Waiting
    <2> QED BY <2>1, <1>7, <1>8, <1>10, AppendLegal
  <1>12. /\ Handling(q) = Handling(r)
         /\ \A u : /\ WaitsOf(q, u) = WaitsOf(r, u) \cup (IF g.peer = u THEN {g.msg} ELSE {})
                   /\ HandlesOf(q, u) = HandlesOf(r, u)
    <2>1. g.at \in Waiting
      BY <1>5 DEF Waiting
    <2> QED BY <2>1, <1>7, WaitingFrame
  <1>13. /\ Handling(stack[t]) = Handling(r)
         /\ \A u : /\ WaitsOf(stack[t], u) = WaitsOf(r, u) \cup (IF f.peer = u THEN {f.msg} ELSE {})
                   /\ HandlesOf(stack[t], u) = HandlesOf(r, u)
    BY <1>2, <1>3, WaitingFrame
  <1>14. /\ Handling(s) = Handling(q) /\ Carries(s) = {}
         /\ \A u : WaitsOf(s, u) = WaitsOf(q, u) /\ HandlesOf(s, u) = HandlesOf(q, u)
    <2>1. h.at \notin InHand \cup Waiting /\ h.at # "OnMessage"
      BY <1>6 DEF InHand, Posting, Waiting
    <2> QED BY <2>1, <1>8, PlainFrame
  <1>15. \A u \in Threads : /\ HandlesOf(s, u) = HandlesOf(stack[t], u)
                            /\ WaitsOf(s, u) \ ready = WaitsOf(stack[t], u) \ ready
    BY <1>5, <1>12, <1>13, <1>14
  <1>16. Handling(s) \subseteq Handling(stack[t]) /\ Carries(s) \subseteq Carries(stack[t])
    BY <1>12, <1>13, <1>14
  <1>17. fSignaled_' \in [Threads -> BOOLEAN]
    BY <1>1 DEF Typed, SendLoops
  <1>18. Typed'
    BY <1>1, <1>9, <1>17, TypedQuiet DEF SendLoops
  <1>19. UNCHANGED <<msgq_, dmsgq_, sendlist_, ready, made, handled, gone>>
    BY DEF SendLoops, queueVars
  <1> QED BY <1>9, <1>11, <1>15, <1>16, <1>18, <1>19, QuietStep

\* A Send frame goes on at another place of Send.
LEMMA SendGoesOn ==
  ASSUME IndInv, NEW t \in Threads, Top(t).at \in Waiting,
         NEW g \in Frames, g.at \in Waiting, g.peer = Top(t).peer, g.msg = Top(t).msg,
         stack' = [stack EXCEPT ![t] = Append(Front(stack[t]), g)],
         fSignaled_' \in [Threads -> BOOLEAN],
         UNCHANGED <<queueVars, sendlist_, fStop_, ready, made, clears, handled, gone, missed>>
  PROVE  IndInv'
  <1>1. Typed /\ Stacks
    BY DEF IndInv
  <1>2. PICK r \in Seq(Frames), f \in Frames :
           /\ stack[t] = Append(r, f) /\ Top(t) = f /\ Front(stack[t]) = r
           /\ Legal(t, Append(r, f))
           /\ r = << >> => f.at \in InGet
           /\ r # << >> => Legal(t, r) /\ Follows(Last(r), f)
    BY <1>1, StackOf
  <1>3. f.at \in Waiting /\ r # << >>
    BY <1>2 DEF InGet, Waiting
  <1>4. Last(r).at = "OnMessage" /\ f.peer \in Threads /\ f.peer # t
    <2>1. Last(r).at = "OnMessage" /\ f.peer \in Threads
      BY <1>2, <1>3 DEF Follows, Taken, Waiting
    <2>2. f.at \in {"Send"} \cup Waiting => f.peer # t
      BY <1>2, <1>3, AppendLegal
    <2> QED BY <2>1, <2>2, <1>3
  <1>5. PICK s \in Seq(Frames) : s = Append(r, g)
    BY PushedIsThere
  <1>6. stack' = [stack EXCEPT ![t] = s]
    BY <1>2, <1>5
  <1>7. Legal(t, s)
    <2>1. Follows(Last(r), g) /\ g.at # "OnMessage" /\ g.peer # t
      BY <1>2, <1>4 DEF Follows, Waiting
    <2> QED BY <2>1, <1>2, <1>3, <1>5, AppendLegal
  <1>8. /\ Handling(s) = Handling(r) /\ Carries(s) = {}
        /\ \A u : /\ WaitsOf(s, u) = WaitsOf(r, u) \cup (IF g.peer = u THEN {g.msg} ELSE {})
                  /\ HandlesOf(s, u) = HandlesOf(r, u)
    BY <1>5, WaitingFrame
  <1>9. /\ Handling(stack[t]) = Handling(r)
        /\ \A u : /\ WaitsOf(stack[t], u) = WaitsOf(r, u) \cup (IF f.peer = u THEN {f.msg} ELSE {})
                  /\ HandlesOf(stack[t], u) = HandlesOf(r, u)
    BY <1>2, <1>3, WaitingFrame
  <1>10. \A u \in Threads : /\ HandlesOf(s, u) = HandlesOf(stack[t], u)
                            /\ WaitsOf(s, u) \ ready = WaitsOf(stack[t], u) \ ready
    BY <1>2, <1>8, <1>9
  <1>11. Handling(s) \subseteq Handling(stack[t]) /\ Carries(s) \subseteq Carries(stack[t])
    BY <1>8, <1>9
  <1>12. Typed'
    BY <1>1, <1>6, TypedQuiet
  <1>13. UNCHANGED <<msgq_, dmsgq_, sendlist_, ready, made, handled, gone>>
    BY DEF queueVars
  <1> QED BY ONLY IndInv, t \in Threads, <1>6, <1>7, <1>10, <1>11, <1>12, <1>13, QuietStep

LEMMA SendSignalsStep ==
  ASSUME IndInv, NEW t \in Threads, SendSignals(t)
  PROVE  IndInv'
  <1>1. Typed /\ Stacks
    BY DEF IndInv
  <1>2. PICK f \in Frames : Top(t) = f /\ f.at = "WakeUp"
    BY <1>1, StackOf DEF SendSignals
  <1>3. PICK g \in Frames : /\ g = [f EXCEPT !.at = "while"]
                            /\ g.at = "while" /\ g.peer = f.peer /\ g.msg = f.msg
    BY FrameAt DEF Places
  <1>4. stack' = [stack EXCEPT ![t] = Append(Front(stack[t]), g)]
    BY <1>2, <1>3 DEF SendSignals, Go
  <1>5. fSignaled_' \in [Threads -> BOOLEAN]
    BY <1>1 DEF Typed, SendSignals, WakeUp
  <1>6. Top(t).at \in Waiting /\ g.at \in Waiting
    BY <1>2, <1>3 DEF Waiting
  <1> QED BY <1>2, <1>3, <1>4, <1>5, <1>6, SendGoesOn DEF SendSignals

LEMMA SendWakesStep ==
  ASSUME IndInv, NEW t \in Threads, SendWakes(t) \/ SendWaitFails(t)
  PROVE  IndInv'
  <1>1. Typed /\ Stacks
    BY DEF IndInv
  <1>2. PICK f \in Frames : Top(t) = f /\ f.at = "Wait"
    BY <1>1, StackOf DEF SendWakes, SendWaitFails
  <1>3. PICK g : g = [f EXCEPT !.at = "while", !.waited = TRUE]
    OBVIOUS
  <1>4. g \in Frames /\ g.at = "while" /\ g.peer = f.peer /\ g.msg = f.msg
    <2>1. g = [at |-> "while", peer |-> f.peer, msg |-> f.msg, waited |-> TRUE]
      BY <1>3 DEF Frames
    <2> QED BY <2>1 DEF Frames, Places
  <1>5. stack' = [stack EXCEPT ![t] = Append(Front(stack[t]), g)]
    BY <1>2, <1>3 DEF SendWakes, SendWaitFails
  <1>6. fSignaled_' \in [Threads -> BOOLEAN]
    BY <1>1 DEF Typed, SendWakes, SendWaitFails
  <1>7. Top(t).at \in Waiting /\ g.at \in Waiting
    BY <1>2, <1>4 DEF Waiting
  <1>8. UNCHANGED <<queueVars, sendlist_, fStop_, ready, made, clears, handled, gone, missed>>
    BY DEF SendWakes, SendWaitFails
  <1> QED BY <1>2, <1>4, <1>5, <1>6, <1>7, <1>8, SendGoesOn

\* Nothing changes but what no part of the invariant looks at.
LEMMA StackStays ==
  ASSUME IndInv, Typed', NEW t \in Threads,
         UNCHANGED <<msgq_, dmsgq_, sendlist_, ready, stack, made, handled, gone>>
  PROVE  IndInv'
  <1>1. stack' = [stack EXCEPT ![t] = stack[t]]
    BY DEF IndInv, Typed
  <1>2. PICK s : s = stack[t]
    OBVIOUS
  <1>3. Legal(t, s)
    BY <1>2 DEF IndInv, Stacks
  <1>4. \A u \in Threads : /\ HandlesOf(s, u) = HandlesOf(stack[t], u)
                           /\ WaitsOf(s, u) \ ready = WaitsOf(stack[t], u) \ ready
    BY <1>2
  <1>5. stack' = [stack EXCEPT ![t] = s] /\ Handling(s) \subseteq Handling(stack[t])
        /\ Carries(s) \subseteq Carries(stack[t])
    BY <1>1, <1>2
  <1> QED BY <1>3, <1>4, <1>5, QuietStep

LEMMA QuitStep ==
  ASSUME IndInv, NEW t \in Threads, Quit(t)
  PROVE  IndInv'
  <1>1. Typed'
    BY DEF IndInv, Typed, Quit, WakeUp, queueVars
  <1> QED BY <1>1, StackStays DEF Quit, queueVars

LEMMA TriggerTimeStep ==
  ASSUME IndInv, NEW t \in Threads, TriggerTime(t)
  PROVE  IndInv'
  <1>1. Typed'
    <2>1. Len(dmsgq_[t]) \in Nat /\ due[t] \in Nat
      BY LenProperties DEF IndInv, Typed
    <2>2. due' \in [Threads -> Nat] /\ \A u \in Threads : due'[u] <= Len(dmsgq_[u])
      BY <2>1 DEF IndInv, Typed, TriggerTime
    <2> QED BY <2>2 DEF IndInv, Typed, TriggerTime
  <1> QED BY <1>1, StackStays DEF TriggerTime

-----------------------------------------------------------------------------
(* Steps that move messages.                                               *)

\* Messages are removed.
LEMMA ShrinkStep ==
  ASSUME Separate, Untouched, NEW S,
         \A k \in Kinds, t \in Threads : Holds(k, t)' \subseteq Holds(k, t),
         \A k \in Kinds \ {"handling"}, t \in Threads : Holds(k, t)' \cap S = {},
         handled' = handled, 1..made \subseteq 1..made', gone' = gone \cup S,
         ready' \subseteq handled \cup gone'
  PROVE  Separate' /\ Untouched'
  <1>1. Separate'
    <2>1. ASSUME NEW k \in Kinds, NEW l \in Kinds, NEW u \in Threads, NEW v \in Threads,
                 k # l \/ u # v
          PROVE  Holds(k, u)' \cap Holds(l, v)' = {}
      <3>1. Holds(k, u) \cap Holds(l, v) = {}
        BY <2>1 DEF Separate
      <3> QED BY <3>1
    <2> QED BY <2>1 DEF Separate
  <1>2. ASSUME NEW k \in Kinds \ {"handling"}, NEW t \in Threads
        PROVE  Holds(k, t)' \subseteq (1..made') \ (handled' \cup gone')
    <2>1. Holds(k, t) \subseteq (1..made) \ (handled \cup gone)
      BY DEF Untouched
    <2>2. Holds(k, t)' \subseteq Holds(k, t) /\ Holds(k, t)' \cap S = {}
      OBVIOUS
    <2> QED BY <2>1, <2>2
  <1>3. ASSUME NEW t \in Threads PROVE Handling(stack[t])' \subseteq handled'
    <2>1. Holds("handling", t)' \subseteq Holds("handling", t)
      BY DEF Kinds
    <2>2. Handling(stack[t])' \subseteq Handling(stack[t])
      BY <2>1 DEF Holds
    <2> QED BY <2>2 DEF Untouched
  <1> QED BY <1>1, <1>2, <1>3 DEF Untouched

\* A message that nobody handled or cleared gets to another place.
LEMMA MoveStep ==
  ASSUME Separate, Untouched, NEW k0 \in Kinds \ {"handling"}, NEW t0 \in Threads, NEW x,
         \A k \in Kinds, t \in Threads :
           k # k0 \/ t # t0 => Holds(k, t)' \subseteq Holds(k, t) \ {x},
         Holds(k0, t0)' \subseteq Holds(k0, t0) \cup {x},
         x \in (1..made') \ (handled \cup gone), 1..made \subseteq 1..made',
         UNCHANGED <<handled, gone, ready>>
  PROVE  Separate' /\ Untouched'
  <1>1. Separate'
    BY ZenonT(40), MovesApart
  <1>2. ASSUME NEW k \in Kinds \ {"handling"}, NEW t \in Threads
        PROVE  Holds(k, t)' \subseteq (1..made') \ (handled' \cup gone')
    <2>1. Holds(k, t) \subseteq (1..made) \ (handled \cup gone)
      BY DEF Untouched
    <2>2. Holds(k, t)' \subseteq Holds(k, t) \cup {x}
      OBVIOUS
    <2> QED BY <2>1, <2>2
  <1>3. ASSUME NEW t \in Threads PROVE Handling(stack[t])' \subseteq handled'
    <2>1. Holds("handling", t)' \subseteq Holds("handling", t)
      BY DEF Kinds
    <2>2. Handling(stack[t])' \subseteq Handling(stack[t])
      BY <2>1 DEF Holds
    <2> QED BY <2>2 DEF Untouched
  <1> QED BY <1>1, <1>2, <1>3 DEF Untouched

\* A message is taken by a handler.
LEMMA TakeStep ==
  ASSUME Separate, Untouched, NEW t0 \in Threads, NEW x,
         \A k \in Kinds, t \in Threads :
           k # "handling" \/ t # t0 => Holds(k, t)' \subseteq Holds(k, t) \ {x},
         Holds("handling", t0)' \subseteq Holds("handling", t0) \cup {x},
         handled' = handled \cup {x}, UNCHANGED <<made, gone, ready>>
  PROVE  Separate' /\ Untouched'
  <1>1. Separate'
    <2>1. PICK k0, X : k0 \in Kinds /\ k0 = "handling" /\ X = {x}
      BY DEF Kinds
    <2> k0 \in Kinds BY <2>1
    <2>2. /\ \A k \in Kinds, t \in Threads :
               k # k0 \/ t # t0 => Holds(k, t)' \subseteq Holds(k, t) \ X
          /\ Holds(k0, t0)' \subseteq Holds(k0, t0) \cup X
      BY <2>1
    <2> QED BY <2>2, MovesApart
  <1>2. ASSUME NEW k \in Kinds \ {"handling"}, NEW t \in Threads
        PROVE  Holds(k, t)' \subseteq (1..made') \ (handled' \cup gone')
    <2>1. Holds(k, t) \subseteq (1..made) \ (handled \cup gone)
      BY DEF Untouched
    <2>2. Holds(k, t)' \subseteq Holds(k, t) \ {x}
      OBVIOUS
    <2> QED BY <2>1, <2>2
  <1>3. ASSUME NEW t \in Threads PROVE Handling(stack[t])' \subseteq handled'
    <2>1. Holds("handling", t)' \subseteq Holds("handling", t) \cup {x}
      BY DEF Kinds
    <2>2. Handling(stack[t])' \subseteq Handling(stack[t]) \cup {x}
      BY <2>1 DEF Holds
    <2> QED BY <2>2 DEF Untouched
  <1> QED BY <1>1, <1>2, <1>3 DEF Untouched

LEMMA OnMessageReturnsStep ==
  ASSUME IndInv, NEW t \in Threads, OnMessageReturns(t)
  PROVE  IndInv'
  <1>1. Typed /\ Stacks /\ Separate /\ Apart /\ Untouched /\ Sends /\ ReadyAlive
    BY DEF IndInv, Apart
  <1>2. PICK r \in Seq(Frames), f \in Frames :
           /\ stack[t] = Append(r, f) /\ Top(t) = f /\ Front(stack[t]) = r
           /\ r = << >> => f.at \in InGet
           /\ r # << >> => Legal(t, r) /\ Follows(Last(r), f)
                           /\ (f.at = "OnMessage" => f.msg \notin Handling(r))
    BY <1>1, StackOf
  <1>3. CASE f.peer = NoThread
    <2>1. fSignaled_' \in [Threads -> BOOLEAN] /\ ready' = ready
      BY <1>1, <1>2, <1>3 DEF Typed, OnMessageReturns
    <2>2. Top(t).at = "OnMessage" /\ Top(t).at \notin InGet /\ Top(t).at # "Dispatch" /\ Top(t).at \notin Waiting
      BY DEF InGet, Waiting, OnMessageReturns
    <2> QED BY <1>2, <1>3, <2>1, <2>2, ReturnQuiet DEF OnMessageReturns
  <1>4. CASE f.peer # NoThread
    <2>1. PICK p, m : p \in Threads /\ p = f.peer /\ m = f.msg
      BY <1>4 DEF Frames
    <2> p \in Threads BY <2>1
    <2>2. f.at = "OnMessage" /\ r # << >> /\ Legal(t, r) /\ Carries(r) = {} /\ m \notin Handling(r)
      BY <1>2, <2>1, Below DEF InGet, OnMessageReturns
    <2>3. /\ stack' = [stack EXCEPT ![t] = r] /\ ready' = ready \cup {m}
          /\ fSignaled_' = [fSignaled_ EXCEPT ![p] = TRUE]
          /\ UNCHANGED <<msgq_, dmsgq_, due, sendlist_, fStop_, made, clears, handled, gone, missed>>
      BY <1>2, <1>4, <2>1 DEF OnMessageReturns, Return, WakeUp, queueVars
    <2>4. Handling(stack[t]) = Handling(r) \cup {m}
      BY <1>2, <2>1, <2>2, AppendHandling
    <2>5. ASSUME NEW u
          PROVE  HandlesOf(stack[t], u) = HandlesOf(r, u) \cup (IF p = u THEN {m} ELSE {})
      <3>1. HandlesOf(Append(r, f), u)
              = HandlesOf(r, u) \cup (IF f.at \in Taken /\ f.peer = u THEN {f.msg} ELSE {})
        BY AppendHandles
      <3> QED BY <3>1, <1>2, <2>1, <2>2 DEF Taken
    <2>6. ASSUME NEW u PROVE WaitsOf(stack[t], u) = WaitsOf(r, u)
      <3>1. WaitsOf(Append(r, f), u)
              = WaitsOf(r, u) \cup (IF f.at \in Waiting /\ f.peer = u THEN {f.msg} ELSE {})
        BY AppendWaits
      <3>2. f.at \notin Waiting
        BY <2>2 DEF Waiting
      <3> QED BY <3>1, <3>2, <1>2
    <2>7. m \in Handling(stack[t]) /\ m \in handled /\ m \in 1..made
      BY <1>1, <2>4 DEF Untouched, Typed
    <2>8. Typed'
      <3>1. stack' \in [Threads -> Seq(Frames)] /\ fSignaled_' \in [Threads -> BOOLEAN]
        BY <1>1, <2>3 DEF Typed
      <3> QED BY <1>1, <2>3, <2>7, <3>1 DEF Typed
    <2>9. Stacks' /\ stack'[t] = r /\ \A u \in Threads : u # t => stack'[u] = stack[u]
      BY <1>1, <2>2, <2>3, StacksStep
    <2>10. \A k \in Kinds, u \in Threads : Holds(k, u)' \subseteq Holds(k, u)
      <3>1. \A u \in Threads : /\ Handling(stack'[u]) \subseteq Handling(stack[u])
                               /\ Carries(stack'[u]) \subseteq Carries(stack[u])
        BY <2>2, <2>4, <2>9
      <3>2. ASSUME NEW u \in Threads
            PROVE  /\ Holds("posted", u)' = Holds("posted", u)
                   /\ Holds("delayed", u)' = Holds("delayed", u)
                   /\ Holds("sent", u)' = Holds("sent", u)
                   /\ Holds("carried", u)' \subseteq Holds("carried", u)
                   /\ Holds("handling", u)' \subseteq Holds("handling", u)
        BY <2>3, <3>1, HoldsIs
      <3> QED BY <3>2 DEF Kinds
    <2>11. Separate' /\ Untouched'
      <3>1. PICK S : S = {}
        OBVIOUS
      <3>2. /\ \A k \in Kinds \ {"handling"}, u \in Threads : Holds(k, u)' \cap S = {}
            /\ gone' = gone \cup S /\ ready' \subseteq handled \cup gone'
            /\ handled' = handled /\ 1..made \subseteq 1..made'
        BY <1>1, <2>3, <2>7, <3>1 DEF Untouched
      <3> QED BY <1>1, <2>10, <3>2, ShrinkStep
    <2>12. Apart'
      BY <1>1, <2>3, <2>11 DEF Apart, MsgsApart, IsInjective
    <2>13. ASSUME NEW u \in Threads PROVE m \notin MsgsOf(sendlist_[u])
      <3>1. Holds("handling", t) \cap Holds("sent", u) = {}
        BY <1>1 DEF Separate, Kinds
      <3> QED BY <3>1, <2>7, HoldsIs
    <2>14. ASSUME NEW u \in Threads, u # t
           PROVE  m \notin Handling(stack[u]) \cup Carries(stack[u])
      <3>1. /\ Holds("handling", t) \cap Holds("handling", u) = {}
            /\ Holds("handling", t) \cap Holds("carried", u) = {}
        BY <1>1, <2>14 DEF Separate, Kinds
      <3> QED BY <3>1, <2>7, HoldsIs
    <2>15. ASSUME NEW v \in Threads, NEW u
           PROVE  HandlesOf(stack'[v], u) = HandlesOf(stack[v], u) \ {m}
      <3>1. CASE v = t
        <4>1. m \notin HandlesOf(r, u)
          BY <2>2, HandlesOfWhat DEF Legal
        <4> QED BY <3>1, <4>1, <2>5, <2>9
      <3>2. CASE v # t
        <4>1. m \notin HandlesOf(stack[v], u)
          <5>1. stack[v] \in Seq(Frames) /\ Shape(stack[v])
            BY <1>1 DEF Typed, Stacks, Legal
          <5> QED BY <5>1, <3>2, <2>14, HandlesOfWhat
        <4> QED BY <3>2, <4>1, <2>9
      <3> QED BY <3>1, <3>2
    <2>16. Sends'
      <3>1. \A v \in Threads : /\ NotFrom(sendlist_[v], v)
                               /\ \A u \in Threads : HandlesOf(stack'[v], u) \cap ready' = {}
                               /\ HandlesOf(stack'[v], v) = {}
        <4> TAKE v \in Threads
        <4>1. /\ NotFrom(sendlist_[v], v) /\ HandlesOf(stack[v], v) = {}
              /\ \A u \in Threads : HandlesOf(stack[v], u) \cap ready = {}
          BY <1>1 DEF Sends
        <4>2. HandlesOf(stack'[v], v) = {}
          BY <4>1, <2>15
        <4>3. ASSUME NEW u \in Threads PROVE HandlesOf(stack'[v], u) \cap ready' = {}
          <5>1. HandlesOf(stack'[v], u) = HandlesOf(stack[v], u) \ {m}
            BY <2>15
          <5> QED BY <5>1, <4>1, <2>3
        <4> QED BY <4>1, <4>2, <4>3
      <3> QED BY <3>1, <2>3 DEF Sends, NotFrom, HandlesOf
    <2>17. ReadyAlive'
      <3>1. ASSUME NEW v \in Threads, NEW u \in Threads, v # u
            PROVE  Awaited(v, u)' = Owed(v, u)'
        <4>1. WaitsOf(stack'[v], u) = WaitsOf(stack[v], u)
          BY <2>6, <2>9
        <4>2. Awaited(v, u)' = Awaited(v, u) \ {m}
          <5>1. Awaited(v, u)' = WaitsOf(stack'[v], u) \ ready'
            BY AliveIs
          <5>2. Awaited(v, u) = WaitsOf(stack[v], u) \ ready
            BY AliveIs
          <5> QED BY <5>1, <5>2, <4>1, <2>3
        <4>3. m \notin MsgsBy(sendlist_[u], v)
          BY <2>13, SubsetsOf
        <4>4. Owed(v, u)' = Owed(v, u) \ {m}
          <5>1. Owed(v, u)' = MsgsBy(sendlist_[u], v) \cup HandlesOf(stack'[u], v)
            BY <2>3, AliveIs
          <5>2. Owed(v, u) = MsgsBy(sendlist_[u], v) \cup HandlesOf(stack[u], v)
            BY AliveIs
          <5> QED BY <5>1, <5>2, <4>3, <2>15
        <4> QED BY <1>1, <3>1, <4>2, <4>4 DEF ReadyAlive
      <3> QED BY <3>1 DEF ReadyAlive
    <2> QED BY <2>8, <2>9, <2>11, <2>12, <2>16, <2>17 DEF IndInv
  <1> QED BY <1>3, <1>4

\* A frame of Post, DoDelayPost or the beginning of Send.
LEMMA CarryingFrame ==
  ASSUME NEW r \in Seq(Frames), NEW g \in Frames, g.at \in Posting
  PROVE  /\ Handling(Append(r, g)) = Handling(r) /\ Carries(Append(r, g)) = {g.msg}
         /\ \A u : /\ WaitsOf(Append(r, g), u) = WaitsOf(r, u)
                   /\ HandlesOf(Append(r, g), u) = HandlesOf(r, u)
  <1>1. g.at \notin Taken /\ g.at # "OnMessage" /\ g.at \notin Waiting /\ g.at \in InHand
    BY DEF Waiting, Posting, Taken, InHand
  <1>2. Handling(Append(r, g)) = Handling(r)
    BY <1>1, AppendHandling
  <1>3. Carries(Append(r, g)) = {g.msg}
    BY <1>1, AppendCarries
  <1>4. ASSUME NEW u PROVE WaitsOf(Append(r, g), u) = WaitsOf(r, u)
    <2>1. WaitsOf(Append(r, g), u)
            = WaitsOf(r, u) \cup (IF g.at \in Waiting /\ g.peer = u THEN {g.msg} ELSE {})
      BY AppendWaits
    <2> QED BY <1>1, <2>1
  <1>5. ASSUME NEW u PROVE HandlesOf(Append(r, g), u) = HandlesOf(r, u)
    <2>1. HandlesOf(Append(r, g), u)
            = HandlesOf(r, u) \cup (IF g.at \in Taken /\ g.peer = u THEN {g.msg} ELSE {})
      BY AppendHandles
    <2> QED BY <1>1, <2>1
  <1> QED BY <1>2, <1>3, <1>4, <1>5

LEMMA MakeStep ==
  ASSUME IndInv, NEW t \in Threads, NEW at \in Posting, NEW to \in Threads,
         at = "Send" => to # t, Make(t, at, to)
  PROVE  IndInv'
  <1>1. Typed /\ Stacks /\ Separate /\ Apart /\ Untouched /\ Sends /\ ReadyAlive
    BY DEF IndInv, Apart
  <1>2. PICK q \in Seq(Frames) : q = stack[t] /\ Legal(t, q) /\ Last(q).at = "OnMessage" /\ q # << >>
    <2>1. stack[t] \in Seq(Frames) /\ Legal(t, stack[t])
      BY <1>1 DEF Typed, Stacks
    <2>2. stack[t] # << >>
      BY <2>1, EmptySeq DEF Legal, Shape
    <2> QED BY <2>1, <2>2 DEF Make, Top
  <1>3. Carries(q) = {}
    BY <1>2 DEF Carries, InHand, Posting
  <1>4. PICK x : x = made + 1
    OBVIOUS
  <1>5. /\ made \in Nat /\ MaxMessages \in Nat /\ made < MaxMessages /\ made' = x
        /\ UNCHANGED <<msgq_, dmsgq_, due, sendlist_, fSignaled_, fStop_, ready, clears, handled, missed>>
    BY <1>1, <1>4, RtcThreadAssumption DEF Typed, Make, queueVars
  <1>6. /\ x \in 1..made' /\ x \notin 1..made /\ 1..made \subseteq 1..made'
        /\ made' \in 0..MaxMessages /\ x \in 0..MaxMessages
    BY <1>4, <1>5
  <1>7. x \notin handled \cup gone /\ x \notin ready
    BY <1>1, <1>6 DEF Typed
  <1>8. \A k \in Kinds, u \in Threads : x \notin Holds(k, u)
    <2>1. \A k \in Kinds \ {"handling"}, u \in Threads : x \notin Holds(k, u)
      BY <1>1, <1>6 DEF Untouched
    <2>2. \A u \in Threads : x \notin Handling(stack[u])
      BY <1>1, <1>7 DEF Untouched
    <2> QED BY <2>1, <2>2, HoldsIs
  <1>9. CASE fStop_[to]
    <2>1. stack' = stack /\ gone' = gone \cup {x}
      BY <1>4, <1>9 DEF Make
    <2>2. Typed'
      BY <1>1, <1>5, <1>6, <2>1 DEF Typed
    <2>3. \A k \in Kinds, u \in Threads : Holds(k, u)' = Holds(k, u)
      BY <1>5, <2>1 DEF Holds, Handling, Carries, MsgsOf, ToSet
    <2>4. PICK S : S = {x}
      OBVIOUS
    <2>5. Separate' /\ Untouched'
      <3>1. /\ \A k \in Kinds, u \in Threads : Holds(k, u)' \subseteq Holds(k, u)
            /\ \A k \in Kinds \ {"handling"}, u \in Threads : Holds(k, u)' \cap S = {}
        BY <1>8, <2>3, <2>4
      <3>2. /\ handled' = handled /\ gone' = gone \cup S /\ 1..made \subseteq 1..made'
            /\ ready' \subseteq handled \cup gone'
        BY <1>1, <1>5, <1>6, <2>1, <2>4 DEF Untouched
      <3> QED BY <1>1, <3>1, <3>2, ShrinkStep
    <2>6. Apart'
      BY <1>1, <1>5, <2>5 DEF Apart, MsgsApart, IsInjective
    <2>7. Stacks'
      BY <1>1, <2>1 DEF Stacks, Legal, Shape, HandlesApart, SendsAway
    <2>8. Sends' /\ ReadyAlive'
      <3>1. stack' = [stack EXCEPT ![t] = q]
        BY <1>1, <1>2, <2>1 DEF Typed
      <3>2. \A u \in Threads : /\ HandlesOf(q, u) = HandlesOf(stack[t], u)
                               /\ WaitsOf(q, u) \ ready = WaitsOf(stack[t], u) \ ready
        BY <1>2
      <3> QED BY <1>1, <1>5, <3>1, <3>2, SendsStep
    <2> QED BY <2>2, <2>5, <2>6, <2>7, <2>8 DEF IndInv
  <1>10. CASE ~fStop_[to]
    <2>1. PICK g \in Frames : /\ g = Frame(at, to, x)
                              /\ g.at = at /\ g.peer = to /\ g.msg = x
      <3>1. at \in Places /\ to \in Threads \cup {NoThread}
        BY DEF Posting, Places
      <3>2. /\ Frame(at, to, x) \in Frames /\ Frame(at, to, x).at = at
            /\ Frame(at, to, x).peer = to /\ Frame(at, to, x).msg = x
        BY <3>1, <1>6, FrameIn
      <3> QED BY <3>2
    <2>2. PICK s \in Seq(Frames) : s = Append(q, g)
      BY PushedIsThere
    <2>3. stack' = [stack EXCEPT ![t] = s] /\ gone' = gone
      BY <1>2, <1>4, <1>10, <2>1, <2>2 DEF Make, Call
    <2>4. Legal(t, s)
      <3>1. Follows(Last(q), g) /\ g.at # "OnMessage"
        BY <1>2, <2>1 DEF Follows, Posting
      <3>2. g.at \in {"Send"} \cup Waiting => g.peer # t
        BY <2>1 DEF Posting, Waiting
      <3> QED BY <1>2, <2>2, <3>1, <3>2, AppendLegal
    <2>5. /\ Handling(s) = Handling(q) /\ Carries(s) = {x}
          /\ \A u : WaitsOf(s, u) = WaitsOf(q, u) /\ HandlesOf(s, u) = HandlesOf(q, u)
      BY <2>1, <2>2, CarryingFrame
    <2>6. Typed'
      <3>1. stack' \in [Threads -> Seq(Frames)]
        BY <1>1, <2>3 DEF Typed
      <3> QED BY <1>1, <1>5, <1>6, <2>3, <3>1 DEF Typed
    <2>7. Stacks' /\ stack'[t] = s /\ \A u \in Threads : u # t => stack'[u] = stack[u]
      BY <1>1, <2>3, <2>4, StacksStep
    <2>8. Sends' /\ ReadyAlive'
      <3>1. \A u \in Threads : /\ HandlesOf(s, u) = HandlesOf(stack[t], u)
                               /\ WaitsOf(s, u) \ ready = WaitsOf(stack[t], u) \ ready
        BY <1>2, <2>5
      <3> QED BY <1>1, <1>5, <2>3, <3>1, SendsStep
    <2>9. Separate' /\ Untouched'
      <3>1. \A u \in Threads : /\ Handling(stack'[u]) = Handling(stack[u])
                               /\ u # t => Carries(stack'[u]) = Carries(stack[u])
                               /\ u = t => Carries(stack'[u]) = {x}
        BY <1>2, <2>5, <2>7
      <3>2. PICK k0 \in Kinds \ {"handling"} : k0 = "carried"
        BY DEF Kinds
      <3>3. ASSUME NEW k \in Kinds, NEW u \in Threads, k # k0 \/ u # t
            PROVE  Holds(k, u)' \subseteq Holds(k, u) \ {x}
        <4>1. Holds(k, u)' = Holds(k, u)
          BY <1>5, <3>1, <3>2, <3>3, HoldsIs DEF Kinds
        <4> QED BY <4>1, <1>8
      <3>4. Holds(k0, t)' \subseteq Holds(k0, t) \cup {x}
        BY <3>1, <3>2, HoldsIs
      <3>5. /\ x \in (1..made') \ (handled \cup gone) /\ 1..made \subseteq 1..made'
            /\ UNCHANGED <<handled, gone, ready>>
        BY <1>5, <1>6, <1>7, <2>3
      <3> QED BY <1>1, <3>3, <3>4, <3>5, MoveStep
    <2>10. Apart'
      BY <1>1, <1>5, <2>9 DEF Apart, MsgsApart, IsInjective
    <2> QED BY <2>6, <2>7, <2>8, <2>9, <2>10 DEF IndInv
  <1> QED BY <1>9, <1>10

\* The thread t is about to put the message m into a queue of p; m is nowhere else.
Carrying(t, r, f, p, m) ==
  /\ stack[t] = Append(r, f) /\ Top(t) = f /\ Front(stack[t]) = r
  /\ p = f.peer /\ m = f.msg
  /\ r # << >> /\ Legal(t, r) /\ Last(r).at = "OnMessage" /\ Carries(r) = {}
  /\ f.at = "Send" => p # t
  /\ Handling(stack[t]) = Handling(r) /\ Carries(stack[t]) = {m}
  /\ \A u : /\ WaitsOf(stack[t], u) = WaitsOf(r, u)
            /\ HandlesOf(stack[t], u) = HandlesOf(r, u)
  /\ m \in (1..made) \ (handled \cup gone)
  /\ \A k \in Kinds, u \in Threads : k # "carried" \/ u # t => m \notin Holds(k, u)

LEMMA CarrierOf ==
  ASSUME IndInv, NEW t \in Threads, Top(t).at \in Posting
  PROVE  \E r \in Seq(Frames), f \in Frames, p \in Threads, m \in Messages :
           Carrying(t, r, f, p, m)
  <1>1. Typed /\ Stacks /\ Separate /\ Untouched
    BY DEF IndInv, Apart
  <1>2. PICK r \in Seq(Frames), f \in Frames :
           /\ stack[t] = Append(r, f) /\ Top(t) = f /\ Front(stack[t]) = r
           /\ Legal(t, Append(r, f))
           /\ r = << >> => f.at \in InGet
           /\ r # << >> => Legal(t, r) /\ Follows(Last(r), f)
    BY <1>1, StackOf
  <1>3. r # << >> /\ f.at \in Posting
    BY <1>2 DEF InGet, Posting
  <1>4. Last(r).at = "OnMessage" /\ f.peer \in Threads /\ Carries(r) = {}
    BY <1>2, <1>3 DEF Follows, Posting, Taken, InHand, Carries
  <1>5. f.at = "Send" => f.peer # t
    BY <1>2, <1>3, AppendLegal
  <1>6. /\ Handling(stack[t]) = Handling(r) /\ Carries(stack[t]) = {f.msg}
        /\ \A u : /\ WaitsOf(stack[t], u) = WaitsOf(r, u)
                  /\ HandlesOf(stack[t], u) = HandlesOf(r, u)
    BY <1>2, <1>3, CarryingFrame
  <1>7. Holds("carried", t) = {f.msg}
    BY <1>6, HoldsIs
  <1>8. f.msg \in (1..made) \ (handled \cup gone)
    <2>1. Holds("carried", t) \subseteq (1..made) \ (handled \cup gone)
      BY <1>1 DEF Untouched, Kinds
    <2> QED BY <2>1, <1>7
  <1>9. f.msg \in Messages
    <2>1. made \in 0..MaxMessages /\ MaxMessages \in Nat
      BY <1>1, RtcThreadAssumption DEF Typed
    <2> QED BY <2>1, <1>8 DEF Messages
  <1>10. ASSUME NEW k \in Kinds, NEW u \in Threads, k # "carried" \/ u # t
         PROVE  f.msg \notin Holds(k, u)
    <2>1. Holds(k, u) \cap Holds("carried", t) = {}
      BY <1>1, <1>10 DEF Separate, Kinds
    <2> QED BY <2>1, <1>7
  <1>11. PICK p \in Threads, m \in Messages : p = f.peer /\ m = f.msg
    BY <1>4, <1>9
  <1>12. Carrying(t, r, f, p, m)
    BY <1>2, <1>3, <1>4, <1>5, <1>6, <1>8, <1>10, <1>11 DEF Carrying
  <1> QED BY <1>11, <1>12

LEMMA PostStep ==
  ASSUME IndInv, NEW t \in Threads, Post(t)
  PROVE  IndInv'
  <1>1. Typed /\ Stacks /\ Separate /\ Apart /\ Untouched /\ Sends /\ ReadyAlive
    BY DEF IndInv, Apart
  <1>2. PICK r \in Seq(Frames), f \in Frames, p \in Threads, m \in Messages :
          Carrying(t, r, f, p, m)
    BY CarrierOf DEF Post, Posting
  <1>3. /\ stack' = [stack EXCEPT ![t] = r]
        /\ msgq_' = [msgq_ EXCEPT ![p] = Append(msgq_[p], m)]
        /\ fSignaled_' = [fSignaled_ EXCEPT ![p] = TRUE]
        /\ UNCHANGED <<dmsgq_, due, sendlist_, fStop_, ready, made, clears, handled, gone, missed>>
    BY <1>2 DEF Post, Return, WakeUp, Carrying
  <1>4. PICK q \in Seq(Messages) : q = msgq_[p] /\ IsInjective(q) /\ m \notin ToSet(q)
    <2>1. m \notin Holds("posted", p)
      BY <1>2 DEF Carrying, Kinds
    <2> QED BY <2>1, <1>1, HoldsIs DEF Typed, Apart
  <1>5. /\ Append(q, m) \in Seq(Messages) /\ ToSet(Append(q, m)) = ToSet(q) \cup {m}
        /\ IsInjective(Append(q, m))
    BY <1>4, ToSetAppend, AppendProperties
  <1>6. msgq_'[p] = Append(q, m) /\ \A u \in Threads : u # p => msgq_'[u] = msgq_[u]
    BY <1>1, <1>3, <1>4 DEF Typed
  <1>7. Typed'
    <2>1. /\ stack' \in [Threads -> Seq(Frames)] /\ fSignaled_' \in [Threads -> BOOLEAN]
          /\ msgq_' \in [Threads -> Seq(Messages)]
      BY <1>1, <1>3, <1>4, <1>5 DEF Typed
    <2> QED BY <1>1, <1>3, <2>1 DEF Typed
  <1>8. Stacks' /\ stack'[t] = r /\ \A u \in Threads : u # t => stack'[u] = stack[u]
    BY <1>1, <1>2, <1>3, StacksStep DEF Carrying
  <1>9. Sends' /\ ReadyAlive'
    <2>1. \A u \in Threads : /\ HandlesOf(r, u) = HandlesOf(stack[t], u)
                             /\ WaitsOf(r, u) \ ready = WaitsOf(stack[t], u) \ ready
      BY <1>2 DEF Carrying
    <2> QED BY <1>1, <1>3, <2>1, SendsStep
  <1>10. Separate' /\ Untouched'
    <2>1. \A u \in Threads : /\ Handling(stack'[u]) = Handling(stack[u])
                             /\ u # t => Carries(stack'[u]) = Carries(stack[u])
                             /\ u = t => Carries(stack'[u]) = {}
      BY <1>2, <1>8 DEF Carrying
    <2>2. PICK k0 \in Kinds \ {"handling"} : k0 = "posted"
      BY DEF Kinds
    <2>3. ASSUME NEW k \in Kinds, NEW u \in Threads, k # k0 \/ u # p
          PROVE  Holds(k, u)' \subseteq Holds(k, u) \ {m}
      <3>1. CASE k = "carried" /\ u = t
        BY <2>1, <3>1, HoldsIs
      <3>2. CASE k # "carried" \/ u # t
        <4>1. Holds(k, u)' = Holds(k, u)
          BY <1>3, <1>6, <2>1, <2>2, <2>3, <3>2, HoldsIs DEF Kinds
        <4> QED BY <4>1, <3>2, <1>2 DEF Carrying
      <3> QED BY <3>1, <3>2
    <2>4. Holds(k0, p)' \subseteq Holds(k0, p) \cup {m}
      BY <1>4, <1>5, <1>6, <2>2, HoldsIs
    <2>5. /\ m \in (1..made') \ (handled \cup gone) /\ 1..made \subseteq 1..made'
          /\ UNCHANGED <<handled, gone, ready>>
      BY <1>2, <1>3 DEF Carrying
    <2> QED BY <1>1, <2>3, <2>4, <2>5, MoveStep
  <1>11. Apart'
    <2>1. \A u \in Threads : IsInjective(msgq_'[u]) /\ IsInjective(dmsgq_[u]) /\ MsgsApart(sendlist_[u])
      BY <1>1, <1>5, <1>6 DEF Apart
    <2> QED BY <1>3, <1>10, <2>1 DEF Apart, MsgsApart, IsInjective
  <1> QED BY <1>7, <1>8, <1>9, <1>10, <1>11 DEF IndInv

LEMMA DoDelayPostStep ==
  ASSUME IndInv, NEW t \in Threads, DoDelayPost(t)
  PROVE  IndInv'
  <1>1. Typed /\ Stacks /\ Separate /\ Apart /\ Untouched /\ Sends /\ ReadyAlive
    BY DEF IndInv, Apart
  <1>2. PICK r \in Seq(Frames), f \in Frames, p \in Threads, m \in Messages :
          Carrying(t, r, f, p, m)
    BY CarrierOf DEF DoDelayPost, Posting
  <1>3. /\ stack' = [stack EXCEPT ![t] = r]
        /\ fSignaled_' = [fSignaled_ EXCEPT ![p] = TRUE]
        /\ UNCHANGED <<msgq_, due, sendlist_, fStop_, ready, made, clears, handled, gone, missed>>
    BY <1>2 DEF DoDelayPost, Return, WakeUp, Carrying
  <1>4. PICK q \in Seq(Messages) : q = dmsgq_[p] /\ IsInjective(q) /\ m \notin ToSet(q)
    <2>1. m \notin Holds("delayed", p)
      BY <1>2 DEF Carrying, Kinds
    <2> QED BY <2>1, <1>1, HoldsIs DEF Typed, Apart
  <1>5. PICK i \in due[p]+1..Len(q)+1 : dmsgq_' = [dmsgq_ EXCEPT ![p] = InsertAt(q, i, m)]
    BY <1>2, <1>4 DEF DoDelayPost, Carrying
  <1>6. i \in 1..Len(q)+1 /\ Len(q) \in Nat /\ due[p] \in Nat /\ due[p] <= Len(q)
    <2>1. due[p] \in Nat /\ Len(q) \in Nat /\ due[p] <= Len(q)
      BY <1>1, <1>4, LenProperties DEF Typed
    <2> QED BY <2>1, <1>5
  <1>7. PICK d \in Seq(Messages) :
          /\ d = InsertAt(q, i, m) /\ Len(d) = Len(q) + 1
          /\ ToSet(d) = ToSet(q) \cup {m} /\ IsInjective(d)
    <2>1. /\ InsertAt(q, i, m) \in Seq(Messages) /\ Len(InsertAt(q, i, m)) = Len(q) + 1
          /\ ToSet(InsertAt(q, i, m)) = ToSet(q) \cup {m}
          /\ IsInjective(q) /\ m \notin ToSet(q) => IsInjective(InsertAt(q, i, m))
      BY <1>6, InsertApart
    <2> QED BY <2>1, <1>4
  <1>8. dmsgq_'[p] = d /\ \A u \in Threads : u # p => dmsgq_'[u] = dmsgq_[u]
    BY <1>1, <1>5, <1>7 DEF Typed
  <1>9. Typed'
    <2>1. /\ stack' \in [Threads -> Seq(Frames)] /\ fSignaled_' \in [Threads -> BOOLEAN]
          /\ dmsgq_' \in [Threads -> Seq(Messages)]
      BY <1>1, <1>3, <1>5, <1>7 DEF Typed
    <2>2. due[p] <= Len(d)
      BY <1>6, <1>7
    <2>3. \A u \in Threads : due'[u] <= Len(dmsgq_'[u])
      BY <1>1, <1>3, <1>8, <2>2 DEF Typed
    <2> QED BY <1>1, <1>3, <2>1, <2>3 DEF Typed
  <1>10. Stacks' /\ stack'[t] = r /\ \A u \in Threads : u # t => stack'[u] = stack[u]
    BY <1>1, <1>2, <1>3, StacksStep DEF Carrying
  <1>11. Sends' /\ ReadyAlive'
    <2>1. \A u \in Threads : /\ HandlesOf(r, u) = HandlesOf(stack[t], u)
                             /\ WaitsOf(r, u) \ ready = WaitsOf(stack[t], u) \ ready
      BY <1>2 DEF Carrying
    <2> QED BY <1>1, <1>3, <2>1, SendsStep
  <1>12. Separate' /\ Untouched'
    <2>1. \A u \in Threads : /\ Handling(stack'[u]) = Handling(stack[u])
                             /\ u # t => Carries(stack'[u]) = Carries(stack[u])
                             /\ u = t => Carries(stack'[u]) = {}
      BY <1>2, <1>10 DEF Carrying
    <2>2. PICK k0 \in Kinds \ {"handling"} : k0 = "delayed"
      BY DEF Kinds
    <2>3. ASSUME NEW k \in Kinds, NEW u \in Threads, k # k0 \/ u # p
          PROVE  Holds(k, u)' \subseteq Holds(k, u) \ {m}
      <3>1. CASE k = "carried" /\ u = t
        BY <2>1, <3>1, HoldsIs
      <3>2. CASE k # "carried" \/ u # t
        <4>1. Holds(k, u)' = Holds(k, u)
          BY <1>3, <1>8, <2>1, <2>2, <2>3, <3>2, HoldsIs DEF Kinds
        <4> QED BY <4>1, <3>2, <1>2 DEF Carrying
      <3> QED BY <3>1, <3>2
    <2>4. Holds(k0, p)' \subseteq Holds(k0, p) \cup {m}
      BY <1>4, <1>7, <1>8, <2>2, HoldsIs
    <2>5. /\ m \in (1..made') \ (handled \cup gone) /\ 1..made \subseteq 1..made'
          /\ UNCHANGED <<handled, gone, ready>>
      BY <1>2, <1>3 DEF Carrying
    <2> QED BY <1>1, <2>3, <2>4, <2>5, MoveStep
  <1>13. Apart'
    <2>1. \A u \in Threads : IsInjective(msgq_[u]) /\ IsInjective(dmsgq_'[u]) /\ MsgsApart(sendlist_[u])
      BY <1>1, <1>7, <1>8 DEF Apart
    <2> QED BY <1>3, <1>12, <2>1 DEF Apart, MsgsApart, IsInjective
  <1> QED BY <1>9, <1>10, <1>11, <1>12, <1>13 DEF IndInv

LEMMA SendPushesStep ==
  ASSUME IndInv, NEW t \in Threads, SendPushes(t)
  PROVE  IndInv'
  <1>1. Typed /\ Stacks /\ Separate /\ Apart /\ Untouched /\ Sends /\ ReadyAlive
    BY DEF IndInv, Apart
  <1>2. PICK r \in Seq(Frames), f \in Frames, p \in Threads, m \in Messages :
          Carrying(t, r, f, p, m)
    BY CarrierOf DEF SendPushes, Posting
  <1>3. p # t
    BY <1>2 DEF Carrying, SendPushes
  <1>4. PICK g \in Frames : /\ g = [f EXCEPT !.at = "WakeUp"]
                            /\ g.at = "WakeUp" /\ g.peer = f.peer /\ g.msg = f.msg
    BY FrameAt DEF Places
  <1>5. PICK s \in Seq(Frames) : s = Append(r, g)
    BY PushedIsThere
  <1>6. PICK e \in Sent : e = [thread |-> t, msg |-> m] /\ e.thread = t /\ e.msg = m
    <2>1. PICK e : e = [thread |-> t, msg |-> m]
      OBVIOUS
    <2>2. e \in Sent /\ e.thread = t /\ e.msg = m
      BY <2>1 DEF Sent
    <2> QED BY <2>1, <2>2
  <1>7. PICK l \in Seq(Sent) : l = sendlist_[p] /\ MsgsApart(l) /\ m \notin MsgsOf(l) /\ NotFrom(l, p)
    <2>1. m \notin Holds("sent", p)
      BY <1>2 DEF Carrying, Kinds
    <2> QED BY <2>1, <1>1, HoldsIs DEF Typed, Apart, Sends
  <1>8. PICK q \in Seq(Sent) :
          /\ q = Append(l, e) /\ MsgsOf(q) = MsgsOf(l) \cup {m} /\ MsgsApart(q) /\ NotFrom(q, p)
          /\ \A a : MsgsBy(q, a) = MsgsBy(l, a) \cup (IF t = a THEN {m} ELSE {})
    <2>1. /\ Append(l, e) \in Seq(Sent)
          /\ MsgsOf(Append(l, e)) = MsgsOf(l) \cup {e.msg}
          /\ \A a : MsgsBy(Append(l, e), a)
                      = MsgsBy(l, a) \cup (IF e.thread = a THEN {e.msg} ELSE {})
          /\ MsgsApart(l) /\ e.msg \notin MsgsOf(l) => MsgsApart(Append(l, e))
          /\ \A a : NotFrom(l, a) /\ e.thread # a => NotFrom(Append(l, e), a)
      BY ListAppend
    <2> QED BY <2>1, <1>3, <1>6, <1>7
  <1>9. /\ stack' = [stack EXCEPT ![t] = s] /\ sendlist_' = [sendlist_ EXCEPT ![p] = q]
        /\ UNCHANGED <<msgq_, dmsgq_, due, fSignaled_, fStop_, ready, made, clears, handled, gone, missed>>
    BY <1>2, <1>4, <1>5, <1>6, <1>7, <1>8 DEF SendPushes, Go, Carrying, queueVars
  <1>10. sendlist_'[p] = q /\ \A u \in Threads : u # p => sendlist_'[u] = sendlist_[u]
    BY <1>1, <1>9 DEF Typed
  <1>11. Typed'
    <2>1. /\ stack' \in [Threads -> Seq(Frames)] /\ fSignaled_' \in [Threads -> BOOLEAN]
          /\ sendlist_' \in [Threads -> Seq(Sent)]
      BY <1>1, <1>9 DEF Typed
    <2> QED BY <1>1, <1>9, <2>1 DEF Typed
  <1>12. Legal(t, s)
    <2>1. Follows(Last(r), g) /\ g.at # "OnMessage" /\ g.peer # t
      BY <1>2, <1>3, <1>4 DEF Follows, Waiting, Carrying
    <2> QED BY <2>1, <1>2, <1>5, AppendLegal DEF Carrying
  <1>13. Stacks' /\ stack'[t] = s /\ \A u \in Threads : u # t => stack'[u] = stack[u]
    BY <1>1, <1>9, <1>12, StacksStep
  <1>14. /\ Handling(s) = Handling(r) /\ Carries(s) = {}
         /\ \A u : /\ WaitsOf(s, u) = WaitsOf(r, u) \cup (IF p = u THEN {m} ELSE {})
                   /\ HandlesOf(s, u) = HandlesOf(r, u)
    <2>1. g.at \in Waiting /\ g.peer = p /\ g.msg = m
      BY <1>2, <1>4 DEF Waiting, Carrying
    <2> QED BY <2>1, <1>5, WaitingFrame
  <1>15. \A v \in Threads : \A u : HandlesOf(stack'[v], u) = HandlesOf(stack[v], u)
    BY <1>2, <1>13, <1>14 DEF Carrying
  <1>16. Sends'
    <2>1. \A v \in Threads : /\ NotFrom(sendlist_'[v], v)
                             /\ \A u \in Threads : HandlesOf(stack'[v], u) \cap ready = {}
                             /\ HandlesOf(stack'[v], v) = {}
      BY <1>1, <1>8, <1>10, <1>15 DEF Sends
    <2> QED BY <2>1, <1>9 DEF Sends, NotFrom, HandlesOf
  <1>17. m \notin ready
    BY <1>1, <1>2 DEF Carrying, Untouched
  <1>18. ReadyAlive'
    <2>1. ASSUME NEW v \in Threads, NEW u \in Threads, v # u
          PROVE  Awaited(v, u)' = Owed(v, u)'
      <3>1. Awaited(v, u)' = WaitsOf(stack'[v], u) \ ready
        BY <1>9, AliveIs
      <3>2. Owed(v, u)' = MsgsBy(sendlist_'[u], v) \cup HandlesOf(stack'[u], v)
        BY AliveIs
      <3>3. WaitsOf(stack[v], u) \ ready = MsgsBy(sendlist_[u], v) \cup HandlesOf(stack[u], v)
        <4>1. Awaited(v, u) = Owed(v, u)
          BY <1>1, <2>1 DEF ReadyAlive
        <4>2. Awaited(v, u) = WaitsOf(stack[v], u) \ ready
          BY AliveIs
        <4>3. Owed(v, u) = MsgsBy(sendlist_[u], v) \cup HandlesOf(stack[u], v)
          BY AliveIs
        <4> QED BY <4>1, <4>2, <4>3
      <3>4. WaitsOf(stack'[v], u) = WaitsOf(stack[v], u) \cup (IF v = t /\ u = p THEN {m} ELSE {})
        <4>1. CASE v = t
          BY <4>1, <1>2, <1>13, <1>14 DEF Carrying
        <4>2. CASE v # t
          BY <4>2, <1>13
        <4> QED BY <4>1, <4>2
      <3>5. MsgsBy(sendlist_'[u], v)
              = MsgsBy(sendlist_[u], v) \cup (IF v = t /\ u = p THEN {m} ELSE {})
        <4>1. CASE u = p
          BY <4>1, <1>7, <1>8, <1>10
        <4>2. CASE u # p
          BY <4>2, <1>10
        <4> QED BY <4>1, <4>2
      <3>6. HandlesOf(stack'[u], v) = HandlesOf(stack[u], v)
        BY <1>15
      <3> QED BY <3>1, <3>2, <3>3, <3>4, <3>5, <3>6, <1>17
    <2> QED BY <2>1 DEF ReadyAlive
  <1>19. Separate' /\ Untouched'
    <2>1. \A u \in Threads : /\ Handling(stack'[u]) = Handling(stack[u])
                             /\ u # t => Carries(stack'[u]) = Carries(stack[u])
                             /\ u = t => Carries(stack'[u]) = {}
      BY <1>2, <1>13, <1>14 DEF Carrying
    <2>2. PICK k0 \in Kinds \ {"handling"} : k0 = "sent"
      BY DEF Kinds
    <2>3. ASSUME NEW k \in Kinds, NEW u \in Threads, k # k0 \/ u # p
          PROVE  Holds(k, u)' \subseteq Holds(k, u) \ {m}
      <3>1. CASE k = "carried" /\ u = t
        BY <2>1, <3>1, HoldsIs
      <3>2. CASE k # "carried" \/ u # t
        <4>1. Holds(k, u)' = Holds(k, u)
          BY <1>9, <1>10, <2>1, <2>2, <2>3, <3>2, HoldsIs DEF Kinds
        <4> QED BY <4>1, <3>2, <1>2 DEF Carrying
      <3> QED BY <3>1, <3>2
    <2>4. Holds(k0, p)' \subseteq Holds(k0, p) \cup {m}
      BY <1>7, <1>8, <1>10, <2>2, HoldsIs
    <2>5. /\ m \in (1..made') \ (handled \cup gone) /\ 1..made \subseteq 1..made'
          /\ UNCHANGED <<handled, gone, ready>>
      BY <1>2, <1>9 DEF Carrying
    <2> QED BY <1>1, <2>3, <2>4, <2>5, MoveStep
  <1>20. Apart'
    <2>1. \A u \in Threads : IsInjective(msgq_[u]) /\ IsInjective(dmsgq_[u]) /\ MsgsApart(sendlist_'[u])
      BY <1>1, <1>8, <1>10 DEF Apart
    <2> QED BY <1>9, <1>19, <2>1 DEF Apart, MsgsApart, IsInjective
  <1> QED BY <1>11, <1>13, <1>16, <1>18, <1>19, <1>20 DEF IndInv

LEMMA ReceiveSendStep ==
  ASSUME IndInv, NEW t \in Threads, ReceiveSend(t)
  PROVE  IndInv'
  <1>1. Typed /\ Stacks /\ Separate /\ Apart /\ Untouched /\ Sends /\ ReadyAlive
    BY DEF IndInv, Apart
  <1>2. PICK l \in Seq(Sent) : l = sendlist_[t] /\ MsgsApart(l) /\ NotFrom(l, t)
    BY <1>1 DEF Typed, Apart, Sends
  <1>3. PICK c \in Seq(Frames) : /\ c = stack[t] /\ Legal(t, c) /\ c # << >>
                                 /\ Last(c).at = "ReceiveSends" /\ Last(c) = Top(t)
    <2>1. stack[t] \in Seq(Frames) /\ Legal(t, stack[t])
      BY <1>1 DEF Typed, Stacks
    <2>2. stack[t] # << >>
      BY <2>1, EmptySeq DEF Legal, Shape
    <2> QED BY <2>1, <2>2 DEF ReceiveSend, Top
  <1>4. PICK i \in DOMAIN l :
          /\ Last(c).peer \in {NoThread, l[i].thread}
          /\ sendlist_' = [sendlist_ EXCEPT ![t] = RemoveAt(l, i)]
          /\ stack' = [stack EXCEPT ![t] = Append(c, Frame("Dispatch", l[i].thread, l[i].msg))]
          /\ UNCHANGED <<msgq_, dmsgq_, due, fSignaled_, fStop_, ready, made, clears, handled, gone, missed>>
    BY <1>2, <1>3 DEF ReceiveSend, Poppable, Call, queueVars
  <1>5. PICK a \in Threads, m \in Messages : a = l[i].thread /\ m = l[i].msg /\ a # t
    <2>1. l[i] \in Sent /\ l[i].thread # t
      BY <1>2, <1>4, ElementOfSeq, LenProperties DEF NotFrom
    <2> QED BY <2>1 DEF Sent
  <1>6. m \in MsgsOf(l) /\ m \in Holds("sent", t)
    BY <1>2, <1>4, <1>5, HoldsIs DEF MsgsOf
  <1>7. m \in (1..made) \ (handled \cup gone)
    <2>1. Holds("sent", t) \subseteq (1..made) \ (handled \cup gone)
      BY <1>1 DEF Untouched, Kinds
    <2> QED BY <2>1, <1>6
  <1>8. PICK g \in Frames : /\ g = Frame("Dispatch", a, m)
                            /\ g.at = "Dispatch" /\ g.peer = a /\ g.msg = m
    <2>1. "Dispatch" \in Places /\ a \in Threads \cup {NoThread} /\ m \in 0..MaxMessages
      BY RtcThreadAssumption DEF Places, Messages
    <2>2. /\ Frame("Dispatch", a, m) \in Frames /\ Frame("Dispatch", a, m).at = "Dispatch"
          /\ Frame("Dispatch", a, m).peer = a /\ Frame("Dispatch", a, m).msg = m
      BY <2>1, FrameIn
    <2> QED BY <2>2
  <1>9. PICK s \in Seq(Frames) : s = Append(c, g)
    BY PushedIsThere
  <1>10. PICK q \in Seq(Sent) : /\ q = RemoveAt(l, i) /\ MsgsOf(q) = MsgsOf(l) \ {m}
                                /\ \A b : MsgsBy(q, b) = MsgsBy(l, b) \ {m}
                                /\ MsgsApart(q) /\ NotFrom(q, t)
    <2>1. i \in 1..Len(l)
      BY <1>4, LenProperties
    <2>2. RemoveAt(l, i) \in Seq(Sent) /\ SubOf(RemoveAt(l, i), l, DOMAIN l \ {i})
      BY <2>1, RemovedSub
    <2>3. PICK q \in Seq(Sent) : q = RemoveAt(l, i)
      BY <2>2
    <2>4. PICK keep, S : keep \in SUBSET DOMAIN l /\ keep = DOMAIN l \ {i} /\ S = {m}
      OBVIOUS
    <2> keep \in SUBSET DOMAIN l BY <2>4
    <2>5. SubOf(q, l, keep)
      BY <2>2, <2>3, <2>4
    <2>6. \A j \in DOMAIN l : j \in keep <=> l[j].msg \notin S
      BY <1>2, <1>4, <1>5, <2>4 DEF MsgsApart
    <2>7. ListWithout(q, l, S)
      BY <1>2, <2>5, <2>6, ListSub
    <2> QED BY <1>2, <2>3, <2>4, <2>7 DEF ListWithout
  <1>11. \A b : m \in MsgsBy(l, b) <=> a = b
    BY <1>2, <1>4, <1>5, OneSender
  <1>12. /\ stack' = [stack EXCEPT ![t] = s] /\ sendlist_' = [sendlist_ EXCEPT ![t] = q]
    BY <1>4, <1>5, <1>8, <1>9, <1>10
  <1>13. sendlist_'[t] = q /\ \A u \in Threads : u # t => sendlist_'[u] = sendlist_[u]
    BY <1>1, <1>12 DEF Typed
  <1>14. Typed'
    <2>1. stack' \in [Threads -> Seq(Frames)] /\ sendlist_' \in [Threads -> Seq(Sent)]
      BY <1>1, <1>12 DEF Typed
    <2> QED BY <1>1, <1>4, <1>7, <1>12, <2>1 DEF Typed
  <1>15. Legal(t, s)
    <2>1. Follows(Last(c), g) /\ g.at \notin {"Send"} \cup Waiting
      BY <1>3, <1>4, <1>5, <1>8 DEF Follows, Taken, Waiting
    <2> QED BY <2>1, <1>3, <1>8, <1>9, AppendLegal
  <1>16. Stacks' /\ stack'[t] = s /\ \A u \in Threads : u # t => stack'[u] = stack[u]
    BY <1>1, <1>12, <1>15, StacksStep
  <1>17. Handling(s) = Handling(c) /\ Carries(s) = {m} /\ Carries(c) = {}
    <2>1. Handling(s) = Handling(c)
      BY ZenonT(40), <1>8, <1>9, AppendHandling
    <2>2. Carries(s) = {m}
      BY <1>8, <1>9, AppendCarries DEF InHand
    <2>3. Carries(c) = {}
      BY <1>3 DEF Carries, InHand, Posting
    <2> QED BY <2>1, <2>2, <2>3
  <1>18. ASSUME NEW u
         PROVE  /\ HandlesOf(s, u) = HandlesOf(c, u) \cup (IF a = u THEN {m} ELSE {})
                /\ WaitsOf(s, u) = WaitsOf(c, u)
    <2>1. HandlesOf(s, u)
            = HandlesOf(c, u) \cup (IF g.at \in Taken /\ g.peer = u THEN {g.msg} ELSE {})
      BY <1>9, AppendHandles
    <2>2. WaitsOf(s, u)
            = WaitsOf(c, u) \cup (IF g.at \in Waiting /\ g.peer = u THEN {g.msg} ELSE {})
      BY <1>9, AppendWaits
    <2>3. g.at \notin Waiting
      BY <1>8 DEF Waiting
    <2> QED BY <2>1, <2>2, <2>3, <1>8 DEF Taken
  <1>19. m \notin ready
    BY <1>1, <1>7 DEF Untouched
  <1>20. Sends'
    <2>1. ASSUME NEW v \in Threads
          PROVE  /\ NotFrom(sendlist_'[v], v) /\ HandlesOf(stack'[v], v) = {}
                 /\ \A u \in Threads : HandlesOf(stack'[v], u) \cap ready = {}
      <3>1. /\ NotFrom(sendlist_[v], v) /\ HandlesOf(stack[v], v) = {}
            /\ \A u \in Threads : HandlesOf(stack[v], u) \cap ready = {}
        BY <1>1 DEF Sends
      <3>2. CASE v = t
        <4>1. HandlesOf(s, t) = {}
          BY <3>1, <3>2, <1>3, <1>5, <1>18
        <4>2. \A u \in Threads : HandlesOf(s, u) \cap ready = {}
          BY <3>1, <3>2, <1>3, <1>18, <1>19
        <4> QED BY <3>2, <4>1, <4>2, <1>10, <1>13, <1>16
      <3>3. CASE v # t
        BY <3>1, <3>3, <1>13, <1>16
      <3> QED BY <3>2, <3>3
    <2> QED BY ZenonT(40), <2>1, <1>4 DEF Sends, NotFrom, HandlesOf
  <1>21. ReadyAlive'
    <2>1. ASSUME NEW v \in Threads, NEW u \in Threads, v # u
          PROVE  Awaited(v, u)' = Owed(v, u)'
      <3>1. Awaited(v, u)' = WaitsOf(stack'[v], u) \ ready
        BY <1>4, AliveIs
      <3>2. Owed(v, u)' = MsgsBy(sendlist_'[u], v) \cup HandlesOf(stack'[u], v)
        BY AliveIs
      <3>3. Awaited(v, u) = WaitsOf(stack[v], u) \ ready
        BY AliveIs
      <3>4. Owed(v, u) = MsgsBy(sendlist_[u], v) \cup HandlesOf(stack[u], v)
        BY AliveIs
      <3>5. WaitsOf(stack'[v], u) = WaitsOf(stack[v], u)
        BY <1>3, <1>16, <1>18
      <3>6. Owed(v, u)' = Owed(v, u)
        <4>1. CASE u = t
          <5>1. MsgsBy(sendlist_'[u], v) = MsgsBy(l, v) \ {m} /\ MsgsBy(sendlist_[u], v) = MsgsBy(l, v)
            BY <4>1, <1>2, <1>10, <1>13
          <5>2. HandlesOf(stack'[u], v) = HandlesOf(stack[u], v) \cup (IF a = v THEN {m} ELSE {})
            BY <4>1, <1>3, <1>16, <1>18
          <5>3. m \in MsgsBy(l, v) <=> a = v
            BY <1>11
          <5> QED BY <3>2, <3>4, <5>1, <5>2, <5>3
        <4>2. CASE u # t
          BY <4>2, <3>2, <3>4, <1>13, <1>16
        <4> QED BY <4>1, <4>2
      <3>7. Awaited(v, u) = Owed(v, u)
        BY <1>1, <2>1 DEF ReadyAlive
      <3> QED BY <3>1, <3>3, <3>5, <3>6, <3>7
    <2> QED BY <2>1 DEF ReadyAlive
  <1>22. Separate' /\ Untouched'
    <2>1. \A u \in Threads : /\ Handling(stack'[u]) = Handling(stack[u])
                             /\ u # t => Carries(stack'[u]) = Carries(stack[u])
                             /\ u = t => Carries(stack'[u]) = {m}
      BY <1>3, <1>16, <1>17
    <2>2. PICK k0 \in Kinds \ {"handling"} : k0 = "carried"
      BY DEF Kinds
    <2>3. ASSUME NEW k \in Kinds, NEW u \in Threads, k # k0 \/ u # t
          PROVE  Holds(k, u)' \subseteq Holds(k, u) \ {m}
      <3>1. CASE k = "sent" /\ u = t
        BY <3>1, <1>2, <1>10, <1>13, HoldsIs
      <3>2. CASE k # "sent" \/ u # t
        <4>1. Holds(k, u)' = Holds(k, u)
          BY <1>4, <1>13, <2>1, <2>3, <2>2, <3>2, HoldsIs DEF Kinds
        <4>2. Holds(k, u) \cap Holds("sent", t) = {}
          BY <1>1, <3>2 DEF Separate, Kinds
        <4> QED BY <4>1, <4>2, <1>6
      <3> QED BY <3>1, <3>2
    <2>4. Holds(k0, t)' \subseteq Holds(k0, t) \cup {m}
      BY <2>1, <2>2, HoldsIs
    <2>5. /\ m \in (1..made') \ (handled \cup gone) /\ 1..made \subseteq 1..made'
          /\ UNCHANGED <<handled, gone, ready>>
      BY <1>4, <1>7
    <2> QED BY <1>1, <2>3, <2>4, <2>5, MoveStep
  <1>23. Apart'
    <2>1. \A u \in Threads : IsInjective(msgq_[u]) /\ IsInjective(dmsgq_[u]) /\ MsgsApart(sendlist_'[u])
      BY <1>1, <1>10, <1>13 DEF Apart
    <2> QED BY <1>4, <1>22, <2>1 DEF Apart, MsgsApart, IsInjective
  <1> QED BY <1>14, <1>16, <1>20, <1>21, <1>22, <1>23 DEF IndInv

LEMMA GetTakesMessageStep ==
  ASSUME IndInv, NEW t \in Threads, GetTakesMessage(t)
  PROVE  IndInv'
  <1>1. Typed /\ Stacks /\ Separate /\ Apart /\ Untouched /\ Sends /\ ReadyAlive
    BY DEF IndInv, Apart
  <1>2. PICK r \in Seq(Frames), f \in Frames :
           /\ stack[t] = Append(r, f) /\ Top(t) = f
           /\ r # << >> => Follows(Last(r), f)
    BY <1>1, StackOf
  <1>3. f.at \in InGet /\ f.at \notin InHand \cup Waiting /\ f.at # "OnMessage"
    BY <1>2 DEF InGet, InHand, Posting, Waiting, GetTakesMessage
  <1>4. r = << >>
    BY <1>2, <1>3, Below
  <1>5. /\ Handling(stack[t]) = {} /\ Carries(stack[t]) = {}
        /\ \A u : WaitsOf(stack[t], u) = {} /\ HandlesOf(stack[t], u) = {}
    BY <1>2, <1>3, <1>4, PlainFrame, EmptyStack
  <1>6. PICK Q \in Seq(Messages), D \in Seq(Messages), n \in Nat :
          /\ Q = msgq_[t] /\ D = dmsgq_[t] /\ n = due[t] /\ n <= Len(D)
          /\ IsInjective(Q) /\ IsInjective(D) /\ ToSet(Q) \cap ToSet(D) = {}
    <2>1. Holds("posted", t) \cap Holds("delayed", t) = {}
      BY <1>1 DEF Separate, Kinds
    <2> QED BY <2>1, <1>1, HoldsIs DEF Typed, Apart
  <1>7. PICK p, d : p = SubSeq(D, 1, n) /\ d = SubSeq(D, n + 1, Len(D))
    OBVIOUS
  <1>8. /\ p \in Seq(Messages) /\ d \in Seq(Messages) /\ ToSet(D) = ToSet(p) \cup ToSet(d)
        /\ IsInjective(p) /\ IsInjective(d) /\ ToSet(p) \cap ToSet(d) = {}
    BY <1>6, <1>7, SplitApart
  <1>9. PICK T \in Seq(Messages) :
          T = Q \o p /\ ToSet(T) = ToSet(Q) \cup ToSet(p) /\ IsInjective(T)
    <2>1. /\ Q \o p \in Seq(Messages) /\ ToSet(Q \o p) = ToSet(Q) \cup ToSet(p)
          /\ IsInjective(Q) /\ IsInjective(p) /\ ToSet(Q) \cap ToSet(p) = {} => IsInjective(Q \o p)
      BY <1>8, ConcatApart
    <2>2. ToSet(Q) \cap ToSet(p) = {}
      BY <1>6, <1>8
    <2> QED BY <2>1, <2>2, <1>6, <1>8
  <1>10. T = Triggered(t) /\ T # << >>
    BY <1>6, <1>7, <1>9 DEF Triggered, GetTakesMessage
  <1>11. PICK m \in Messages, b \in Seq(Messages) :
           m = T[1] /\ b = Tail(T) /\ m \in ToSet(T) /\ ToSet(b) = ToSet(T) \ {m} /\ IsInjective(b)
    BY <1>9, <1>10, TailApart
  <1>12. PICK c \in Seq(Frames) :
           /\ c = Get /\ c # << >> /\ Legal(t, c) /\ Handling(c) = {}
           /\ \A u : WaitsOf(c, u) = {} /\ HandlesOf(c, u) = {}
           /\ Last(c).at = "ReceiveSends" /\ Last(c).peer = NoThread
    BY GetStack
  <1>13. PICK g \in Frames : /\ g = Frame("Dispatch", NoThread, m)
                             /\ g.at = "Dispatch" /\ g.peer = NoThread /\ g.msg = m
    <2>1. "Dispatch" \in Places /\ m \in 0..MaxMessages
      BY RtcThreadAssumption DEF Places, Messages
    <2>2. PICK a \in Threads \cup {NoThread} : a = NoThread
      OBVIOUS
    <2>3. /\ Frame("Dispatch", a, m) \in Frames /\ Frame("Dispatch", a, m).at = "Dispatch"
          /\ Frame("Dispatch", a, m).peer = a /\ Frame("Dispatch", a, m).msg = m
      BY <2>1, <2>2 DEF Frame, Frames
    <2> QED BY <2>2, <2>3
  <1>14. PICK s \in Seq(Frames) : s = Append(c, g)
    BY PushedIsThere
  <1>15. /\ stack' = [stack EXCEPT ![t] = s]
         /\ msgq_' = [msgq_ EXCEPT ![t] = b] /\ dmsgq_' = [dmsgq_ EXCEPT ![t] = d]
         /\ due' = [due EXCEPT ![t] = 0]
         /\ UNCHANGED <<sendlist_, fSignaled_, fStop_, ready, made, clears, handled, gone, missed>>
    BY <1>6, <1>7, <1>10, <1>11, <1>12, <1>13, <1>14 DEF GetTakesMessage
  <1>16. /\ msgq_'[t] = b /\ \A u \in Threads : u # t => msgq_'[u] = msgq_[u]
         /\ dmsgq_'[t] = d /\ \A u \in Threads : u # t => dmsgq_'[u] = dmsgq_[u]
    BY <1>1, <1>15 DEF Typed
  <1>17. ToSet(Q) \cup ToSet(D) \subseteq (1..made) \ (handled \cup gone)
    <2>1. /\ Holds("posted", t) \subseteq (1..made) \ (handled \cup gone)
          /\ Holds("delayed", t) \subseteq (1..made) \ (handled \cup gone)
      BY <1>1 DEF Untouched, Kinds
    <2> QED BY <2>1, <1>6, HoldsIs
  <1>18. m \in ToSet(Q) \cup ToSet(D) /\ m \in 1..made
    BY <1>8, <1>9, <1>11, <1>17
  <1>19. Typed'
    <2>1. /\ stack' \in [Threads -> Seq(Frames)] /\ msgq_' \in [Threads -> Seq(Messages)]
          /\ dmsgq_' \in [Threads -> Seq(Messages)] /\ due' \in [Threads -> Nat]
      BY <1>1, <1>8, <1>15 DEF Typed
    <2>2. Len(d) \in Nat
      BY <1>8, LenProperties
    <2>3. ASSUME NEW u \in Threads PROVE due'[u] <= Len(dmsgq_'[u])
      BY <1>1, <1>15, <1>16, <2>2 DEF Typed
    <2> QED BY <1>1, <1>15, <1>18, <2>1, <2>3 DEF Typed
  <1>20. Legal(t, s)
    <2>1. Follows(Last(c), g) /\ g.at \notin {"Send"} \cup Waiting /\ g.at # "OnMessage"
      BY <1>12, <1>13 DEF Follows, Taken, Waiting
    <2> QED BY <2>1, <1>12, <1>14, AppendLegal
  <1>21. Stacks' /\ stack'[t] = s /\ \A u \in Threads : u # t => stack'[u] = stack[u]
    BY <1>1, <1>15, <1>20, StacksStep
  <1>22. Handling(s) = {} /\ Carries(s) = {m}
    <2>1. Handling(s) = Handling(c)
      BY ZenonT(40), <1>13, <1>14, AppendHandling
    <2>2. Carries(s) = {m}
      BY <1>13, <1>14, AppendCarries DEF InHand
    <2> QED BY <2>1, <2>2, <1>12
  <1>23. Sends' /\ ReadyAlive'
    <2>1. ASSUME NEW u \in Threads
          PROVE  /\ HandlesOf(s, u) = HandlesOf(stack[t], u)
                 /\ WaitsOf(s, u) \ ready = WaitsOf(stack[t], u) \ ready
      <3>1. HandlesOf(s, u)
              = HandlesOf(c, u) \cup (IF g.at \in Taken /\ g.peer = u THEN {g.msg} ELSE {})
        BY <1>14, AppendHandles
      <3>2. WaitsOf(s, u)
              = WaitsOf(c, u) \cup (IF g.at \in Waiting /\ g.peer = u THEN {g.msg} ELSE {})
        BY <1>14, AppendWaits
      <3>3. g.at \notin Waiting /\ g.peer # u
        BY <1>13, RtcThreadAssumption DEF Waiting
      <3>4. HandlesOf(s, u) = {} /\ WaitsOf(s, u) = {}
        BY <3>1, <3>2, <3>3, <1>12
      <3> QED BY <3>4, <1>5
    <2> QED BY <1>1, <1>15, <2>1, SendsStep
  <1>24. /\ Holds("posted", t)' = (ToSet(Q) \cup ToSet(p)) \ {m}
         /\ Holds("delayed", t)' = ToSet(d)
         /\ Holds("carried", t)' = {m}
    BY <1>9, <1>11, <1>16, <1>21, <1>22, HoldsIs
  <1>25. ASSUME NEW k \in Kinds, NEW u \in Threads,
                u # t \/ k \notin {"posted", "delayed", "carried"}
         PROVE  Holds(k, u)' = Holds(k, u)
    <2>1. /\ Handling(stack'[u]) = Handling(stack[u]) /\ sendlist_'[u] = sendlist_[u]
          /\ u # t => /\ Carries(stack'[u]) = Carries(stack[u])
                      /\ msgq_'[u] = msgq_[u] /\ dmsgq_'[u] = dmsgq_[u]
      BY <1>5, <1>15, <1>16, <1>21, <1>22
    <2>2. CASE k = "handling" \/ k = "sent"
      BY <2>1, <2>2, HoldsIs
    <2>3. CASE u # t
      BY <2>1, <2>3, HoldsIs DEF Kinds
    <2> QED BY <2>2, <2>3, <1>25 DEF Kinds
  <1>26. /\ m \notin ToSet(d) /\ ((ToSet(Q) \cup ToSet(p)) \ {m}) \cap ToSet(d) = {}
         /\ ToSet(d) \subseteq ToSet(D) /\ ToSet(p) \subseteq ToSet(D)
    BY <1>6, <1>8, <1>9, <1>11
  <1>27. ASSUME NEW k \in Kinds, NEW u \in Threads,
                u # t \/ k \notin {"posted", "delayed", "carried"}
         PROVE  Holds(k, u) \cap (ToSet(Q) \cup ToSet(D)) = {}
    <2>1. Holds(k, u) \cap Holds("posted", t) = {} /\ Holds(k, u) \cap Holds("delayed", t) = {}
      BY <1>1, <1>27 DEF Separate, Kinds
    <2>2. Holds("posted", t) = ToSet(Q) /\ Holds("delayed", t) = ToSet(D)
      BY <1>6, HoldsIs
    <2> QED BY <2>1, <2>2
  <1>28. ASSUME NEW k \in {"posted", "delayed", "carried"}
         PROVE  Holds(k, t)' \subseteq ToSet(Q) \cup ToSet(D)
    BY <1>18, <1>24, <1>26
  <1>29. Separate'
    <2>1. ASSUME NEW k \in Kinds, NEW l \in Kinds, NEW u \in Threads, NEW v \in Threads,
                 k # l \/ u # v
          PROVE  Holds(k, u)' \cap Holds(l, v)' = {}
      <3>1. CASE /\ u = t /\ k \in {"posted", "delayed", "carried"}
                 /\ v = t /\ l \in {"posted", "delayed", "carried"}
        BY <3>1, <2>1, <1>24, <1>26
      <3>2. CASE /\ u = t /\ k \in {"posted", "delayed", "carried"}
                 /\ v # t \/ l \notin {"posted", "delayed", "carried"}
        BY <3>2, <1>25, <1>27, <1>28
      <3>3. CASE /\ u # t \/ k \notin {"posted", "delayed", "carried"}
                 /\ v = t /\ l \in {"posted", "delayed", "carried"}
        BY <3>3, <1>25, <1>27, <1>28
      <3>4. CASE /\ u # t \/ k \notin {"posted", "delayed", "carried"}
                 /\ v # t \/ l \notin {"posted", "delayed", "carried"}
        BY <3>4, <2>1, <1>1, <1>25 DEF Separate
      <3> QED BY <3>1, <3>2, <3>3, <3>4
    <2> QED BY <2>1 DEF Separate
  <1>30. Untouched'
    <2>1. ASSUME NEW k \in Kinds \ {"handling"}, NEW u \in Threads
          PROVE  Holds(k, u)' \subseteq (1..made) \ (handled \cup gone)
      <3>1. CASE u = t /\ k \in {"posted", "delayed", "carried"}
        BY <3>1, <1>17, <1>28
      <3>2. CASE u # t \/ k \notin {"posted", "delayed", "carried"}
        <4>1. Holds(k, u)' = Holds(k, u)
          BY <3>2, <1>25
        <4>2. Holds(k, u) \subseteq (1..made) \ (handled \cup gone)
          BY <1>1 DEF Untouched
        <4> QED BY <4>1, <4>2
      <3> QED BY <3>1, <3>2
    <2>2. ASSUME NEW u \in Threads PROVE Handling(stack[u])' \subseteq handled'
      <3>1. Handling(stack[u])' \subseteq Handling(stack[u])
        BY <1>21, <1>22
      <3> QED BY <3>1, <1>1, <1>15 DEF Untouched
    <2> QED BY <1>1, <1>15, <2>1, <2>2 DEF Untouched
  <1>31. Apart'
    <2>1. \A u \in Threads : IsInjective(msgq_'[u]) /\ IsInjective(dmsgq_'[u]) /\ MsgsApart(sendlist_[u])
      BY <1>1, <1>8, <1>11, <1>16 DEF Apart
    <2> QED BY <1>15, <1>29, <2>1 DEF Apart, MsgsApart, IsInjective
  <1> QED BY <1>19, <1>21, <1>23, <1>29, <1>30, <1>31 DEF IndInv

LEMMA DispatchStep ==
  ASSUME IndInv, NEW t \in Threads, Dispatch(t)
  PROVE  IndInv'
  <1>1. Typed /\ Stacks /\ Separate /\ Apart /\ Untouched /\ Sends /\ ReadyAlive
    BY DEF IndInv, Apart
  <1>2. PICK r \in Seq(Frames), f \in Frames :
           /\ stack[t] = Append(r, f) /\ Top(t) = f /\ Front(stack[t]) = r
           /\ r = << >> => f.at \in InGet
           /\ r # << >> => Legal(t, r) /\ Follows(Last(r), f)
    BY <1>1, StackOf
  <1>3. f.at = "Dispatch" /\ r # << >> /\ Legal(t, r) /\ Follows(Last(r), f)
    BY <1>2 DEF Dispatch, InGet
  <1>4. PICK g \in Frames : /\ g = [f EXCEPT !.at = "OnMessage"]
                            /\ g.at = "OnMessage" /\ g.peer = f.peer /\ g.msg = f.msg
    BY FrameAt DEF Places
  <1>5. PICK m : m = f.msg
    OBVIOUS
  <1>6. PICK s \in Seq(Frames) : s = Append(r, g)
    BY PushedIsThere
  <1>7. /\ stack' = [stack EXCEPT ![t] = s] /\ handled' = handled \cup {m}
        /\ UNCHANGED <<msgq_, dmsgq_, due, sendlist_, fSignaled_, fStop_, ready, made, clears,
                       gone, missed>>
    BY <1>2, <1>4, <1>5, <1>6 DEF Dispatch, Go, queueVars
  <1>8. Handling(stack[t]) = Handling(r) /\ Handling(s) = Handling(r) \cup {m}
    <2>1. /\ Handling(Append(r, f)) = Handling(r) \cup (IF f.at = "OnMessage" THEN {f.msg} ELSE {})
          /\ Handling(Append(r, g)) = Handling(r) \cup (IF g.at = "OnMessage" THEN {g.msg} ELSE {})
      BY AppendHandling
    <2> QED BY <2>1, <1>2, <1>3, <1>4, <1>5, <1>6
  <1>9. Carries(stack[t]) = {m} /\ Carries(s) = {}
    <2>1. /\ Carries(Append(r, f)) = (IF f.at \in InHand THEN {f.msg} ELSE {})
          /\ Carries(Append(r, g)) = (IF g.at \in InHand THEN {g.msg} ELSE {})
      BY AppendCarries
    <2>2. f.at \in InHand /\ g.at \notin InHand
      BY <1>3, <1>4 DEF InHand, Posting
    <2> QED BY <2>1, <2>2, <1>2, <1>5, <1>6
  <1>10. ASSUME NEW u
         PROVE  HandlesOf(s, u) = HandlesOf(stack[t], u) /\ WaitsOf(s, u) = WaitsOf(stack[t], u)
    <2>1. /\ HandlesOf(Append(r, f), u)
               = HandlesOf(r, u) \cup (IF f.at \in Taken /\ f.peer = u THEN {f.msg} ELSE {})
          /\ HandlesOf(Append(r, g), u)
               = HandlesOf(r, u) \cup (IF g.at \in Taken /\ g.peer = u THEN {g.msg} ELSE {})
      BY AppendHandles
    <2>2. /\ WaitsOf(Append(r, f), u)
               = WaitsOf(r, u) \cup (IF f.at \in Waiting /\ f.peer = u THEN {f.msg} ELSE {})
          /\ WaitsOf(Append(r, g), u)
               = WaitsOf(r, u) \cup (IF g.at \in Waiting /\ g.peer = u THEN {g.msg} ELSE {})
      BY AppendWaits
    <2>3. f.at \in Taken /\ g.at \in Taken /\ f.at \notin Waiting /\ g.at \notin Waiting
      BY <1>3, <1>4 DEF Taken, Waiting
    <2> QED BY <2>1, <2>2, <2>3, <1>2, <1>4, <1>6
  <1>11. Holds("carried", t) = {m}
    BY <1>9, HoldsIs
  <1>12. m \in (1..made) \ (handled \cup gone)
    <2>1. Holds("carried", t) \subseteq (1..made) \ (handled \cup gone)
      BY <1>1 DEF Untouched, Kinds
    <2> QED BY <2>1, <1>11
  <1>13. ASSUME NEW k \in Kinds, NEW u \in Threads, k # "carried" \/ u # t
         PROVE  m \notin Holds(k, u)
    <2>1. Holds(k, u) \cap Holds("carried", t) = {}
      BY <1>1, <1>13 DEF Separate, Kinds
    <2> QED BY <2>1, <1>11
  <1>14. Typed'
    <2>1. stack' \in [Threads -> Seq(Frames)]
      BY <1>1, <1>7 DEF Typed
    <2> QED BY <1>1, <1>7, <1>12, <2>1 DEF Typed
  <1>15. Legal(t, s)
    <2>1. Follows(Last(r), g) /\ g.at \notin {"Send"} \cup Waiting
      BY <1>3, <1>4 DEF Follows, Taken, Posting, Waiting
    <2>2. m \notin Handling(r)
      <3>1. m \notin Holds("handling", t)
        BY <1>13 DEF Kinds
      <3> QED BY <3>1, <1>8, HoldsIs
    <2> QED BY <2>1, <2>2, <1>3, <1>4, <1>5, <1>6, AppendLegal
  <1>16. Stacks' /\ stack'[t] = s /\ \A u \in Threads : u # t => stack'[u] = stack[u]
    BY <1>1, <1>7, <1>15, StacksStep
  <1>17. Sends' /\ ReadyAlive'
    BY <1>1, <1>7, <1>10, SendsStep
  <1>18. Separate' /\ Untouched'
    <2>1. \A u \in Threads : /\ u # t => /\ Handling(stack'[u]) = Handling(stack[u])
                                         /\ Carries(stack'[u]) = Carries(stack[u])
                             /\ u = t => /\ Handling(stack'[u]) = Handling(stack[u]) \cup {m}
                                         /\ Carries(stack'[u]) = {}
      BY <1>8, <1>9, <1>16
    <2>2. ASSUME NEW k \in Kinds, NEW u \in Threads, k # "handling" \/ u # t
          PROVE  Holds(k, u)' \subseteq Holds(k, u) \ {m}
      <3>1. CASE k = "carried" /\ u = t
        BY ZenonT(40), <3>1, <2>1, HoldsIs
      <3>2. CASE k # "carried" \/ u # t
        <4>1. Holds(k, u)' = Holds(k, u)
          BY <1>7, <2>1, <2>2, <3>2, HoldsIs DEF Kinds
        <4> QED BY <4>1, <3>2, <1>13
      <3> QED BY <3>1, <3>2
    <2>3. Holds("handling", t)' \subseteq Holds("handling", t) \cup {m}
      BY <2>1, HoldsIs
    <2> QED BY <1>1, <1>7, <2>2, <2>3, TakeStep
  <1>19. Apart'
    BY <1>1, <1>7, <1>18 DEF Apart, MsgsApart, IsInjective
  <1> QED BY <1>14, <1>16, <1>17, <1>18, <1>19 DEF IndInv

\* What Clear leaves of a queue.
LEMMA WithoutIs ==
  ASSUME NEW X, NEW s \in Seq(X), IsInjective(s), NEW S
  PROVE  /\ Without(s, S) \in Seq(X) /\ IsInjective(Without(s, S))
         /\ ToSet(Without(s, S)) = ToSet(s) \ S
  <1>1. PICK keep \in SUBSET DOMAIN s : keep = {i \in DOMAIN s : s[i] \notin S}
    OBVIOUS
  <1>2. PICK q : q = Selected(s, keep)
    OBVIOUS
  <1>3. q \in Seq(X) /\ SubOf(q, s, keep)
    BY <1>2, SelectedSub
  <1>4. ToSet(q) = {s[i] : i \in keep} /\ IsInjective(q)
    BY <1>3, SubOfSet
  <1>5. ToSet(q) = ToSet(s) \ S
    BY <1>1, <1>4 DEF ToSet
  <1> QED BY <1>1, <1>2, <1>3, <1>4, <1>5 DEF Without

\* Clear counts the due messages again.
LEMMA DueLeftFits ==
  ASSUME NEW X, NEW s \in Seq(X), NEW n \in Nat, n <= Len(s), NEW S
  PROVE  /\ Len(Without(SubSeq(s, 1, n), S)) \in Nat
         /\ Len(Without(SubSeq(s, 1, n), S)) <= Len(Without(s, S))
  <1>1. PICK k \in Nat : k = Len(s) /\ DOMAIN s = 1..k /\ n <= k
    BY LenProperties
  <1>2. PICK p \in Seq(X) : p = SubSeq(s, 1, n) /\ DOMAIN p = 1..n /\ \A i \in 1..n : p[i] = s[i]
    <2>1. 1 \in Nat /\ 1 <= n + 1 /\ n <= Len(s) /\ n - 1 + 1 = n
      BY <1>1
    <2>2. /\ SubSeq(s, 1, n) \in Seq(X) /\ Len(SubSeq(s, 1, n)) = n - 1 + 1
          /\ \A i \in 1..n-1+1 : SubSeq(s, 1, n)[i] = s[1+i-1]
      BY <2>1, PartOf
    <2>3. \A i \in 1..n : 1 + i - 1 = i
      OBVIOUS
    <2>4. DOMAIN SubSeq(s, 1, n) = 1..n
      BY <2>1, <2>2, LenProperties
    <2> QED BY <2>1, <2>2, <2>3, <2>4
  <1>3. PICK a \in SUBSET DOMAIN p, b \in SUBSET DOMAIN s :
          a = {i \in DOMAIN p : p[i] \notin S} /\ b = {i \in DOMAIN s : s[i] \notin S}
    OBVIOUS
  <1>4. /\ Len(Selected(p, a)) = Cardinality(a) /\ Cardinality(a) \in Nat
        /\ Len(Selected(s, b)) = Cardinality(b)
    BY SelectedSub
  <1>5. a \in SUBSET b
    <2>1. \A i \in 1..n : i \in 1..k
      BY <1>1
    <2> QED BY <2>1, <1>1, <1>2, <1>3
  <1>6. IsFiniteSet(b)
    BY <1>1, RankBijective
  <1>7. Cardinality(a) <= Cardinality(b)
    BY <1>5, <1>6, FS_Subset
  <1> QED BY <1>2, <1>3, <1>4, <1>7 DEF Without

LEMMA ClearStep ==
  ASSUME IndInv, NEW t \in Threads, NEW u \in Threads,
         NEW S \in SUBSET (Pending(u) \cup Popped(u)), Clear(t, u, S)
  PROVE  IndInv'
  <1>1. Typed /\ Stacks /\ Separate /\ Apart /\ Untouched /\ Sends /\ ReadyAlive
    BY DEF IndInv, Apart
  <1>2. PICK Q \in Seq(Messages), D \in Seq(Messages), n \in Nat, l \in Seq(Sent) :
          /\ Q = msgq_[u] /\ D = dmsgq_[u] /\ n = due[u] /\ n <= Len(D) /\ l = sendlist_[u]
          /\ IsInjective(Q) /\ IsInjective(D) /\ MsgsApart(l)
    BY <1>1 DEF Typed, Apart
  <1>3. PICK b \in Seq(Messages) : b = Without(Q, S) /\ IsInjective(b) /\ ToSet(b) = ToSet(Q) \ S
    BY <1>2, WithoutIs
  <1>4. PICK d \in Seq(Messages) : d = Without(D, S) /\ IsInjective(d) /\ ToSet(d) = ToSet(D) \ S
    BY <1>2, WithoutIs
  <1>5. PICK c \in Nat : c = DueLeft(u, S) /\ c <= Len(d)
    <2>1. DueLeft(u, S) = Len(Without(SubSeq(D, 1, n), S))
      BY <1>2 DEF DueLeft
    <2>2. /\ Len(Without(SubSeq(D, 1, n), S)) \in Nat
          /\ Len(Without(SubSeq(D, 1, n), S)) <= Len(Without(D, S))
      BY <1>2, DueLeftFits
    <2> QED BY <2>1, <2>2, <1>4
  <1>6. PICK q \in Seq(Sent) : q = Unsent(u, S) /\ ListWithout(q, l, S)
    <2>1. PICK keep \in SUBSET DOMAIN l : keep = {i \in DOMAIN l : l[i].msg \notin S}
      OBVIOUS
    <2>2. PICK q : q = Selected(l, keep)
      OBVIOUS
    <2>3. q \in Seq(Sent) /\ SubOf(q, l, keep)
      BY <2>2, SelectedSub
    <2>4. \A i \in DOMAIN l : i \in keep <=> l[i].msg \notin S
      BY <2>1
    <2>5. ListWithout(q, l, S)
      BY <1>2, <2>3, <2>4, ListSub
    <2> QED BY <1>2, <2>1, <2>2, <2>3, <2>5 DEF Unsent
  <1>7. PICK C : C = MsgsOf(l) \cap S
    OBVIOUS
  <1>8. C = {sendlist_[u][i].msg : i \in {j \in DOMAIN sendlist_[u] : sendlist_[u][j].msg \in S}}
    BY <1>2, <1>7 DEF MsgsOf
  \* What the thread of the queue has popped is out of Clear's reach.
  <1>9. PICK P, R : P = Popped(u) /\ R = S \ P
    OBVIOUS
  <1>10. ASSUME NEW v \in Threads
         PROVE  /\ Popped(v) \subseteq Carries(stack[v])
                /\ Top(v).at = "OnMessage" => Popped(v) = {}
    <2>1. stack[v] \in Seq(Frames) /\ Shape(stack[v])
      BY <1>1 DEF Typed, Stacks, Legal
    <2>2. ASSUME NEW i \in DOMAIN stack[v], stack[v][i].at = "Dispatch"
          PROVE  stack[v][i] = Top(v) /\ stack[v][i].msg \in Carries(stack[v])
      BY <2>1, <2>2, DispatchOnTop DEF Top
    <2> QED BY <2>2 DEF Popped
  <1>11. gone \cup (IF t = u THEN S ELSE S \ Popped(u)) = gone \cup R
    BY <1>9, <1>10 DEF Clear
  <1>12. P \subseteq Holds("carried", u)
    BY <1>9, <1>10, HoldsIs
  <1>13. P \cap (ToSet(Q) \cup ToSet(D) \cup MsgsOf(l)) = {}
    <2>1. /\ Holds("carried", u) \cap Holds("posted", u) = {}
          /\ Holds("carried", u) \cap Holds("delayed", u) = {}
          /\ Holds("carried", u) \cap Holds("sent", u) = {}
      BY <1>1 DEF Separate, Kinds
    <2>2. Holds("posted", u) = ToSet(Q) /\ Holds("delayed", u) = ToSet(D) /\ Holds("sent", u) = MsgsOf(l)
      BY <1>2, HoldsIs
    <2> QED BY <2>1, <2>2, <1>12
  <1>14. C \subseteq R
    BY <1>7, <1>9, <1>13
  <1>15. /\ sendlist_' = [sendlist_ EXCEPT ![u] = q] /\ ready' = ready \cup C
        /\ msgq_' = [msgq_ EXCEPT ![u] = b] /\ dmsgq_' = [dmsgq_ EXCEPT ![u] = d]
        /\ due' = [due EXCEPT ![u] = c] /\ gone' = gone \cup R
        /\ UNCHANGED <<fStop_, stack, made, handled>>
    BY <1>2, <1>3, <1>4, <1>5, <1>6, <1>8, <1>11 DEF Clear
  <1>16. /\ msgq_'[u] = b /\ \A w \in Threads : w # u => msgq_'[w] = msgq_[w]
         /\ dmsgq_'[u] = d /\ \A w \in Threads : w # u => dmsgq_'[w] = dmsgq_[w]
         /\ sendlist_'[u] = q /\ \A w \in Threads : w # u => sendlist_'[w] = sendlist_[w]
    BY <1>1, <1>15 DEF Typed
  <1>17. R \subseteq ToSet(Q) \cup ToSet(D) \cup MsgsOf(l)
    BY <1>2, <1>9 DEF Pending, MsgsOf
  <1>18. R \subseteq (1..made) \ (handled \cup gone)
    <2>1. /\ Holds("posted", u) \subseteq (1..made) \ (handled \cup gone)
          /\ Holds("delayed", u) \subseteq (1..made) \ (handled \cup gone)
          /\ Holds("sent", u) \subseteq (1..made) \ (handled \cup gone)
      BY <1>1 DEF Untouched, Kinds
    <2>2. Holds("posted", u) = ToSet(Q) /\ Holds("delayed", u) = ToSet(D) /\ Holds("sent", u) = MsgsOf(l)
      BY <1>2, HoldsIs
    <2> QED BY <2>1, <2>2, <1>17
  <1>19. Typed'
    <2>1. /\ msgq_' \in [Threads -> Seq(Messages)] /\ dmsgq_' \in [Threads -> Seq(Messages)]
          /\ sendlist_' \in [Threads -> Seq(Sent)] /\ due' \in [Threads -> Nat]
      BY <1>1, <1>15 DEF Typed
    <2>2. ASSUME NEW w \in Threads PROVE due'[w] <= Len(dmsgq_'[w])
      BY <1>1, <1>5, <1>15, <1>16 DEF Typed
    <2>3. fSignaled_' \in [Threads -> BOOLEAN]
      BY DEF Clear
    <2>4. clears' \in 0..MaxClears
      BY <1>1, RtcThreadAssumption DEF Typed, Clear
    <2>5. ready' \subseteq 1..made /\ gone' \subseteq 1..made
      BY <1>1, <1>15, <1>18, <1>14 DEF Typed
    <2>6. missed' \subseteq 1..made
      <3>1. Holds("carried", u) \subseteq 1..made
        BY <1>1 DEF Untouched, Kinds
      <3>2. missed' \subseteq missed \cup P
        BY <1>9 DEF Clear
      <3> QED BY <3>1, <3>2, <1>1, <1>12 DEF Typed
    <2> QED BY <1>1, <1>15, <2>1, <2>2, <2>3, <2>4, <2>5, <2>6 DEF Typed
  <1>20. Stacks'
    BY <1>1, <1>15 DEF Stacks, Legal, Shape, HandlesApart, SendsAway
  <1>21. ASSUME NEW k \in Kinds, NEW w \in Threads, w # u \/ k \in {"carried", "handling"}
         PROVE  Holds(k, w)' = Holds(k, w) /\ Holds(k, w) \cap R = {}
    <2>1. Holds(k, w)' = Holds(k, w)
      <3>1. /\ Holds("carried", w)' = Holds("carried", w)
            /\ Holds("handling", w)' = Holds("handling", w)
        BY <1>15, HoldsIs
      <3>2. ASSUME w # u
            PROVE  /\ Holds("posted", w)' = Holds("posted", w)
                   /\ Holds("delayed", w)' = Holds("delayed", w)
                   /\ Holds("sent", w)' = Holds("sent", w)
        BY <3>2, <1>16, HoldsIs
      <3> QED BY <3>1, <3>2, <1>21 DEF Kinds
    <2>2. /\ Holds(k, w) \cap Holds("posted", u) = {} /\ Holds(k, w) \cap Holds("delayed", u) = {}
          /\ Holds(k, w) \cap Holds("sent", u) = {}
      BY <1>1, <1>21 DEF Separate, Kinds
    <2>3. Holds("posted", u) = ToSet(Q) /\ Holds("delayed", u) = ToSet(D) /\ Holds("sent", u) = MsgsOf(l)
      BY <1>2, HoldsIs
    <2> QED BY <2>1, <2>2, <2>3, <1>17
  <1>22. ASSUME NEW k \in {"posted", "delayed", "sent"}
         PROVE  Holds(k, u)' \subseteq Holds(k, u) \ R
    <2>1. MsgsOf(q) = MsgsOf(l) \ S
      BY <1>6 DEF ListWithout
    <2>2. /\ Holds("posted", u)' = ToSet(Q) \ S /\ Holds("posted", u) = ToSet(Q)
          /\ Holds("delayed", u)' = ToSet(D) \ S /\ Holds("delayed", u) = ToSet(D)
          /\ Holds("sent", u)' = MsgsOf(l) \ S /\ Holds("sent", u) = MsgsOf(l)
      BY <1>2, <1>3, <1>4, <1>16, <2>1, HoldsIs
    <2> QED BY <2>2, <1>9
  <1>23. Separate' /\ Untouched'
    <2>1. ASSUME NEW k \in Kinds, NEW w \in Threads PROVE Holds(k, w)' \subseteq Holds(k, w) \ R
      <3>1. CASE w # u \/ k \in {"carried", "handling"}
        BY <3>1, <1>21
      <3>2. CASE w = u /\ k \in {"posted", "delayed", "sent"}
        BY <3>2, <1>22
      <3> QED BY <3>1, <3>2 DEF Kinds
    <2>2. /\ \A k \in Kinds, w \in Threads : Holds(k, w)' \subseteq Holds(k, w)
          /\ \A k \in Kinds \ {"handling"}, w \in Threads : Holds(k, w)' \cap R = {}
      BY <2>1
    <2>3. /\ handled' = handled /\ 1..made \subseteq 1..made' /\ gone' = gone \cup R
          /\ ready' \subseteq handled \cup gone'
      BY <1>1, <1>14, <1>15 DEF Untouched
    <2> QED BY <1>1, <2>2, <2>3, ShrinkStep
  <1>24. Apart'
    <2>1. MsgsApart(q)
      BY <1>6 DEF ListWithout
    <2>2. \A w \in Threads : /\ IsInjective(msgq_'[w]) /\ IsInjective(dmsgq_'[w])
                             /\ MsgsApart(sendlist_'[w])
      BY <1>1, <1>3, <1>4, <1>16, <2>1 DEF Apart
    <2> QED BY <1>23, <2>2 DEF Apart, MsgsApart, IsInjective
  <1>25. ASSUME NEW v \in Threads, NEW w PROVE HandlesOf(stack[v], w) \cap R = {}
    <2>1. Holds("handling", v) \cap R = {} /\ Holds("carried", v) \cap R = {}
      BY <1>21 DEF Kinds
    <2>2. HandlesOf(stack[v], w) \subseteq Handling(stack[v]) \cup Carries(stack[v])
      BY <1>1, HandlesOfWhat DEF Typed, Stacks, Legal
    <2> QED BY <2>1, <2>2, HoldsIs
  <1>26. Sends'
    <2>1. ASSUME NEW v \in Threads
          PROVE  /\ NotFrom(sendlist_'[v], v) /\ HandlesOf(stack[v], v) = {}
                 /\ \A w \in Threads : HandlesOf(stack[v], w) \cap ready' = {}
      <3>1. /\ NotFrom(sendlist_[v], v) /\ HandlesOf(stack[v], v) = {}
            /\ \A w \in Threads : HandlesOf(stack[v], w) \cap ready = {}
        BY <1>1 DEF Sends
      <3>2. NotFrom(sendlist_'[v], v)
        BY <3>1, <1>2, <1>6, <1>16 DEF ListWithout
      <3>3. \A w \in Threads : HandlesOf(stack[v], w) \cap ready' = {}
        BY <3>1, <1>14, <1>15, <1>25
      <3> QED BY <3>1, <3>2, <3>3
    <2>2. \A v \in Threads : /\ NotFrom(sendlist_'[v], v) /\ HandlesOf(stack'[v], v) = {}
                             /\ \A w \in Threads : HandlesOf(stack'[v], w) \cap ready' = {}
      BY <2>1, <1>15
    <2> QED BY <2>2 DEF Sends, NotFrom, HandlesOf
  <1>27. ReadyAlive'
    <2>1. ASSUME NEW v \in Threads, NEW w \in Threads, v # w
          PROVE  Awaited(v, w)' = Owed(v, w)'
      <3>1. Awaited(v, w)' = WaitsOf(stack[v], w) \ (ready \cup C)
        BY <1>15, AliveIs
      <3>2. Owed(v, w)' = MsgsBy(sendlist_'[w], v) \cup HandlesOf(stack[w], v)
        BY <1>15, AliveIs
      <3>3. Awaited(v, w) = WaitsOf(stack[v], w) \ ready
        BY AliveIs
      <3>4. Owed(v, w) = MsgsBy(sendlist_[w], v) \cup HandlesOf(stack[w], v)
        BY AliveIs
      <3>5. Awaited(v, w) = Owed(v, w)
        BY <1>1, <2>1 DEF ReadyAlive
      <3>6. HandlesOf(stack[w], v) \cap C = {}
        BY <1>14, <1>25
      <3>7. MsgsBy(sendlist_'[w], v) = MsgsBy(sendlist_[w], v) \ C
        <4>1. CASE w = u
          <5>1. MsgsBy(q, v) = MsgsBy(l, v) \ S
            BY <1>6 DEF ListWithout
          <5>2. MsgsBy(l, v) \subseteq MsgsOf(l)
            BY SubsetsOf
          <5> QED BY <4>1, <5>1, <5>2, <1>2, <1>7, <1>16
        <4>2. CASE w # u
          <5>1. Holds("sent", w) \cap R = {}
            BY <4>2, <1>21 DEF Kinds
          <5>2. MsgsBy(sendlist_[w], v) \subseteq MsgsOf(sendlist_[w])
            BY SubsetsOf
          <5>3. MsgsBy(sendlist_[w], v) \cap C = {}
            BY <5>1, <5>2, <1>14, HoldsIs
          <5> QED BY <4>2, <5>3, <1>16
        <4> QED BY <4>1, <4>2
      <3> QED BY <3>1, <3>2, <3>3, <3>4, <3>5, <3>6, <3>7
    <2> QED BY <2>1 DEF ReadyAlive
  <1> QED BY <1>19, <1>20, <1>23, <1>24, <1>26, <1>27 DEF IndInv

-----------------------------------------------------------------------------
(* The invariant holds.                                                    *)

LEMMA InitInv ==
  ASSUME Init
  PROVE  IndInv
  <1>1. PICK n \in 0..MaxMessages : UNION {ToSet(msgq_[t]) : t \in Threads} = 1..n
    BY RtcThreadAssumption DEF Init
  <1>2. made = n
    <2>1. n \in Nat /\ 1 \in Int /\ n \in Int
      BY RtcThreadAssumption
    <2>2. Cardinality(1..n) = IF 1 > n THEN 0 ELSE n-1+1
      BY <2>1, FS_Interval
    <2>3. Cardinality(1..n) = n
      BY <2>1, <2>2
    <2> QED BY <1>1, <2>3 DEF Init
  <1>3. ASSUME NEW t \in Threads
        PROVE  /\ stack[t] \in Seq(Frames) /\ Legal(t, stack[t])
               /\ Handling(stack[t]) = {} /\ Carries(stack[t]) = {}
               /\ \A u : WaitsOf(stack[t], u) = {} /\ HandlesOf(stack[t], u) = {}
    <2>1. CASE msgq_[t] = << >>
      <3>1. PICK e \in Seq(Frames) : e = << >>
        BY EmptySeq
      <3>2. PICK f \in Frames : f = Frame("wait", NoThread, 0) /\ f.at = "wait"
        <4>1. "wait" \in Places /\ 0 \in 0..MaxMessages /\ NoThread \in Threads \cup {NoThread}
          BY RtcThreadAssumption DEF Places
        <4>2. PICK f : f = Frame("wait", NoThread, 0)
          OBVIOUS
        <4>3. f \in Frames /\ f.at = "wait"
          BY <4>1, <4>2 DEF Frame, Frames
        <4> QED BY <4>2, <4>3
      <3>3. stack[t] = Append(e, f)
        BY <2>1, <3>1, <3>2 DEF Init
      <3>4. f.at \in InGet /\ f.at \notin InHand \cup Waiting /\ f.at # "OnMessage"
        BY <3>2 DEF InGet, InHand, Posting, Waiting
      <3>5. stack[t] \in Seq(Frames) /\ Legal(t, stack[t])
        <4>1. Append(e, f) \in Seq(Frames)
          BY PushedIsThere
        <4>2. Legal(t, Append(e, f))
          BY <3>1, <3>4, AppendLegal
        <4> QED BY <3>3, <4>1, <4>2
      <3>6. /\ Handling(stack[t]) = {} /\ Carries(stack[t]) = {}
            /\ \A u : WaitsOf(stack[t], u) = {} /\ HandlesOf(stack[t], u) = {}
        BY <3>1, <3>3, <3>4, PlainFrame, EmptyStack
      <3> QED BY <3>5, <3>6
    <2>2. CASE msgq_[t] # << >>
      <3>1. stack[t] = Get
        BY <2>2 DEF Init
      <3> QED BY <3>1, GetStack
    <2> QED BY <2>1, <2>2
  <1>4. Typed
    <2>1. msgq_ \in [Threads -> Seq(Messages)]
      BY RtcThreadAssumption DEF Init
    <2>2. stack \in [Threads -> Seq(Frames)]
      BY <1>3 DEF Init
    <2>3. /\ dmsgq_ \in [Threads -> Seq(Messages)] /\ due \in [Threads -> Nat]
          /\ \A t \in Threads : due[t] <= Len(dmsgq_[t])
          /\ sendlist_ \in [Threads -> Seq(Sent)]
      BY EmptySeq DEF Init
    <2>4. clears \in 0..MaxClears
      BY RtcThreadAssumption DEF Init
    <2> QED BY <1>2, <2>1, <2>2, <2>3, <2>4 DEF Init, Typed
  <1>5. ASSUME NEW t \in Threads
        PROVE  /\ Holds("posted", t) = ToSet(msgq_[t]) /\ Holds("posted", t) \subseteq 1..n
               /\ Holds("delayed", t) = {} /\ Holds("sent", t) = {}
               /\ Holds("carried", t) = {} /\ Holds("handling", t) = {}
    <2>1. Holds("posted", t) = ToSet(msgq_[t]) /\ ToSet(msgq_[t]) \subseteq 1..n
      BY <1>1, HoldsIs
    <2>2. Holds("delayed", t) = {} /\ Holds("sent", t) = {}
      <3>1. dmsgq_[t] = << >> /\ sendlist_[t] = << >>
        BY DEF Init
      <3>2. ToSet(<< >>) = {} /\ MsgsOf(<< >>) = {}
        BY DEF ToSet, MsgsOf
      <3> QED BY <3>1, <3>2, HoldsIs
    <2>3. Holds("carried", t) = {} /\ Holds("handling", t) = {}
      BY <1>3, HoldsIs
    <2> QED BY <2>1, <2>2, <2>3
  <1>6. \A t \in Threads : \A i, j \in DOMAIN msgq_[t] : msgq_[t][i] = msgq_[t][j] => i = j
    BY RtcThreadAssumption DEF Init
  <1>7. ASSUME NEW t \in Threads, NEW u \in Threads, t # u
        PROVE  ToSet(msgq_[t]) \cap ToSet(msgq_[u]) = {}
    <2>1. \A i \in DOMAIN msgq_[t], j \in DOMAIN msgq_[u] : msgq_[t][i] # msgq_[u][j]
      BY <1>7, RtcThreadAssumption DEF Init
    <2> QED BY <2>1 DEF ToSet
  <1>8. Separate
    <2>1. ASSUME NEW k \in Kinds, NEW l \in Kinds, NEW t \in Threads, NEW u \in Threads,
                 k # l \/ t # u
          PROVE  Holds(k, t) \cap Holds(l, u) = {}
      <3>1. CASE k = "posted" /\ l = "posted"
        BY <3>1, <2>1, <1>5, <1>7
      <3>2. CASE k # "posted" \/ l # "posted"
        BY <3>2, <1>5 DEF Kinds
      <3> QED BY <3>1, <3>2
    <2> QED BY <2>1 DEF Separate
  <1>9. Apart
    <2>1. ASSUME NEW t \in Threads
          PROVE  IsInjective(msgq_[t]) /\ IsInjective(dmsgq_[t]) /\ MsgsApart(sendlist_[t])
      <3>1. dmsgq_[t] = << >> /\ sendlist_[t] = << >>
        BY DEF Init
      <3>2. IsInjective(<< >>) /\ MsgsApart(<< >>)
        BY DEF IsInjective, MsgsApart
      <3> QED BY <1>6, <3>1, <3>2 DEF IsInjective
    <2> QED BY <1>8, <2>1 DEF Apart
  <1>10. Untouched
    <2>1. ready = {} /\ handled = {} /\ gone = {}
      BY DEF Init
    <2>2. ASSUME NEW k \in Kinds \ {"handling"}, NEW t \in Threads
          PROVE  Holds(k, t) \subseteq 1..made
      BY <1>2, <1>5 DEF Kinds
    <2> QED BY <1>3, <2>1, <2>2 DEF Untouched
  <1>11. ASSUME NEW t PROVE NotFrom(<< >>, t) /\ MsgsBy(<< >>, t) = {}
    BY DEF NotFrom, MsgsBy
  <1>12. Sends
    BY <1>3, <1>11 DEF Init, Sends
  <1>13. ReadyAlive
    <2>1. ASSUME NEW t \in Threads, NEW u \in Threads PROVE Awaited(t, u) = {} /\ Owed(t, u) = {}
      <3>1. Awaited(t, u) = WaitsOf(stack[t], u) \ ready
        BY AliveIs
      <3>2. Owed(t, u) = MsgsBy(sendlist_[u], t) \cup HandlesOf(stack[u], t)
        BY AliveIs
      <3>3. MsgsBy(sendlist_[u], t) = {}
        BY <1>11 DEF Init
      <3> QED BY <3>1, <3>2, <3>3, <1>3
    <2> QED BY <2>1 DEF ReadyAlive
  <1>14. Stacks
    BY <1>3 DEF Stacks
  <1> QED BY <1>4, <1>9, <1>10, <1>12, <1>13, <1>14 DEF IndInv

LEMMA RunningStep ==
  ASSUME IndInv, NEW t \in Threads, Running(t)
  PROVE  IndInv'
  <1>1. CASE \E to \in Threads : \/ <<t, to>> \in PostsTo /\ Make(t, "Post", to)
                                 \/ <<t, to>> \in PostsTo /\ Make(t, "DoDelayPost", to)
                                 \/ <<t, to>> \in SendsTo /\ Make(t, "Send", to)
    <2>1. PICK to \in Threads : \/ Make(t, "Post", to)
                                \/ Make(t, "DoDelayPost", to)
                                \/ <<t, to>> \in SendsTo /\ Make(t, "Send", to)
      BY <1>1
    <2>2. "Post" \in Posting /\ "DoDelayPost" \in Posting /\ "Send" \in Posting
      BY DEF Posting
    <2>3. CASE Make(t, "Post", to)
      BY <2>2, <2>3, MakeStep
    <2>4. CASE Make(t, "DoDelayPost", to)
      BY <2>2, <2>4, MakeStep
    <2>5. CASE <<t, to>> \in SendsTo /\ Make(t, "Send", to)
      <3>1. to # t
        BY <2>5, RtcThreadAssumption
      <3> QED BY <2>2, <2>5, <3>1, MakeStep
    <2> QED BY <2>1, <2>3, <2>4, <2>5
  <1>2. CASE \E u \in Threads : \E S \in SUBSET (Pending(u) \cup Popped(u)) :
               <<t, u>> \in ClearsOf /\ Clear(t, u, S)
    <2>1. PICK u \in Threads : \E S \in SUBSET (Pending(u) \cup Popped(u)) : Clear(t, u, S)
      BY <1>2
    <2> QED BY <2>1, ClearStep
  <1>3. CASE GetTakesMessage(t)
    BY <1>3, GetTakesMessageStep
  <1>4. CASE GetFindsNothing(t)
    BY <1>4, GetFindsNothingStep
  <1>5. CASE GetStops(t)
    BY <1>5, GetStopsStep
  <1>6. CASE GetWakes(t)
    BY <1>6, GetWakesStep
  <1>7. CASE ReceiveSend(t)
    BY <1>7, ReceiveSendStep
  <1>8. CASE ReceiveSendsReturns(t)
    BY <1>8, ReceiveSendsReturnsStep
  <1>9. CASE OnMessageReturns(t)
    BY <1>9, OnMessageReturnsStep
  <1>10. CASE Post(t)
    BY <1>10, PostStep
  <1>11. CASE DoDelayPost(t)
    BY <1>11, DoDelayPostStep
  <1>12. CASE SendPushes(t)
    BY <1>12, SendPushesStep
  <1>13. CASE SendLoops(t)
    BY <1>13, SendLoopsStep
  <1>14. CASE SendWakes(t)
    BY <1>14, SendWakesStep
  <1>15. CASE SendReturns(t)
    BY <1>15, SendReturnsStep
  <1>16. CASE Dispatch(t)
    BY <1>16, DispatchStep
  <1>17. CASE SendSignals(t)
    BY <1>17, SendSignalsStep
  <1> QED BY <1>1, <1>2, <1>3, <1>4, <1>5, <1>6, <1>7, <1>8, <1>9, <1>10, <1>11, <1>12,
             <1>13, <1>14, <1>15, <1>16, <1>17 DEF Running

LEMMA StutterInv ==
  ASSUME IndInv, UNCHANGED vars
  PROVE  IndInv'
  <1>1. Typed'
    BY DEF IndInv, Typed, vars, queueVars
  <1>2. CASE Threads = {}
    <2>1. Stacks' /\ Apart' /\ Sends' /\ ReadyAlive'
      BY <1>2 DEF Stacks, Apart, Separate, Sends, ReadyAlive
    <2>2. Untouched'
      BY <1>2 DEF IndInv, Untouched, vars
    <2> QED BY <1>1, <2>1, <2>2 DEF IndInv
  <1>3. CASE Threads # {}
    <2>1. PICK t \in Threads : TRUE
      BY <1>3
    <2> QED BY <1>1, <2>1, StackStays DEF vars, queueVars
  <1> QED BY <1>2, <1>3

LEMMA NextInv ==
  ASSUME IndInv, [Next]_vars
  PROVE  IndInv'
  <1>1. ASSUME NEW t \in Threads, Running(t) PROVE IndInv'
    BY <1>1, RunningStep
  <1>2. ASSUME NEW t \in Threads, TriggerTime(t) PROVE IndInv'
    BY <1>2, TriggerTimeStep
  <1>3. ASSUME NEW t \in QuitThreads, Quit(t) PROVE IndInv'
    <2>1. t \in Threads
      BY RtcThreadAssumption
    <2> QED BY <1>3, <2>1, QuitStep
  <1>4. ASSUME NEW t \in FailingWaits, GetWaitFails(t) \/ SendWaitFails(t) PROVE IndInv'
    <2>1. t \in Threads
      BY RtcThreadAssumption
    <2> QED BY <1>4, <2>1, GetWaitFailsStep, SendWakesStep
  <1> QED BY <1>1, <1>2, <1>3, <1>4, StutterInv DEF Next

\* The inductive invariant: messages are in one place at a time, stacks are what the
\* code can call, and senders and receivers agree about what is still to be answered.
THEOREM Invariance == Spec => []IndInv
  BY InitInv, NextInv, PTL DEF Spec

-----------------------------------------------------------------------------
(* What follows.                                                           *)

\* Messages, frames and flags keep their types, no more messages are due than are
\* delayed, and no thread has sent to itself (messagequeue.cc, thread.cc).
THEOREM TypeCorrect == Spec => []TypeOK
  <1>1. ASSUME IndInv PROVE TypeOK
    <2>1. ASSUME NEW t \in Threads
          PROVE  /\ Pending(t) \subseteq Messages
                 /\ due[t] \in 0..Len(dmsgq_[t])
                 /\ stack[t] # << >>
                 /\ \A i \in DOMAIN stack[t] : stack[t][i] \in Frames
                 /\ \A i \in DOMAIN sendlist_[t] : sendlist_[t][i].thread \in Threads \ {t}
      <3>1. /\ msgq_[t] \in Seq(Messages) /\ dmsgq_[t] \in Seq(Messages)
            /\ sendlist_[t] \in Seq(Sent) /\ stack[t] \in Seq(Frames)
            /\ due[t] \in Nat /\ due[t] <= Len(dmsgq_[t])
        BY <1>1 DEF IndInv, Typed
      <3>2. \A i \in DOMAIN sendlist_[t] : sendlist_[t][i] \in Sent
        BY <3>1, LenProperties, ElementOfSeq
      <3>3. ToSet(msgq_[t]) \subseteq Messages /\ ToSet(dmsgq_[t]) \subseteq Messages
        BY <3>1, LenProperties, ElementOfSeq DEF ToSet
      <3>4. Pending(t) \subseteq Messages
        BY <3>2, <3>3 DEF Pending, Sent
      <3>5. due[t] \in 0..Len(dmsgq_[t])
        BY <3>1, LenProperties
      <3>6. stack[t] # << >>
        BY <1>1, <3>1, EmptySeq DEF IndInv, Stacks, Legal, Shape
      <3>7. \A i \in DOMAIN stack[t] : stack[t][i] \in Frames
        BY <3>1, LenProperties, ElementOfSeq
      <3>8. \A i \in DOMAIN sendlist_[t] : sendlist_[t][i].thread \in Threads \ {t}
        BY <1>1, <3>2 DEF IndInv, Sends, NotFrom, Sent
      <3> QED BY <3>4, <3>5, <3>6, <3>7, <3>8
    <2>2. /\ fSignaled_ \in [Threads -> BOOLEAN] /\ fStop_ \in [Threads -> BOOLEAN]
          /\ (ready \cup handled \cup gone \cup missed) \subseteq 1..made
          /\ made \in 0..MaxMessages /\ clears \in 0..MaxClears
      BY <1>1 DEF IndInv, Typed
    <2> QED BY <2>1, <2>2 DEF TypeOK, Frames
  <1> QED BY <1>1, Invariance, PTL

\* The flag a receiver sets on the sender's stack still exists when it does: the sent
\* messages a thread has listed, popped or handles are those some Send waits for
\* (Thread::Send, ReceiveSendsFromThread, Clear).
THEOREM ReadyFlagsAlive == Spec => []ReadyAlive
  <1>1. IndInv => ReadyAlive
    BY DEF IndInv
  <1> QED BY <1>1, Invariance, PTL

\* While a thread waits in Send, only the thread it waits for can call into it
\* (Thread::Send, ReceiveSendsFromThread).
THEOREM NoOtherReenters == Spec => []OnlyTargetReenters
  <1>1. ASSUME IndInv PROVE OnlyTargetReenters
    <2>1. ASSUME NEW t \in Threads, NEW i \in DOMAIN stack[t], NEW j \in DOMAIN stack[t],
                 i < j, stack[t][i].at = "Wait", stack[t][j].at = "OnMessage",
                 \A k \in i+1..j-1 : stack[t][k].at # "Wait"
          PROVE  stack[t][j].peer = stack[t][i].peer
      <3>1. PICK s \in Seq(Frames) : s = stack[t] /\ Shape(s)
        BY <1>1 DEF IndInv, Typed, Stacks, Legal
      <3>2. PICK n \in Nat : n = Len(s) /\ DOMAIN s = 1..n
        BY LenProperties
      <3>3. /\ s[1].at \in InGet /\ \A k \in 1..n-1 : Follows(s[k], s[k+1])
            /\ i \in 1..n /\ j \in 1..n /\ i \in Int /\ j \in Int
        BY <2>1, <3>1, <3>2 DEF Shape
      <3>4. s[i].peer \in Threads /\ s[i].peer # NoThread
        <4>1. i # 1
          BY <2>1, <3>1, <3>3 DEF InGet
        <4>2. i - 1 \in 1..n-1 /\ (i - 1) + 1 = i
          BY <3>2, <3>3, <4>1
        <4>3. Follows(s[i-1], s[i])
          BY <3>3, <4>2
        <4>4. s[i].at = "Wait"
          BY <2>1, <3>1
        <4>5. s[i].peer \in Threads
          BY <4>3, <4>4 DEF Follows, Taken
        <4> QED BY <4>5, RtcThreadAssumption
      <3>5. s[i+1].at = "ReceiveSends" /\ s[i+1].peer = s[i].peer
        <4>1. i \in 1..n-1
          BY <2>1, <3>2, <3>3
        <4>2. Follows(s[i], s[i+1])
          BY <3>3, <4>1
        <4>3. s[i].at = "Wait"
          BY <2>1, <3>1
        <4> QED BY <4>2, <4>3 DEF Follows
      <3>6. j # i + 1
        BY <2>1, <3>1, <3>5
      <3>7. s[i+2].at \in Taken /\ s[i+2].peer = s[i].peer
        <4>1. i + 1 \in 1..n-1 /\ (i + 1) + 1 = i + 2
          BY <2>1, <3>2, <3>3, <3>6
        <4>2. Follows(s[i+1], s[i+2])
          BY <3>3, <4>1
        <4> QED BY <4>2, <3>4, <3>5 DEF Follows
      <3>8. CASE j = i + 2
        BY <3>1, <3>7, <3>8
      <3>9. CASE j # i + 2
        <4>1. i + 2 \in 1..n-1 /\ (i + 2) + 1 = i + 3
          BY <2>1, <3>2, <3>3, <3>6, <3>9
        <4>2. Follows(s[i+2], s[i+3])
          BY <3>3, <4>1
        <4>3. s[i+3].at \in Posting \cup Waiting
          BY <4>2, <3>7 DEF Follows, Taken
        <4>4. j # i + 3
          BY <2>1, <3>1, <4>3 DEF Posting, Waiting
        <4>5. i + 3 \in 1..n-1 /\ (i + 3) + 1 = i + 4 /\ i + 3 \in i+1..j-1
          BY <2>1, <3>2, <3>3, <3>6, <3>9, <4>4
        <4>6. Follows(s[i+3], s[i+4])
          BY <3>3, <4>5
        <4>7. s[i+3].at = "Wait"
          BY <4>3, <4>6 DEF Follows, Posting, Waiting
        <4> QED BY <2>1, <3>1, <4>5, <4>7
      <3> QED BY <3>8, <3>9
    <2> QED BY <2>1 DEF OnlyTargetReenters
  <1> QED BY <1>1, Invariance, PTL

\* What HandledOnce says of a step.
DispatchesNew ==
  \A t \in Threads :
    Top(t).at = "Dispatch" /\ Last(stack'[t]).at = "OnMessage"
      => Top(t).msg \notin handled \cup gone

\* No handler is called twice for a message, nor for a cleared one: a message that a
\* thread has popped and not yet dispatched was neither handled nor cleared before,
\* and nobody else can take it or, from its own thread, clear it (MessageQueue::Get,
\* Dispatch and Clear, Thread::ReceiveSendsFromThread and Clear).  A message that
\* another thread's Clear came too late for is not among the cleared ones.
THEOREM NoneHandledTwice == Spec => HandledOnce
  <1>1. ASSUME IndInv, NEW t \in Threads, Top(t).at = "Dispatch"
        PROVE  Top(t).msg \notin handled \cup gone
    <2>1. Top(t).msg \in Carries(stack[t])
      BY <1>1 DEF Carries, InHand, Top
    <2>2. Holds("carried", t) \subseteq (1..made) \ (handled \cup gone)
      BY <1>1 DEF IndInv, Untouched, Kinds
    <2> QED BY <2>1, <2>2, HoldsIs
  <1>2. IndInv => DispatchesNew
    BY <1>1 DEF DispatchesNew
  <1>3. Spec => [][DispatchesNew]_vars
    BY <1>2, Invariance, PTL DEF Spec
  <1> QED BY <1>3 DEF DispatchesNew, HandledOnce
=============================================================================
