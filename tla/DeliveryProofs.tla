--------------------------- MODULE DeliveryProofs ---------------------------
(* What the bus delivers to any number of clients, how the process around it *)
(* ends, and what the tray makes of it with any number of refresh threads.   *)
EXTENDS Tray, Lifespan, SequenceTheorems, TLAPS

(* The events after the first n, one after the other.                        *)
Run(s, n) == \A i \in 1..Len(s) : s[i] = n + i

(* Client by client, what ContiguousRun says of sent and queue together; the *)
(* queue is on the bus for as long as the server thinks the client is there. *)
RunInv(c) ==
    /\ Run(sent[c], since[c])
    /\ Run(queue[c], since[c] + Len(sent[c]))
    /\ c \in subscribers => since[c] + Len(sent[c]) + Len(queue[c]) = Len(events)
    /\ c \notin subscribers => queue[c] = <<>>

BusInv ==
    /\ BusTypeOK
    /\ phase = "down" => subscribers = {}
    /\ \A c \in Clients : RunInv(c)

LEMMA RunAppend ==
    ASSUME NEW s \in Seq(Nat), NEW n \in Nat, Run(s, n)
    PROVE  /\ Append(s, n + Len(s) + 1) \in Seq(Nat)
           /\ Len(Append(s, n + Len(s) + 1)) = Len(s) + 1
           /\ Run(Append(s, n + Len(s) + 1), n)
<1>1. Len(s) \in Nat /\ n + Len(s) + 1 \in Nat
    OBVIOUS
<1>2. /\ Append(s, n + Len(s) + 1) \in Seq(Nat)
      /\ Len(Append(s, n + Len(s) + 1)) = Len(s) + 1
      /\ \A i \in 1..Len(s) : Append(s, n + Len(s) + 1)[i] = s[i]
      /\ Append(s, n + Len(s) + 1)[Len(s) + 1] = n + Len(s) + 1
    BY <1>1, AppendProperties
<1> QED
    BY <1>1, <1>2 DEF Run

LEMMA RunTail ==
    ASSUME NEW q \in Seq(Nat), q # <<>>, NEW n \in Nat, Run(q, n)
    PROVE  /\ Head(q) = n + 1
           /\ Tail(q) \in Seq(Nat)
           /\ Len(Tail(q)) + 1 = Len(q)
           /\ Run(Tail(q), n + 1)
<1>1. /\ Len(q) \in Nat \ {0} /\ Head(q) = q[1] /\ Tail(q) \in Seq(Nat)
      /\ Len(Tail(q)) = Len(q) - 1
      /\ \A i \in 1..Len(Tail(q)) : Tail(q)[i] = q[i + 1]
    BY HeadTailProperties, EmptySeq, LenProperties
<1>2. ASSUME NEW i \in 1..Len(Tail(q)) PROVE Tail(q)[i] = n + 1 + i
    <2>1. i + 1 \in 1..Len(q)
        BY <1>1
    <2> QED
        BY <1>1, <2>1 DEF Run
<1> QED
    BY <1>1, <1>2 DEF Run

LEMMA RunConcat ==
    ASSUME NEW s \in Seq(Nat), NEW q \in Seq(Nat), NEW n \in Nat,
           Run(s, n), Run(q, n + Len(s))
    PROVE  Len(s \o q) = Len(s) + Len(q) /\ Run(s \o q, n)
<1>1. Len(s) \in Nat /\ Len(q) \in Nat
    OBVIOUS
<1>2. /\ Len(s \o q) = Len(s) + Len(q)
      /\ \A i \in 1..Len(s) + Len(q) :
            (s \o q)[i] = IF i <= Len(s) THEN s[i] ELSE q[i - Len(s)]
    BY ConcatProperties
<1>3. ASSUME NEW i \in 1..Len(s) + Len(q) PROVE (s \o q)[i] = n + i
    <2>1. CASE i <= Len(s)
        BY <1>1, <1>2, <2>1 DEF Run
    <2>2. CASE i > Len(s)
        <3>1. i - Len(s) \in 1..Len(q)
            BY <1>1, <2>2
        <3>2. q[i - Len(s)] = n + Len(s) + (i - Len(s))
            BY <3>1 DEF Run
        <3> QED
            BY <1>1, <1>2, <2>2, <3>2
    <2> QED
        BY <1>1, <2>1, <2>2
<1> QED
    BY <1>2, <1>3 DEF Run

(* Sums of lengths, for provers that do not see through Len.                 *)
LEMMA Sums ==
    ASSUME NEW a \in Nat, NEW b \in Nat, NEW c \in Nat
    PROVE  /\ a + (b + 1) = (a + b) + 1
           /\ (a + 1) + b = a + (b + 1)
           /\ a + (b + c) = a + b + c
OBVIOUS

-----------------------------------------------------------------------------
(* The steps of the bus.                                                     *)

LEMMA RecordKeeps ==
    ASSUME BusInv, NEW e \in Tasks \cup {None}, Record(e) PROVE BusInv'
<1> USE DEF Record, Publish
<1>1. /\ events \in Seq(Tasks \cup {None}) /\ events' = Append(events, e)
      /\ queue \in [Clients -> Seq(Nat)]
      /\ Len(events) \in Nat /\ Len(events') = Len(events) + 1
    BY DEF BusInv, BusTypeOK
<1>2. BusTypeOK'
    BY <1>1 DEF BusInv, BusTypeOK
<1>3. ASSUME NEW c \in Clients PROVE RunInv(c)'
    <2>1. RunInv(c)
        BY DEF BusInv
    <2>2. queue[c] \in Seq(Nat) /\ sent[c] \in Seq(Nat) /\ since[c] \in Nat
        BY DEF BusInv, BusTypeOK
    <2>3. CASE c \in subscribers
        <3> DEFINE n == since[c] + Len(sent[c])
        <3>1. n \in Nat /\ Run(queue[c], n) /\ n + Len(queue[c]) = Len(events)
            BY <2>1, <2>2, <2>3 DEF RunInv
        <3>2. queue'[c] = Append(queue[c], n + Len(queue[c]) + 1)
            BY <1>1, <2>3, <3>1
        <3> HIDE DEF n
        <3>3. Len(queue'[c]) = Len(queue[c]) + 1 /\ Run(queue'[c], n)
            BY <2>2, <3>1, <3>2, RunAppend
        <3>4. n + Len(queue'[c]) = Len(events')
            <4>1. Len(queue[c]) \in Nat /\ n + (Len(queue[c]) + 1) = (n + Len(queue[c])) + 1
                BY <2>2, <3>1, LenProperties, Sums
            <4> QED
                BY <1>1, <3>1, <3>3, <4>1
        <3> QED
            BY <2>1, <2>3, <3>3, <3>4 DEF RunInv, n
    <2>4. CASE c \notin subscribers
        BY <2>1, <2>4 DEF RunInv
    <2> QED
        BY <2>3, <2>4
<1> QED
    BY <1>2, <1>3 DEF BusInv

LEMMA SendKeeps ==
    ASSUME BusInv, NEW c \in Clients, Send(c) PROVE BusInv'
<1> USE DEF Send
<1>1. queue[c] \in Seq(Nat) /\ queue[c] # <<>> /\ sent[c] \in Seq(Nat) /\ since[c] \in Nat
    BY DEF BusInv, BusTypeOK
<1>2. RunInv(c) /\ c \in subscribers
    BY DEF BusInv, BusTypeOK
<1> DEFINE n == since[c] + Len(sent[c])
<1>3. n \in Nat /\ Run(queue[c], n) /\ n + Len(queue[c]) = Len(events)
    BY <1>1, <1>2 DEF RunInv
<1>4. /\ Head(queue[c]) = n + 1 /\ Tail(queue[c]) \in Seq(Nat)
      /\ Len(Tail(queue[c])) + 1 = Len(queue[c]) /\ Run(Tail(queue[c]), n + 1)
    <2> HIDE DEF n
    <2> QED
        BY <1>1, <1>3, RunTail
<1>5. /\ Append(sent[c], n + 1) \in Seq(Nat)
      /\ Len(Append(sent[c], n + 1)) = Len(sent[c]) + 1
      /\ Run(Append(sent[c], n + 1), since[c])
    BY <1>1, <1>2, RunAppend DEF RunInv
<1>6. /\ sent' = [sent EXCEPT ![c] = Append(sent[c], n + 1)]
      /\ queue' = [queue EXCEPT ![c] = Tail(queue[c])]
    BY <1>4
<1>7. BusTypeOK'
    BY <1>4, <1>5, <1>6 DEF BusInv, BusTypeOK
<1>8. ASSUME NEW d \in Clients PROVE RunInv(d)'
    <2>1. RunInv(d)
        BY DEF BusInv
    <2>2. CASE d = c
        <3>1. sent'[c] = Append(sent[c], n + 1) /\ queue'[c] = Tail(queue[c])
            BY <1>6 DEF BusInv, BusTypeOK
        <3>2. since[c] + Len(sent'[c]) = n + 1
            BY <1>1, <1>5, <3>1
        <3>3. (n + 1) + Len(queue'[c]) = Len(events)
            <4>1. Len(Tail(queue[c])) \in Nat /\ Len(queue[c]) \in Nat
                BY <1>1, <1>4, LenProperties
            <4> HIDE DEF n
            <4>2. (n + 1) + Len(Tail(queue[c])) = n + (Len(Tail(queue[c])) + 1)
                BY <1>3, <4>1, Sums
            <4> QED
                BY <1>3, <1>4, <3>1, <4>2
        <3> QED
            BY <1>2, <1>4, <1>5, <2>2, <3>1, <3>2, <3>3 DEF RunInv
    <2>3. CASE d # c
        BY <1>6, <2>1, <2>3 DEF RunInv, BusInv, BusTypeOK
    <2> QED
        BY <2>2, <2>3
<1> QED
    BY <1>7, <1>8 DEF BusInv

(* The steps that leave a client with the run it had, or with none.          *)
LEMMA OthersKeep ==
    ASSUME BusInv, \/ Process \/ UNCHANGED busVars
                   \/ \E c \in Clients : Discard(c) \/ Client(c)
    PROVE  BusInv'
<1> USE DEF BusInv, BusTypeOK
<1>1. CASE UNCHANGED busVars
    BY <1>1 DEF busVars, RunInv
<1>2. CASE Kill \/ Stop
    <2>1. Die
        BY <1>2 DEF Kill, Stop
    <2>2. BusTypeOK' /\ subscribers' = {}
        BY <2>1 DEF Die
    <2>3. ASSUME NEW c \in Clients PROVE RunInv(c)'
        BY <2>1 DEF Die, RunInv, Run
    <2> QED
        BY <2>2, <2>3
<1>3. CASE Shutdown \/ Boot
    BY <1>3 DEF Shutdown, Boot, RunInv
<1>4. ASSUME NEW c \in Clients, Subscribe(c) PROVE BusInv'
    <2>1. BusTypeOK' /\ phase' # "down"
        BY <1>4 DEF Subscribe
    <2>2. ASSUME NEW d \in Clients PROVE RunInv(d)'
        BY <1>4 DEF Subscribe, RunInv, Run
    <2> QED
        BY <2>1, <2>2
<1>5. ASSUME NEW c \in Clients, Discard(c) PROVE BusInv'
    <2>1. BusTypeOK'
        BY <1>5 DEF Discard, Closed
    <2>2. ASSUME NEW d \in Clients PROVE RunInv(d)'
        BY <1>5 DEF Discard, Closed, RunInv, Run
    <2> QED
        BY <1>5, <2>1, <2>2 DEF Discard
<1>6. ASSUME NEW c \in Clients, Broken(c) PROVE BusInv'
    <2>1. BusTypeOK'
        BY <1>6 DEF Broken, Closed
    <2>2. ASSUME NEW d \in Clients PROVE RunInv(d)'
        <3>1. RunInv(d) /\ queue'[d] = queue[d]
            BY <1>6 DEF Broken
        <3>2. CASE d = c
            <4>1. d \notin subscribers' /\ queue'[d] = <<>> /\ sent'[d] = <<>>
                BY <1>6, <3>1, <3>2 DEF Broken, Closed, RunInv
            <4> QED
                BY <4>1 DEF RunInv, Run
        <3>3. CASE d # c
            BY <1>6, <3>1, <3>3 DEF Broken, Closed, RunInv
        <3> QED
            BY <3>2, <3>3
    <2> QED
        BY <1>6, <2>1, <2>2 DEF Broken
<1>7. ASSUME NEW c \in Clients, Leave(c) PROVE BusInv'
    BY <1>7 DEF Leave, RunInv
<1> QED
    BY <1>1, <1>2, <1>3, <1>4, <1>5, <1>6, <1>7 DEF Process, Client

LEMMA BusInvInit == BusInit => BusInv
BY BusAssumption DEF BusInit, BusInv, BusTypeOK, RunInv, Run

LEMMA RunIsContiguous == BusInv => ContiguousRun
<1> SUFFICES ASSUME BusInv, NEW c \in Clients
             PROVE  LET given == sent[c] \o queue[c] IN
                    /\ \A i \in 1..Len(given) : given[i] = since[c] + i
                    /\ stream[c] = "open" => since[c] + Len(given) = Len(events)
    BY DEF ContiguousRun
<1>1. /\ queue[c] \in Seq(Nat) /\ sent[c] \in Seq(Nat) /\ since[c] \in Nat
      /\ RunInv(c) /\ (stream[c] = "open" => c \in subscribers)
    BY DEF BusInv, BusTypeOK
<1>2. Len(sent[c] \o queue[c]) = Len(sent[c]) + Len(queue[c]) /\ Run(sent[c] \o queue[c], since[c])
    BY <1>1, RunConcat DEF RunInv
<1>3. stream[c] = "open" => since[c] + (Len(sent[c]) + Len(queue[c])) = Len(events)
    <2>1. Len(sent[c]) \in Nat /\ Len(queue[c]) \in Nat
        BY <1>1, LenProperties
    <2>2. since[c] + (Len(sent[c]) + Len(queue[c])) = since[c] + Len(sent[c]) + Len(queue[c])
        BY <1>1, <2>1, Sums
    <2> QED
        BY <1>1, <2>2 DEF RunInv
<1> QED
    BY <1>2, <1>3 DEF Run

LEMMA BusInvNext == BusInv /\ [BusNext]_busVars => BusInv'
<1> SUFFICES ASSUME BusInv, [BusNext]_busVars PROVE BusInv'
    OBVIOUS
<1>1. CASE Recording
    BY <1>1, RecordKeeps DEF Recording
<1>2. CASE \E c \in Clients : Send(c)
    BY <1>2, SendKeeps
<1>3. CASE \/ Process \/ UNCHANGED busVars
           \/ \E c \in Clients : Discard(c) \/ Client(c)
    BY <1>3, OthersKeep
<1> QED
    BY <1>1, <1>2, <1>3 DEF BusNext, Server

LEMMA BusInvHolds == BusSpec => []BusInv
BY BusInvInit, BusInvNext, PTL DEF BusSpec

(* Every variable of the bus keeps its type, and the queues on the bus are   *)
(* those of the connections whose end the server has not seen.               *)
THEOREM BusTyped == BusSpec => []BusTypeOK
<1>1. BusInv => BusTypeOK
    BY DEF BusInv
<1> QED
    BY <1>1, BusInvHolds, PTL

(* However many clients come and go, and however slow they are, each is sent *)
(* exactly the events recorded since it subscribed (publish, subscribe).     *)
THEOREM RunsAreContiguous == BusSpec => []ContiguousRun
BY RunIsContiguous, BusInvHolds, PTL

-----------------------------------------------------------------------------
(* The bus implements Delivery.                                              *)

(* The last of a run is as far from its start as the run is long.            *)
LEMMA LastOfRun ==
    ASSUME NEW s \in Seq(Nat), NEW n \in Nat, Run(s, n)
    PROVE  (IF s = <<>> THEN n ELSE s[Len(s)]) = n + Len(s)
<1>1. CASE s = <<>>
    BY <1>1, EmptySeq
<1>2. CASE s # <<>>
    <2>1. Len(s) \in 1..Len(s)
        BY <1>2, EmptySeq, LenProperties
    <2> QED
        BY <1>2, <2>1 DEF Run
<1> QED
    BY <1>1, <1>2

LEMMA InitFeed == BusInit => Feed!Init
<1> SUFFICES ASSUME BusInit PROVE Feed!Init
    OBVIOUS
<1>1. Len(events) \in Nat
    BY BusAssumption, LenProperties DEF BusInit
<1> QED
    BY <1>1 DEF BusInit, Feed!Init, Upto

(* How far a client has been brought depends on its connection alone.        *)
LEMMA UptoSame ==
    ASSUME NEW c \in Clients, stream'[c] = stream[c], sent'[c] = sent[c], since'[c] = since[c]
    PROVE  Upto(c)' = Upto(c)
BY DEF Upto

LEMMA RecordFeeds ==
    ASSUME BusInv, NEW e \in Tasks \cup {None}, Record(e) PROVE Feed!Record
<1>1. Len(events') = Len(events) + 1
    BY DEF Record, BusInv, BusTypeOK
<1>2. UNCHANGED <<stream, sent, since>>
    BY DEF Record
<1>3. \A c \in Clients : Upto(c)' = Upto(c)
    BY <1>2, UptoSame
<1> HIDE DEF Upto
<1> QED
    BY <1>1, <1>2, <1>3 DEF Feed!Record

LEMMA OneMore ==
    ASSUME NEW m \in Nat, NEW n \in Nat, NEW k \in Nat \ {0}
    PROVE  m + n < m + n + k /\ m + (n + 1) = (m + n) + 1
OBVIOUS

(* What is sent is the first event the client is still owed.                 *)
LEMMA SendFeeds ==
    ASSUME BusInv, BusInv', NEW c \in Clients, Send(c) PROVE Feed!Hand(c)
<1>1. /\ queue[c] \in Seq(Nat) /\ queue[c] # <<>> /\ sent[c] \in Seq(Nat)
      /\ since[c] \in Nat /\ RunInv(c) /\ c \in subscribers /\ stream[c] = "open"
    BY DEF Send, BusInv, BusTypeOK
<1>2. Head(queue[c]) \in Nat /\ sent'[c] = Append(sent[c], Head(queue[c]))
    BY <1>1, HeadTailProperties DEF Send, BusInv, BusTypeOK
<1>3. Len(sent'[c]) = Len(sent[c]) + 1 /\ sent'[c] \in Seq(Nat)
    BY <1>1, <1>2, AppendProperties
<1>4. Upto(c) = since[c] + Len(sent[c])
    BY <1>1, LastOfRun DEF RunInv, Upto
<1>5. Run(sent'[c], since[c]) /\ stream'[c] = "open" /\ since'[c] = since[c]
    BY <1>1 DEF BusInv, RunInv, Send
<1>6. Upto(c)' = since[c] + Len(sent'[c])
    BY <1>1, <1>3, <1>5, LastOfRun DEF Upto
<1>7. Upto(c) < Len(events) /\ Upto(c)' = Upto(c) + 1
    <2>1. /\ Len(sent[c]) \in Nat /\ Len(queue[c]) \in Nat \ {0}
          /\ since[c] + Len(sent[c]) + Len(queue[c]) = Len(events)
        BY <1>1, EmptySeq, LenProperties DEF RunInv
    <2>2. Upto(c)' = since[c] + (Len(sent[c]) + 1)
        BY <1>3, <1>6
    <2> QED
        BY <1>1, <1>4, <2>1, <2>2, OneMore
<1>8. \A d \in Clients : d # c => Upto(d)' = Upto(d)
    BY UptoSame DEF Send, BusInv, BusTypeOK
<1>9. UNCHANGED <<events, stream>>
    BY DEF Send
<1> HIDE DEF Upto
<1> QED
    BY <1>1, <1>7, <1>8, <1>9 DEF Feed!Hand

LEMMA SubscribeFeeds ==
    ASSUME BusInv, NEW c \in Clients, Subscribe(c) PROVE Feed!Attach(c)
<1>1. stream'[c] = "open" /\ sent'[c] = <<>> /\ since'[c] = Len(events) /\ stream[c] = "none"
    BY DEF Subscribe, BusInv, BusTypeOK
<1>2. Upto(c)' = Len(events)
    BY <1>1 DEF Upto
<1>3. \A d \in Clients : d # c => Upto(d)' = Upto(d) /\ stream'[d] = stream[d]
    BY UptoSame DEF Subscribe, BusInv, BusTypeOK
<1>4. UNCHANGED events
    BY DEF Subscribe
<1> HIDE DEF Upto
<1> QED
    BY <1>1, <1>2, <1>3, <1>4 DEF Feed!Attach

(* A client that leaves is detached, and so are all when the process dies.   *)
LEMMA LeaveFeeds ==
    ASSUME BusInv, NEW c \in Clients, Leave(c) PROVE Feed!Detach({c})
<1>1. stream'[c] = "left" /\ Upto(c)' = 0
    BY DEF Leave, BusInv, BusTypeOK, Upto
<1>2. \A d \in Clients : d # c => Upto(d)' = Upto(d) /\ stream'[d] = stream[d]
    BY UptoSame DEF Leave, BusInv, BusTypeOK
<1>3. UNCHANGED events
    BY DEF Leave
<1> HIDE DEF Upto
<1> QED
    BY <1>1, <1>2, <1>3 DEF Feed!Detach

LEMMA DieFeeds ==
    ASSUME BusInv, Die, NEW S, S = {c \in Clients : stream[c] = "open"}
    PROVE  Feed!Detach(S)
<1>1. \A c \in Clients : stream'[c] # "open" /\ Upto(c)' = 0
    BY DEF Die, BusInv, BusTypeOK, Upto
<1>2. \A c \in Clients : c \notin S => Upto(c) = 0
    BY DEF Upto
<1>3. UNCHANGED events
    BY DEF Die
<1> HIDE DEF Upto
<1> QED
    BY <1>1, <1>2, <1>3 DEF Feed!Detach

(* The end of a connection that is open no longer changes nothing.           *)
LEMMA ClosedFeeds ==
    ASSUME BusInv, NEW c \in Clients, Discard(c) \/ Broken(c) PROVE UNCHANGED Feed!delivery
<1>1. stream[c] # "open" /\ stream'[c] = "none" /\ Upto(c) = 0 /\ Upto(c)' = 0
    BY DEF Discard, Broken, Closed, BusInv, BusTypeOK, Upto
<1>2. \A d \in Clients : d # c => Upto(d)' = Upto(d) /\ stream'[d] = stream[d]
    BY UptoSame DEF Discard, Broken, Closed, BusInv, BusTypeOK
<1>3. UNCHANGED events
    BY DEF Discard, Broken
<1> HIDE DEF Upto
<1>4. \A d \in Clients : Upto(d)' = Upto(d) /\ (stream'[d] = "open" <=> stream[d] = "open")
    BY <1>1, <1>2
<1> QED
    BY <1>3, <1>4 DEF Feed!delivery

(* Every step of the bus, in the cases TraySteps also has, maps to a step of *)
(* Delivery or to a stutter.                                                 *)
LEMMA BusFeeds ==
    ASSUME BusInv, BusInv',
           \/ \E e \in Tasks \cup {None} : Record(e)
           \/ \E c \in Clients : Send(c)
           \/ \/ Process \/ UNCHANGED busVars
              \/ \E c \in Clients : Discard(c) \/ Client(c)
    PROVE  [Feed!Next]_(Feed!delivery)
<1>1. CASE \E e \in Tasks \cup {None} : Record(e)
    BY <1>1, RecordFeeds DEF Feed!Next
<1>2. CASE \E c \in Clients : Send(c)
    BY <1>2, SendFeeds DEF Feed!Next
<1>3. CASE Kill \/ Stop
    <2>1. PICK S \in SUBSET Clients : S = {c \in Clients : stream[c] = "open"}
        OBVIOUS
    <2>2. Feed!Detach(S)
        BY <1>3, <2>1, DieFeeds DEF Kill, Stop
    <2> QED
        BY <2>1, <2>2 DEF Feed!Next
<1>4. CASE Shutdown \/ Boot \/ UNCHANGED busVars
    <2>1. UNCHANGED <<events, stream, sent, since>>
        BY <1>4 DEF Shutdown, Boot, busVars
    <2>2. \A c \in Clients : Upto(c)' = Upto(c)
        BY <2>1, UptoSame
    <2> HIDE DEF Upto
    <2> QED
        BY <2>1, <2>2 DEF Feed!delivery
<1>5. ASSUME NEW c \in Clients, Discard(c) \/ Broken(c) PROVE UNCHANGED Feed!delivery
    BY <1>5, ClosedFeeds
<1>6. ASSUME NEW c \in Clients, Subscribe(c) PROVE Feed!Next
    BY <1>6, SubscribeFeeds DEF Feed!Next
<1>7. ASSUME NEW c \in Clients, Leave(c) PROVE Feed!Next
    <2>1. {c} \in SUBSET {d \in Clients : stream[d] = "open"}
        BY <1>7 DEF Leave
    <2> QED
        BY <1>7, <2>1, LeaveFeeds DEF Feed!Next
<1> QED
    BY <1>1, <1>2, <1>3, <1>4, <1>5, <1>6, <1>7 DEF Process, Client

(* The bus and its streams, for any number of clients, implement Delivery.   *)
THEOREM BusImplements == BusSpec => ImplementsDelivery
<1>1. BusInv /\ BusInv' /\ [BusNext]_busVars => [Feed!Next]_(Feed!delivery)
    <2> SUFFICES ASSUME BusInv, BusInv', [BusNext]_busVars
                 PROVE  [Feed!Next]_(Feed!delivery)
        OBVIOUS
    <2> QED
        BY BusFeeds DEF BusNext, Recording, Server
<1> QED
    BY <1>1, BusInvHolds, InitFeed, PTL DEF BusSpec, ImplementsDelivery, Feed!Spec

-----------------------------------------------------------------------------
(* The process around the bus.                                               *)

(* A turn of a task is a step of the bus or concerns it not at all.          *)
LEMMA TurnsAreSteps == [LifeNext]_allVars => [BusNext]_busVars
<1> SUFFICES ASSUME [LifeNext]_allVars PROVE [BusNext]_busVars
    OBVIOUS
<1>1. CASE Handler
    BY <1>1 DEF Handler, BusNext
<1>2. CASE \E c \in Clients : Streams(c)
    BY <1>2 DEF Streams, BusNext, Client
<1>3. CASE Sigterm \/ Killed \/ Started \/ LifespanEnds
    BY <1>3 DEF Sigterm, Killed, Started, LifespanEnds, Process, BusNext
<1>4. CASE PollTicks
    <2>1. CASE UNCHANGED <<busVars, pending>>
        BY <2>1
    <2>2. CASE Len(events) < MaxEvents /\ \E t \in Tasks : Record(t)
        BY <2>2 DEF Recording, BusNext
    <2> QED
        BY <1>4, <2>1, <2>2 DEF PollTicks, TickOnce
<1>5. CASE \/ LifespanStops \/ RunTurn \/ Timeout \/ PollCancelled \/ PollStops
           \/ SubTurn \/ UNCHANGED allVars
    BY <1>5 DEF LifespanStops, RunTurn, RunCancels, RunEnds, Timeout, PollCancelled, PollStops,
        SubTurn, SubCancelled, SubBegins, SubHandles, allVars
<1> QED
    BY <1>1, <1>2, <1>3, <1>4, <1>5 DEF LifeNext, Uvicorn, PollTurn

(* lifespan, run() and the two loops, in whatever order they get their       *)
(* turns, make of the bus what BusSpec says: that its Stop is one step hides *)
(* nothing from the bus.                                                     *)
THEOREM TurnsImplementBus == LifeSpec => BusSpec
<1>1. LifeInit => BusInit
    BY DEF LifeInit
<1> QED
    BY <1>1, TurnsAreSteps, PTL DEF LifeSpec, BusSpec

(* So the process, turn by turn, keeps the bus's promise to its clients      *)
(* (publish, subscribe).                                                     *)
THEOREM ProcessDelivers == LifeSpec => ImplementsDelivery
BY TurnsImplementBus, BusImplements, PTL

(* run() does not end before both loops have, and they do not come back.     *)
RunOutlives == run = "done" => Ended(poll) /\ Ended(sub)

LEMMA RunOutlivesNext == RunOutlives /\ [LifeNext]_allVars => RunOutlives'
<1> SUFFICES ASSUME RunOutlives, [LifeNext]_allVars PROVE RunOutlives'
    OBVIOUS
<1> USE DEF RunOutlives, Ended
<1>1. CASE Handler \/ Sigterm \/ (\E c \in Clients : Streams(c)) \/ UNCHANGED allVars
    BY <1>1 DEF Handler, Sigterm, Streams, lifeVars, allVars
<1>2. CASE Killed \/ Started \/ LifespanStops \/ LifespanEnds
    BY <1>2 DEF Killed, Started, LifespanStops, LifespanEnds, Gone
<1>3. CASE RunTurn
    BY <1>3 DEF RunTurn, RunCancels, RunEnds, Gathered
<1>4. CASE Timeout \/ PollTurn
    BY <1>4 DEF Timeout, PollTurn, PollCancelled, PollStops, PollTicks, TickOnce
<1>5. CASE SubTurn
    BY <1>5 DEF SubTurn, SubCancelled, SubBegins, SubHandles
<1> QED
    BY <1>1, <1>2, <1>3, <1>4, <1>5 DEF LifeNext, Uvicorn

LEMMA StopStep == [LifeNext]_allVars => (stop => events' = events)
<1> SUFFICES ASSUME [LifeNext]_allVars, stop PROVE events' = events
    OBVIOUS
<1>1. CASE \E c \in Clients : Streams(c)
    BY <1>1 DEF Streams, Subscribe, Server, Send, Discard, Leave, Broken
<1>2. CASE Handler \/ Sigterm \/ Killed \/ Started
    BY <1>2 DEF Handler, Sigterm, Shutdown, Killed, Kill, Die, Started, Boot
<1>3. CASE LifespanStops \/ LifespanEnds \/ UNCHANGED allVars
    BY <1>3 DEF LifespanStops, LifespanEnds, Stop, Die, allVars, busVars
<1>4. CASE RunTurn \/ Timeout \/ PollTurn \/ SubTurn
    BY <1>4 DEF RunTurn, RunCancels, RunEnds, Timeout, PollTurn, PollCancelled, PollStops,
        PollTicks, SubTurn, SubCancelled, SubBegins, SubHandles, busVars
<1> QED
    BY <1>1, <1>2, <1>3, <1>4 DEF LifeNext, Uvicorn

(* With any number of connections, and whatever the two loops are doing when *)
(* the stop event is set, nothing is recorded after it, and the process ends *)
(* after both loops (lifespan, run, _poll_loop).                             *)
THEOREM StopHolds == LifeSpec => StopIsFinal
<1>1. LifeInit => RunOutlives
    BY DEF LifeInit, RunOutlives
<1>2. RunOutlives /\ [LifeNext]_allVars =>
          [/\ stop => events' = events
           /\ LifespanEnds => Ended(poll) /\ Ended(sub)]_allVars
    BY StopStep DEF RunOutlives, LifespanEnds
<1> QED
    BY <1>1, <1>2, RunOutlivesNext, PTL DEF LifeSpec, StopIsFinal

-----------------------------------------------------------------------------
(* The tray.                                                                 *)

(* The SSE thread holds a connection exactly while it reads one, and has     *)
(* read no line that was not sent.                                           *)
LinkInv ==
    /\ loop \in {"opening", "reading"} => stream[tray] \in {"open", "broken"}
    /\ loop \notin {"opening", "reading"} => lines = 0 /\ stream[tray] \in {"none", "left"}
    /\ lines <= 2 * Len(sent[tray])

(* What the indicator shows once it has applied every view.                  *)
Top == IF idle = <<>> THEN view ELSE idle[Len(idle)]

AllLate == \A i \in 1..Len(answers) : answers[i].late

(* While nothing was recorded after the newest answer, that answer is the    *)
(* last of those not handed over, or it was handed over before all of them;  *)
(* and then it is what the indicator is to show, or a late one came after.   *)
AnswersInv ==
    newest = "current" =>
        /\ ~AllLate => /\ answers # <<>>
                       /\ answers[Len(answers)] = [view |-> Shown, late |-> FALSE]
        /\ AllLate /\ loop = "reading" => late \/ asking > 0 \/ Top = Shown

TrayInv == BusInv /\ TrayTypeOK /\ LinkInv /\ NoEventMissed /\ AnswersInv

LEMMA ShownType == BusTypeOK => Shown \in Views
<1> SUFFICES ASSUME BusTypeOK, events # <<>> PROVE events[Len(events)] \in Tasks \cup {None}
    BY DEF Shown, Views
<1>1. events \in Seq(Tasks \cup {None}) /\ Len(events) \in 1..Len(events)
    BY LenProperties, EmptySeq DEF BusTypeOK
<1> QED
    BY <1>1, ElementOfSeq

LEMMA TrayInvInit == Init => TrayInv
<1> SUFFICES ASSUME Init PROVE TrayInv
    OBVIOUS
<1>1. BusInv
    BY BusInvInit DEF Init
<1>2. stream[tray] = "none" /\ sent[tray] = <<>> /\ queue[tray] = <<>>
    BY TrayAssumption DEF Init, BusInit
<1>3. TrayTypeOK
    <2>1. <<>> \in Seq(Answers) /\ <<>> \in Seq(Views)
        BY EmptySeq
    <2> QED
        BY <1>1, <2>1 DEF Init, TrayTypeOK, BusInv
<1>4. LinkInv
    BY <1>2 DEF Init, LinkInv
<1> QED
    BY <1>1, <1>3, <1>4 DEF Init, TrayInv, NoEventMissed, AnswersInv, Connected

(* Every step of the tray and of its surroundings is one of the bus.         *)
LEMMA TraySteps ==
    ASSUME Next
    PROVE  \/ \E e \in Tasks \cup {None} : Record(e)
           \/ \E c \in Clients : Send(c)
           \/ \/ Process \/ UNCHANGED busVars
              \/ \E c \in Clients : Discard(c) \/ Client(c)
<1> USE TrayAssumption
<1>1. CASE Refresh
    BY <1>1 DEF Refresh, Ask, Answered, HandOver
<1>2. CASE Sse
    BY <1>2 DEF Sse, SseConnect, SseOpened, SseLine, SseBroken, SseRefused, SseRetry, Client
<1>3. CASE Gtk
    BY <1>3 DEF Gtk, ApplyView, Post, Posted, PostFailed
<1>4. CASE User
    BY <1>4 DEF User, ClickStart, ClickStop, Click, Exit, Launch, Client
<1>5. CASE Others
    BY <1>5 DEF Others, Recording, Server
<1> QED
    BY <1>1, <1>2, <1>3, <1>4, <1>5 DEF Next

LEMMA BusInvKept == ASSUME BusInv, Next PROVE BusInv'
BY TraySteps, RecordKeeps, SendKeeps, OthersKeep

(* A thread hands over the i-th answer: the others keep their order.         *)
LEMMA Removal ==
    ASSUME NEW s \in Seq(Answers), NEW i \in 1..Len(s), NEW t,
           t = [j \in 1..Len(s) - 1 |->
                  IF j < i THEN [s[j] EXCEPT !.late = TRUE] ELSE s[j + 1]]
    PROVE  /\ t \in Seq(Answers)
           /\ Len(t) = Len(s) - 1
           /\ \A j \in 1..Len(s) - 1 :
                 t[j] = IF j < i THEN [s[j] EXCEPT !.late = TRUE] ELSE s[j + 1]
<1>1. Len(s) \in Nat /\ Len(s) - 1 \in Nat /\ \A j \in 1..Len(s) : s[j] \in Answers
    BY LenProperties, ElementOfSeq
<1>2. ASSUME NEW j \in 1..Len(s) - 1 PROVE t[j] \in Answers
    <2>1. s[j] \in Answers /\ s[j + 1] \in Answers
        BY <1>1
    <2> QED
        BY <2>1 DEF Answers
<1>3. t \in [1..Len(s) - 1 -> Answers]
    BY <1>2
<1> QED
    BY <1>1, <1>3

LEMMA TrayTypes ==
    ASSUME TrayInv, Next PROVE TrayTypeOK'
<1> USE DEF TrayInv, TrayTypeOK
<1>1. BusTypeOK'
    BY BusInvKept DEF BusInv
<1>2. CASE Ask
    <2>1. ASSUME NEW v \in Views, NEW l \in {"current", "old", "timedOut"}, Answered(v, l)
          PROVE  TrayTypeOK'
        <3>1. [view |-> v, late |-> FALSE] \in Answers
            BY DEF Answers
        <3>2. answers' \in Seq(Answers)
            BY <2>1, <3>1, AppendProperties DEF Answered
        <3> QED
            BY <1>1, <2>1, <3>2 DEF Answered, sseVars, guiVars
    <2>2. Shown \in Views /\ "offline" \in Views
        BY ShownType DEF Views
    <2> HIDE DEF TrayInv, TrayTypeOK
    <2> QED
        BY <1>2, <2>1, <2>2 DEF Ask
<1>3. ASSUME NEW i \in 1..Len(answers), HandOver(i) PROVE TrayTypeOK'
    <2>1. answers' \in Seq(Answers)
        BY <1>3, Removal DEF HandOver
    <2>2. answers[i].view \in Views /\ answers[i].late \in BOOLEAN
        <3>1. answers[i] \in Answers
            BY ElementOfSeq
        <3> QED
            BY <3>1 DEF Answers
    <2>3. idle' \in Seq(Views) /\ late' \in BOOLEAN
        BY <1>3, <2>2, AppendProperties DEF HandOver
    <2> QED
        BY <1>1, <1>3, <2>1, <2>3 DEF HandOver, sseVars, guiVars
<1>4. CASE Sse
    <2>1. \A v \in {"idle", "offline"} : Show(v) => idle' \in Seq(Views)
        BY AppendProperties DEF Show, Views
    <2>2. CASE SseConnect \/ SseRetry
        BY <1>1, <2>2 DEF SseConnect, SseRetry, refreshVars, guiVars
    <2>3. CASE SseBroken \/ SseRefused
        BY <1>1, <2>1, <2>3 DEF SseBroken, SseRefused, refreshVars, guiVars
    <2>4. CASE SseOpened
        BY <1>1, <2>1, <2>4 DEF SseOpened, Spawn, guiVars
    <2>5. CASE SseLine
        BY <1>1, <2>5 DEF SseLine, Spawn, guiVars
    <2> QED
        BY <1>4, <2>2, <2>3, <2>4, <2>5 DEF Sse
<1>5. CASE Gtk
    <2>1. idle # <<>> => Head(idle) \in Views /\ Tail(idle) \in Seq(Views)
        BY HeadTailProperties
    <2>2. CASE ApplyView
        BY <1>1, <2>1, <2>2 DEF ApplyView, sseVars, refreshVars
    <2>3. CASE Post
        BY <1>1, <2>3 DEF Post, sseVars
    <2>4. CASE Posted
        BY <1>1, <2>4 DEF Posted, sseVars
    <2>5. CASE PostFailed
        BY <1>1, <2>5 DEF PostFailed, sseVars, refreshVars
    <2> QED
        BY <1>5, <2>2, <2>3, <2>4, <2>5 DEF Gtk
<1>6. CASE User
    <2>1. <<>> \in Seq(Answers) /\ <<>> \in Seq(Views)
        BY EmptySeq
    <2>2. CASE ClickStart \/ ClickStop
        BY <1>1, <2>2 DEF ClickStart, ClickStop, Click, sseVars, refreshVars
    <2>3. CASE Exit
        BY <1>1, <2>1, <2>3 DEF Exit
    <2>4. CASE Launch
        BY <1>1, <2>4 DEF Launch, guiVars
    <2> QED
        BY <1>6, <2>2, <2>3, <2>4 DEF User
<1>7. CASE Others
    BY <1>1, <1>7 DEF Others, trayVars, sseVars, refreshVars, guiVars
<1> QED
    BY <1>2, <1>3, <1>4, <1>5, <1>6, <1>7 DEF Next, Refresh

LEMMA LinkKept ==
    ASSUME TrayInv, Next PROVE LinkInv'
<1> USE TrayAssumption DEF TrayInv, LinkInv
<1>1. /\ BusTypeOK /\ lines \in Nat /\ Len(sent[tray]) \in Nat /\ Len(<<>>) = 0
      /\ loop \in {"gone", "connecting", "opening", "reading", "backoff"}
    BY LenProperties, EmptySeq DEF TrayTypeOK, BusTypeOK
<1>2. CASE Refresh
    BY <1>2 DEF Refresh, Ask, Answered, HandOver, busVars, sseVars
<1>3. CASE Sse
    <2>1. CASE SseConnect
        BY <1>1, <2>1 DEF SseConnect, Subscribe, BusTypeOK
    <2>2. CASE SseOpened \/ SseLine
        BY <1>1, <2>2 DEF SseOpened, SseLine, busVars
    <2>3. CASE SseBroken
        BY <1>1, <2>3 DEF SseBroken, Broken, Closed, BusTypeOK
    <2>4. CASE SseRefused \/ SseRetry
        BY <1>1, <2>4 DEF SseRefused, SseRetry, busVars
    <2> QED
        BY <1>3, <2>1, <2>2, <2>3, <2>4 DEF Sse
<1>4. CASE Gtk
    BY <1>4 DEF Gtk, ApplyView, Post, Record, Posted, PostFailed, busVars, sseVars
<1>5. CASE User
    <2>1. CASE ClickStart \/ ClickStop
        BY <2>1 DEF ClickStart, ClickStop, Click, busVars, sseVars
    <2>2. CASE Exit /\ Leave(tray)
        BY <1>1, <2>2 DEF Exit, Leave, BusTypeOK
    <2>3. CASE Exit /\ Broken(tray)
        BY <1>1, <2>3 DEF Exit, Broken, Closed, BusTypeOK
    <2>4. CASE Exit /\ stream[tray] \notin {"open", "broken"} /\ UNCHANGED busVars
        BY <1>1, <2>4 DEF Exit, busVars, BusTypeOK
    <2>5. CASE Launch
        BY <1>1, <2>5 DEF Launch, Running, busVars
    <2> QED
        BY <1>5, <2>1, <2>2, <2>3, <2>4, <2>5 DEF User, Exit
<1>6. CASE Others
    <2>1. loop' = loop /\ lines' = lines
        BY <1>6 DEF Others, trayVars, sseVars
    <2>2. CASE Recording \/ Shutdown \/ Boot
        BY <2>1, <2>2 DEF Recording, Record, Shutdown, Boot
    <2>3. CASE Kill \/ Stop
        BY <1>1, <2>1, <2>3 DEF Kill, Stop, Die, BusTypeOK
    <2>4. ASSUME NEW c \in Clients, Send(c) PROVE LinkInv'
        <3>1. stream' = stream /\ Len(sent'[tray]) \in {Len(sent[tray]), Len(sent[tray]) + 1}
            <4>1. CASE c = tray
                <5>1. /\ queue[tray] \in Seq(Nat) /\ queue[tray] # <<>> /\ sent[tray] \in Seq(Nat)
                      /\ sent'[tray] = Append(sent[tray], Head(queue[tray]))
                    BY <1>1, <2>4, <4>1 DEF Send, BusTypeOK
                <5>2. Head(queue[tray]) \in Nat
                    BY <5>1, HeadTailProperties
                <5> QED
                    BY <2>4, <5>1, <5>2, AppendProperties DEF Send
            <4>2. CASE c # tray
                BY <1>1, <2>4, <4>2 DEF Send, BusTypeOK
            <4> QED
                BY <4>1, <4>2
        <3> QED
            BY <1>1, <2>1, <3>1
    <2>5. ASSUME NEW c \in Clients, Discard(c) PROVE LinkInv'
        BY <1>1, <2>1, <2>5 DEF Discard, Closed, BusTypeOK
    <2>6. ASSUME NEW c \in Clients \ {tray}, Client(c) PROVE LinkInv'
        <3>1. stream'[tray] = stream[tray] /\ sent'[tray] = sent[tray]
            BY <1>1, <2>6 DEF Client, Subscribe, Leave, Broken, Closed, BusTypeOK
        <3> QED
            BY <2>1, <3>1
    <2> QED
        BY <1>6, <2>2, <2>3, <2>4, <2>5, <2>6 DEF Others, Process, Server
<1> QED
    BY <1>2, <1>3, <1>4, <1>5, <1>6 DEF Next

(* An event recorded while the tray's stream is open waits in its queue.     *)
LEMMA RecordIsPending ==
    ASSUME TrayInv, NEW e \in Tasks \cup {None}, Record(e), stream[tray] = "open"
    PROVE  queue'[tray] # <<>>
<1>1. tray \in subscribers /\ queue[tray] \in Seq(Nat) /\ Len(events) + 1 \in Nat
    BY TrayAssumption, LenProperties DEF TrayInv, TrayTypeOK, BusTypeOK
<1>2. queue'[tray] = Append(queue[tray], Len(events) + 1)
    BY <1>1, TrayAssumption DEF Record, Publish, TrayInv, TrayTypeOK, BusTypeOK
<1>3. Len(queue'[tray]) = Len(queue[tray]) + 1 /\ Len(queue[tray]) \in Nat
    BY <1>1, <1>2, AppendProperties, LenProperties
<1> QED
    BY <1>3, EmptySeq

LEMMA NoEventMissedKept ==
    ASSUME TrayInv, Next PROVE NoEventMissed'
<1> USE TrayAssumption DEF TrayInv, NoEventMissed, Connected, Pending
<1>1. /\ BusTypeOK /\ lines \in Nat /\ Len(sent[tray]) \in Nat /\ asking \in Nat
      /\ lines <= 2 * Len(sent[tray])
    BY LenProperties DEF TrayTypeOK, BusTypeOK, LinkInv
<1>2. CASE Refresh
    <2>1. CASE Ask
        BY <2>1 DEF Ask, Answered, busVars
    <2>2. CASE \E i \in 1..Len(answers) : HandOver(i)
        BY <2>2 DEF HandOver, busVars, sseVars
    <2> QED
        BY <1>2, <2>1, <2>2 DEF Refresh
<1>3. CASE Sse
    BY <1>1, <1>3 DEF Sse, SseConnect, SseOpened, SseLine, SseBroken, SseRefused, SseRetry, Spawn
<1>4. CASE Gtk
    <2>1. CASE ApplyView \/ PostFailed
        BY <2>1 DEF ApplyView, PostFailed, busVars, sseVars, refreshVars
    <2>2. CASE Posted
        BY <1>1, <2>2 DEF Posted
    <2>3. CASE Post
        <3>1. \E e \in Tasks \cup {None} : Record(e)
            BY <2>3 DEF Post
        <3>2. stream' = stream
            BY <3>1 DEF Record
        <3> QED
            BY <3>1, <3>2, RecordIsPending
    <2> QED
        BY <1>4, <2>1, <2>2, <2>3 DEF Gtk
<1>5. CASE User
    BY <1>5 DEF User, ClickStart, ClickStop, Click, Exit, Launch, busVars, sseVars, refreshVars
<1>6. CASE Others
    <2>1. CASE Recording
        <3>1. PICK e \in Tasks \cup {None} : Record(e)
            BY <2>1 DEF Recording
        <3>2. stream' = stream
            BY <3>1 DEF Record
        <3> QED
            BY <3>1, <3>2, RecordIsPending
    <2>2. CASE ~Recording
        <3>1. UNCHANGED trayVars
            BY <1>6, <2>2 DEF Others
        <3>2. UNCHANGED <<loop, lines, asking, newest>>
            BY <3>1 DEF trayVars, sseVars, refreshVars
        <3>3. CASE Kill \/ Stop \/ Shutdown
            BY <3>3 DEF Kill, Stop, Die, Shutdown
        <3>4. CASE Boot
            <4>1. stream'[tray] # "open"
                BY <1>1, <3>4 DEF Boot, BusInv, BusTypeOK
            <4> QED
                BY <4>1
        <3>5. ASSUME NEW c \in Clients, Send(c) PROVE NoEventMissed'
            <4>1. CASE c = tray
                <5>1. /\ queue[tray] \in Seq(Nat) /\ queue[tray] # <<>> /\ sent[tray] \in Seq(Nat)
                      /\ sent'[tray] = Append(sent[tray], Head(queue[tray]))
                    BY <1>1, <3>5, <4>1 DEF Send, BusTypeOK
                <5>2. Head(queue[tray]) \in Nat
                    BY <5>1, HeadTailProperties
                <5>3. Len(sent'[tray]) = Len(sent[tray]) + 1
                    BY <5>1, <5>2, AppendProperties
                <5>4. lines' < 2 * Len(sent'[tray])
                    BY <1>1, <3>2, <5>3
                <5> QED
                    BY <5>4
            <4>2. CASE c # tray
                BY <1>1, <3>2, <3>5, <4>2 DEF Send, BusTypeOK
            <4> QED
                BY <4>1, <4>2
        <3>6. ASSUME NEW c \in Clients, Discard(c) PROVE NoEventMissed'
            BY <1>1, <3>2, <3>6 DEF Discard, Closed, BusTypeOK
        <3>7. ASSUME NEW c \in Clients \ {tray}, Client(c) PROVE NoEventMissed'
            <4>1. /\ stream'[tray] = stream[tray] /\ sent'[tray] = sent[tray]
                  /\ queue'[tray] = queue[tray] /\ phase' = phase
                BY <1>1, <3>7 DEF Client, Subscribe, Leave, Broken, Closed, BusTypeOK
            <4> QED
                BY <3>2, <4>1
        <3> QED
            BY <1>6, <2>2, <3>3, <3>4, <3>5, <3>6, <3>7 DEF Others, Process, Server
    <2> QED
        BY <2>1, <2>2
<1> QED
    BY <1>2, <1>3, <1>4, <1>5, <1>6 DEF Next

(* A new answer is the last of those to be handed over.                      *)
LEMMA AskKeeps ==
    ASSUME TrayInv, Ask PROVE AnswersInv'
<1> SUFFICES ASSUME newest' = "current" PROVE AnswersInv'
    BY DEF AnswersInv
<1> DEFINE a == [view |-> Shown, late |-> FALSE]
<1>1. /\ answers' = Append(answers, a) /\ events' = events
      /\ answers \in Seq(Answers) /\ a \in Answers
    BY ShownType DEF Ask, Answered, busVars, TrayInv, TrayTypeOK, Answers
<1>2. /\ Len(answers') = Len(answers) + 1 /\ Len(answers) \in Nat
      /\ answers'[Len(answers) + 1] = a
    BY <1>1, AppendProperties, LenProperties
<1>3. answers' # <<>> /\ ~AllLate' /\ Shown' = Shown
    BY <1>1, <1>2, EmptySeq DEF AllLate, Shown
<1> QED
    BY <1>1, <1>2, <1>3 DEF AnswersInv

(* Handing over the answer at the end leaves only late ones; handing over    *)
(* another leaves the one at the end in its place.                           *)
LEMMA HandOverKeeps ==
    ASSUME TrayInv, NEW i \in 1..Len(answers), HandOver(i) PROVE AnswersInv'
<1> SUFFICES ASSUME newest = "current" PROVE AnswersInv'
    BY DEF AnswersInv, HandOver
<1> DEFINE n == Len(answers)
<1>1. /\ answers \in Seq(Answers) /\ idle \in Seq(Views) /\ n \in Nat /\ AnswersInv
      /\ answers[i] \in Answers
    BY LenProperties, ElementOfSeq DEF TrayInv, TrayTypeOK
<1>2. /\ Len(answers') = n - 1
      /\ \A j \in 1..n - 1 :
            answers'[j] = IF j < i THEN [answers[j] EXCEPT !.late = TRUE] ELSE answers[j + 1]
    BY <1>1, Removal DEF HandOver
<1>3. /\ UNCHANGED <<events, loop, asking, newest>> /\ late' = answers[i].late
      /\ Shown' = Shown
    BY DEF HandOver, busVars, sseVars, Shown
<1>4. idle' # <<>> /\ Top' = answers[i].view
    <2>1. answers[i].view \in Views /\ idle' = Append(idle, answers[i].view)
        BY <1>1 DEF HandOver, Answers
    <2>2. Len(idle') = Len(idle) + 1 /\ Len(idle) \in Nat /\ idle'[Len(idle) + 1] = answers[i].view
        BY <1>1, <2>1, AppendProperties, LenProperties
    <2>3. idle' # <<>>
        BY <2>2, EmptySeq
    <2> QED
        BY <2>2, <2>3 DEF Top
<1>5. CASE AllLate
    <2>1. late' = TRUE
        BY <1>3, <1>5 DEF AllLate
    <2>2. ASSUME NEW j \in 1..n - 1 PROVE answers'[j].late
        <3>1. j \in 1..n /\ j + 1 \in 1..n
            BY <1>1
        <3>2. answers[j] \in Answers /\ answers[j + 1] \in Answers
            BY <1>1, <3>1, ElementOfSeq
        <3> QED
            BY <1>2, <1>5, <3>1, <3>2 DEF AllLate, Answers
    <2>3. AllLate'
        BY <1>2, <2>2 DEF AllLate
    <2> QED
        BY <2>1, <2>3 DEF AnswersInv
<1>6. CASE ~AllLate
    <2>1. n \in 1..n /\ answers[n] = [view |-> Shown, late |-> FALSE]
        BY <1>1, <1>6, EmptySeq DEF AnswersInv
    <2>2. CASE i = n
        <3>1. ASSUME NEW j \in 1..n - 1 PROVE answers'[j].late
            <4>1. answers[j] \in Answers
                BY <1>1, ElementOfSeq
            <4>2. answers'[j] = [answers[j] EXCEPT !.late = TRUE]
                <5> HIDE DEF n
                <5> QED
                    BY <1>1, <1>2, <2>2
            <4> QED
                BY <4>1, <4>2 DEF Answers
        <3>2. AllLate'
            BY <1>2, <3>1 DEF AllLate
        <3> QED
            BY <1>3, <1>4, <2>1, <2>2, <3>2 DEF AnswersInv
    <2>3. CASE i < n
        <3>1. n - 1 \in 1..n - 1 /\ answers'[n - 1] = answers[n]
            <4>1. i \in 1..n
                OBVIOUS
            <4> HIDE DEF n
            <4>2. n - 1 \in 1..n - 1 /\ ~(n - 1 < i) /\ (n - 1) + 1 = n
                BY <1>1, <2>3, <4>1
            <4> QED
                BY <1>2, <4>2
        <3>2. answers' # <<>> /\ ~AllLate'
            BY <1>2, <2>1, <3>1, EmptySeq DEF AllLate
        <3> QED
            BY <1>2, <1>3, <2>1, <3>1, <3>2 DEF AnswersInv
    <2> QED
        BY <1>1, <2>2, <2>3
<1> QED
    BY <1>5, <1>6

LEMMA LastOfTail ==
    ASSUME NEW s \in Seq(Views), s # <<>>
    PROVE  IF Tail(s) = <<>> THEN s[Len(s)] = Head(s) ELSE Tail(s)[Len(Tail(s))] = s[Len(s)]
<1>1. /\ Len(s) \in Nat \ {0} /\ Tail(s) \in Seq(Views) /\ Head(s) = s[1]
      /\ Len(Tail(s)) = Len(s) - 1 /\ \A i \in 1..Len(Tail(s)) : Tail(s)[i] = s[i + 1]
    BY HeadTailProperties, EmptySeq
<1>2. CASE Tail(s) = <<>>
    <2> DEFINE k == Len(s)
    <2>1. k \in Nat /\ k - 1 = 0
        BY <1>1, <1>2, EmptySeq
    <2>2. k = 1
        <3> HIDE DEF k
        <3> QED
            BY <2>1
    <2> QED
        BY <1>1, <1>2, <2>2
<1>3. CASE Tail(s) # <<>>
    <2> DEFINE m == Len(Tail(s))
    <2>1. m \in Nat \ {0} /\ m + 1 = Len(s)
        BY <1>1, <1>3, EmptySeq
    <2>2. m \in 1..m
        <3> HIDE DEF m
        <3> QED
            BY <2>1
    <2> QED
        BY <1>1, <1>3, <2>1, <2>2
<1> QED
    BY <1>2, <1>3

LEMMA AnswersKept ==
    ASSUME TrayInv, Next PROVE AnswersInv'
<1>1. AnswersInv /\ BusTypeOK /\ asking \in Nat /\ idle \in Seq(Views)
    BY DEF TrayInv, TrayTypeOK
<1>2. CASE Refresh
    BY <1>2, AskKeeps, HandOverKeeps DEF Refresh
<1> USE DEF AnswersInv, AllLate, Shown, Top
<1>3. CASE Sse
    <2>1. CASE SseOpened
        BY <1>1, <2>1 DEF SseOpened, Spawn, busVars
    <2>2. CASE SseLine
        BY <1>1, <2>2 DEF SseLine, Spawn, busVars
    <2>3. CASE SseConnect \/ SseBroken
        BY <1>1, <2>3 DEF SseConnect, SseBroken, Subscribe, Broken, refreshVars
    <2>4. CASE SseRefused \/ SseRetry
        BY <1>1, <2>4 DEF SseRefused, SseRetry, busVars, refreshVars
    <2> QED
        BY <1>3, <2>1, <2>2, <2>3, <2>4 DEF Sse
<1>4. CASE Gtk
    <2>1. CASE ApplyView
        <3>1. idle # <<>> /\ view' = Head(idle) /\ idle' = Tail(idle)
            BY <2>1 DEF ApplyView
        <3>2. Top' = Top
            BY <1>1, <3>1, LastOfTail
        <3> HIDE DEF Top
        <3> QED
            BY <1>1, <2>1, <3>2 DEF ApplyView, busVars, sseVars, refreshVars
    <2>2. CASE Post
        BY <2>2 DEF Post
    <2>3. CASE Posted
        BY <1>1, <2>3 DEF Posted, busVars, sseVars
    <2>4. CASE PostFailed
        BY <1>1, <2>4 DEF PostFailed, busVars, sseVars, refreshVars
    <2> QED
        BY <1>4, <2>1, <2>2, <2>3, <2>4 DEF Gtk
<1>5. CASE User
    <2>1. CASE ClickStart \/ ClickStop
        BY <1>1, <2>1 DEF ClickStart, ClickStop, Click, busVars, sseVars, refreshVars
    <2>2. CASE Exit
        BY <2>2 DEF Exit
    <2>3. CASE Launch
        BY <1>1, <2>3 DEF Launch, busVars, guiVars
    <2> QED
        BY <1>5, <2>1, <2>2, <2>3 DEF User
<1>6. CASE Others
    <2>1. CASE Recording
        <3>1. newest' # "current" \/ UNCHANGED <<trayVars, events>>
            BY <1>6, <2>1 DEF Others, Process, Kill, Stop, Die, Shutdown, Boot, Server, Send,
                Discard, Client, Subscribe, Leave, Broken
        <3> QED
            BY <1>1, <3>1 DEF trayVars, sseVars, refreshVars, guiVars
    <2>2. CASE ~Recording
        <3>1. UNCHANGED <<trayVars, events>>
            BY <1>6, <2>2 DEF Others, Process, Kill, Stop, Die, Shutdown, Boot, Server, Send,
                Discard, Client, Subscribe, Leave, Broken
        <3> QED
            BY <1>1, <3>1 DEF trayVars, sseVars, refreshVars, guiVars
    <2> QED
        BY <2>1, <2>2
<1> QED
    BY <1>2, <1>3, <1>4, <1>5, <1>6 DEF Next

LEMMA TrayInvNext == TrayInv /\ [Next]_vars => TrayInv'
<1> SUFFICES ASSUME TrayInv, [Next]_vars PROVE TrayInv'
    OBVIOUS
<1>1. CASE Next
    BY <1>1, BusInvKept, TrayTypes, LinkKept, NoEventMissedKept, AnswersKept DEF TrayInv
<1>2. CASE UNCHANGED vars
    BY <1>2, OthersKeep DEF vars, busVars, trayVars, sseVars, refreshVars, guiVars, TrayInv,
        TrayTypeOK, BusTypeOK, LinkInv, NoEventMissed, Connected, Pending, AnswersInv, AllLate,
        Shown, Top
<1> QED
    BY <1>1, <1>2

LEMMA TrayInvHolds == Spec => []TrayInv
BY TrayInvInit, TrayInvNext, PTL DEF Spec

(* Every variable of the tray keeps its type; what it shows is a task it was *)
(* told of, idle or offline.                                                 *)
THEOREM TrayTyped == Spec => []TrayTypeOK
<1>1. TrayInv => TrayTypeOK
    BY DEF TrayInv
<1> QED
    BY <1>1, TrayInvHolds, PTL

(* No event is lost to a tray that reads its stream, whatever the daemon,    *)
(* the other clients and the user did before (_sse_loop, publish).           *)
THEOREM NothingMissed == Spec => []NoEventMissed
<1>1. TrayInv => NoEventMissed
    BY DEF TrayInv
<1> QED
    BY <1>1, TrayInvHolds, PTL

(* The tray is but one more client: with its threads, its menu and its exits *)
(* the bus still implements Delivery, also beyond the bound of BusSpec.      *)
THEOREM TrayImplements == Spec => ImplementsDelivery
<1>1. TrayInv => BusInv
    BY DEF TrayInv
<1>2. BusInv /\ BusInv' /\ [Next]_vars => [Feed!Next]_(Feed!delivery)
    <2> SUFFICES ASSUME BusInv, BusInv', [Next]_vars
                 PROVE  [Feed!Next]_(Feed!delivery)
        OBVIOUS
    <2>1. UNCHANGED vars => UNCHANGED busVars
        BY DEF vars
    <2> QED
        BY <2>1, TraySteps, BusFeeds
<1>3. Init => Feed!Init
    BY InitFeed DEF Init
<1> QED
    BY <1>1, <1>2, <1>3, TrayInvHolds, PTL DEF Spec, ImplementsDelivery, Feed!Spec

(* At rest, the tray shows what the ledger says, for any number of refresh   *)
(* threads, unless its newest request timed out or a thread overtook another *)
(* (_refresh, _apply_view).                                                  *)
THEOREM RightWhenQuiet == Spec => []QuietMeansRight
<1>1. TrayInv => QuietMeansRight
    <2> SUFFICES ASSUME TrayInv, Quiet, newest # "timedOut", ~late PROVE view = Shown
        BY DEF QuietMeansRight
    <2>1. newest = "current"
        BY DEF TrayInv, TrayTypeOK, NoEventMissed, Quiet
    <2>2. AllLate
        BY EmptySeq DEF AllLate, Quiet
    <2>3. Top = Shown
        BY <2>1, <2>2 DEF TrayInv, AnswersInv, Quiet, Connected
    <2> QED
        BY <2>3 DEF Top, Quiet
<1> QED
    BY <1>1, TrayInvHolds, PTL
=============================================================================
