------------------------ MODULE EventStream_proofs ------------------------
(***************************************************************************)
(* The stream is exact for every length of the history and every number of *)
(* connections.  What the client has received is a prefix of the sequence  *)
(* numbers; the chunk on its way, the server's position and the events it  *)
(* has read continue it without a gap.  The client's part alone is not     *)
(* inductive: the chunk it reads next has left the server before.          *)
(*                                                                         *)
(* For the status, Observed says which statuses may follow each other and  *)
(* what a response knows of its events; of the times it says nothing.  The *)
(* parts fit into the whole event by event, but for the time run back.     *)
(***************************************************************************)
EXTENDS EventStream, Numbers, TLAPS

Event == [status : JobState, at : Nat]

Server == [pc : {"closed", "events", "yield", "keep_alive", "ended"},
           sequence : Nat, events : Seq(Nat), chunk : Int]

Response == [status : JobState \cup {"none"}, completed : Nat, events : Nat,
             now : Int]

Client == [pc : {"idle", "reading", "refresh", "last_refresh", "done", "gone"},
           received : Seq(Nat), job : Response]

Typed ==
  /\ resume \in ActiveStates
  /\ clock \in Nat /\ available \in Nat
  /\ log \in Seq(Event) /\ Len(log) > 0
  /\ server \in Server
  /\ client \in Client

OnItsWay == IF server.chunk > 0 THEN 1 ELSE 0

\* The server goes on where what it has sent ends.
Aligned ==
  /\ server.chunk \in {Nothing, KeepAlive, Len(client.received) + 1}
  /\ server.pc # "closed" =>
       /\ server.sequence = Len(client.received) + OnItsWay
       /\ server.sequence <= Len(log)
  /\ server.pc = "closed" => server.chunk = Nothing
  /\ server.pc = "yield" =>
       /\ \A i \in DOMAIN server.events : server.events[i] = server.sequence + i
       /\ server.sequence + Len(server.events) <= Len(log)

IInv == Typed /\ StreamIsExact /\ Aligned

-----------------------------------------------------------------------------

LEMMA Statuses ==
  /\ ActiveStates \subseteq JobState
  /\ {"queued", "completed", "failed", "rejected", "retry_scheduled",
      "approved", "awaiting_approval"} \subseteq JobState
  /\ {"analyzing", "generating_patch", "validating_patch", "creating_pr"}
       = ActiveStates
BY DEF JobState, ActiveStates, TerminalStates, WaitingStates

LEMMA TakeHead ==
  ASSUME NEW s \in Seq(Nat), s # <<>>, NEW k \in Nat,
         \A i \in DOMAIN s : s[i] = k + i
  PROVE  /\ Head(s) = k + 1
         /\ Tail(s) \in Seq(Nat) /\ Len(Tail(s)) = Len(s) - 1
         /\ \A i \in DOMAIN Tail(s) : Tail(s)[i] = Head(s) + i
<1>1. Head(s) = k + 1
  OBVIOUS
<1>2. Tail(s) \in Seq(Nat) /\ Len(Tail(s)) = Len(s) - 1
  OBVIOUS
<1>3. \A i \in 1..(Len(s) - 1) : Tail(s)[i] = s[i + 1] /\ s[i + 1] = k + (i + 1)
  OBVIOUS
<1>4. \A i \in DOMAIN Tail(s) : Tail(s)[i] = Head(s) + i
  BY <1>1, <1>2, <1>3
<1> QED BY <1>1, <1>2, <1>4

LEMMA AppendNext ==
  ASSUME NEW s \in Seq(Nat), \A i \in DOMAIN s : s[i] = i
  PROVE  /\ Append(s, Len(s) + 1) \in Seq(Nat)
         /\ Len(Append(s, Len(s) + 1)) = Len(s) + 1
         /\ \A i \in DOMAIN Append(s, Len(s) + 1) : Append(s, Len(s) + 1)[i] = i
OBVIOUS

\* The fields of the server are changed a few at a time.
LEMMA ServerUpdate ==
  ASSUME NEW s \in Server
  PROVE  /\ \A p \in {"closed", "events", "yield", "keep_alive", "ended"} :
              [s EXCEPT !.pc = p] \in Server
         /\ \A n \in Nat : [s EXCEPT !.sequence = n] \in Server
         /\ \A q \in Seq(Nat) : [s EXCEPT !.events = q] \in Server
         /\ \A c \in Int : [s EXCEPT !.chunk = c] \in Server
BY SMT DEF Server

LEMMA ServerKeepsAlive ==
  ASSUME NEW s \in Server
  PROVE  LET t == [s EXCEPT !.chunk = KeepAlive, !.pc = "events"]
         IN /\ t \in Server /\ t.pc = "events" /\ t.chunk = KeepAlive
            /\ t.sequence = s.sequence /\ t.events = s.events
<1> DEFINE u == [s EXCEPT !.chunk = KeepAlive]
           t == [u EXCEPT !.pc = "events"]
<1>1. KeepAlive \in Int
  BY DEF KeepAlive
<1>2. u \in Server
  BY <1>1, ServerUpdate, Zenon
<1>3. t \in Server
  BY <1>2, ServerUpdate, Zenon
<1>4. /\ t.pc = "events" /\ t.chunk = KeepAlive
      /\ t.sequence = s.sequence /\ t.events = s.events
  BY SMT DEF Server
<1> QED BY <1>3, <1>4, Zenon

LEMMA ServerDelivered ==
  ASSUME NEW s \in Server
  PROVE  LET t == [s EXCEPT !.chunk = Nothing]
         IN /\ t \in Server /\ t.pc = s.pc /\ t.chunk = Nothing
            /\ t.sequence = s.sequence /\ t.events = s.events
<1>1. Nothing \in Int
  BY DEF Nothing
<1> QED BY <1>1 DEF Server

LEMMA LastEvent ==
  ASSUME Typed
  PROVE  Status \in JobState /\ log[Len(log)].at \in Nat
<1>1. log[Len(log)] \in Event
  BY DEF Typed
<1> QED BY <1>1 DEF Event, Status

LEMMA MaxOfTwo ==
  ASSUME NEW a \in Int, NEW b \in Int
  PROVE  Max({a, b}) \in Int /\ Max({a, b}) >= a
<1>1. \E m \in {a, b} : \A x \in {a, b} : m >= x
  <2>1. CASE a >= b
    BY <2>1
  <2>2. CASE b >= a
    BY <2>2
  <2> QED BY <2>1, <2>2
<1> QED BY <1>1 DEF Max

LEMMA BegunType ==
  ASSUME Typed, NEW past \in Nat, NEW at \in Begun(past)
  PROVE  at \in Nat
<1>1. PICK lag \in Lags : at = Max({past, clock - lag})
  BY DEF Begun
<1>2. past \in Int /\ clock - lag \in Int
  BY ClocksAssumption DEF Typed
<1>3. at \in Int /\ at >= past
  BY <1>1, <1>2, MaxOfTwo
<1> QED BY <1>3

\* The history of a job is only appended to.
Grown ==
  /\ resume' \in ActiveStates
  /\ clock' \in Nat /\ available' \in Nat
  /\ log' \in Seq(Event) /\ Len(log') > Len(log)
  /\ UNCHANGED <<server, client, shown>>

LEMMA LogGrows ==
  ASSUME Typed, JobStep
  PROVE  Grown
<1>0. /\ clock \in Nat /\ available \in Nat /\ 0 \in Nat
      /\ log[Len(log)].at + 1 \in Nat
  BY LastEvent DEF Typed
<1>1. ASSUME NEW status \in JobState, NEW stage \in ActiveStates, NEW at \in Nat,
             Write(status, stage, at)
      PROVE  Grown
  <2>1. [status |-> status, at |-> at] \in Event
    BY DEF Event
  <2>2. log' = Append(log, [status |-> status, at |-> at])
    BY <1>1 DEF Write, Logged
  <2>3. log' \in Seq(Event) /\ Len(log') > Len(log)
    BY <2>1, <2>2 DEF Typed
  <2>4. clock' = clock + 1 /\ available' \in {at, available} /\ resume' = stage
        /\ UNCHANGED <<server, client, shown>>
    BY <1>1 DEF Write
  <2>5. clock' \in Nat /\ available' \in Nat
    BY <1>0, <2>4
  <2> QED BY <2>3, <2>4, <2>5 DEF Grown
<1>2. CASE CompleteStage
  BY <1>0, <1>1, <1>2, Statuses DEF CompleteStage, Typed
<1>3. CASE FailStage
  <2>1. Status \in ActiveStates /\ resume \in ActiveStates
    BY <1>3 DEF FailStage, Typed
  <2>2. PICK at \in Begun(log[Len(log)].at + 1) :
          Write("retry_scheduled", Status, at) \/ Write("failed", resume, at)
    BY <1>3 DEF FailStage
  <2>3. at \in Nat
    BY <1>0, BegunType
  <2> QED BY <1>1, <2>1, <2>2, <2>3, Statuses
<1>4. CASE Decide
  <2>1. PICK at \in {clock} \cup Begun(0) :
          Write("approved", "creating_pr", at) \/ Write("rejected", resume, at)
    BY <1>4 DEF Decide
  <2>2. at \in Nat /\ resume \in ActiveStates
    BY <1>0, BegunType DEF Typed
  <2> QED BY <1>1, <2>1, <2>2, Statuses
<1>5. CASE Claim
  <2>1. PICK at \in Begun(available) :
          Write(resume, resume, at) \/ Write("creating_pr", "creating_pr", at)
    BY <1>5 DEF Claim
  <2>2. at \in Nat /\ resume \in ActiveStates
    BY <1>0, BegunType DEF Typed
  <2> QED BY <1>1, <2>1, <2>2, Statuses
<1>6. CASE Promote
  <2>0. PICK at \in Begun(available) :
          \/ Write("queued", resume, at)
          \/ /\ log' = Append(Logged("queued", at), [status |-> resume, at |-> at])
             /\ clock' = clock + 1
             /\ UNCHANGED <<resume, available, server, client, shown>>
    BY <1>6 DEF Promote
  <2>1. at \in Nat /\ resume \in ActiveStates
    BY <1>0, BegunType DEF Typed
  <2>2. CASE Write("queued", resume, at)
    BY <1>1, <2>1, <2>2, Statuses
  <2>3. CASE /\ log' = Append(Logged("queued", at), [status |-> resume, at |-> at])
             /\ clock' = clock + 1
             /\ UNCHANGED <<resume, available, server, client, shown>>
    <3>1. /\ [status |-> "queued", at |-> at] \in Event
          /\ [status |-> resume, at |-> at] \in Event
      BY <2>1, Statuses DEF Event
    <3>2. Logged("queued", at) \in Seq(Event)
          /\ Len(Logged("queued", at)) = Len(log) + 1
      BY <3>1 DEF Logged, Typed
    <3>3. log' \in Seq(Event) /\ Len(log') > Len(log)
      BY <2>3, <3>1, <3>2 DEF Typed
    <3>4. clock' \in Nat /\ available' \in Nat /\ resume' \in ActiveStates
      BY <1>0, <2>1, <2>3
    <3> QED BY <2>3, <3>3, <3>4 DEF Grown
  <2> QED BY <2>0, <2>2, <2>3
<1> QED BY <1>2, <1>3, <1>4, <1>5, <1>6 DEF JobStep

LEMMA JobKeeps ==
  ASSUME IInv, JobStep
  PROVE  IInv'
<1>1. /\ log' \in Seq(Event) /\ Len(log') > Len(log)
      /\ resume' \in ActiveStates /\ clock' \in Nat /\ available' \in Nat
      /\ server' = server /\ client' = client
  BY LogGrows DEF IInv, Grown
<1> QED BY <1>1 DEF IInv, Typed, StreamIsExact, Aligned, OnItsWay, Server,
             Client, Nothing, KeepAlive

LEMMA ReadEventsKeeps ==
  ASSUME IInv, ReadEvents
  PROVE  IInv'
<1> DEFINE read == [i \in 1..(Len(log) - server.sequence) |->
                      server.sequence + i]
<1>1. Len(log) - server.sequence \in Nat
  BY DEF IInv, Typed, Aligned, Server, ReadEvents
<1>2. read \in Seq(Nat) /\ Len(read) = Len(log) - server.sequence
  BY <1>1 DEF IInv, Typed, Server
<1>3. /\ server' = [server EXCEPT !.pc = "yield", !.events = read]
      /\ server.pc = "events" /\ UNCHANGED <<resume, available, clock, log, client, shown>>
  BY DEF ReadEvents
<1>4. \A i \in DOMAIN read : read[i] = server.sequence + i
  OBVIOUS
<1> HIDE DEF read
<1>5. Typed'
  BY <1>2, <1>3 DEF IInv, Typed, Server
<1>6. StreamIsExact'
  BY <1>3 DEF IInv, StreamIsExact
<1>7. Aligned'
  <2>1. /\ server'.pc = "yield" /\ server'.events = read
        /\ server'.chunk = server.chunk /\ server'.sequence = server.sequence
    BY <1>3 DEF IInv, Typed, Server
  <2>2. /\ client' = client /\ log' = log /\ server.pc = "events"
        /\ server.sequence \in Nat /\ Len(log) \in Nat
    BY <1>3 DEF IInv, Typed, Server
  <2>3. server'.sequence + Len(server'.events) <= Len(log')
    BY <1>1, <1>2, <2>1, <2>2
  <2>4. \A i \in DOMAIN server'.events :
          server'.events[i] = server'.sequence + i
    BY <1>4, <2>1
  <2> QED BY <2>1, <2>2, <2>3, <2>4 DEF IInv, Aligned, OnItsWay
<1> QED BY <1>5, <1>6, <1>7 DEF IInv

LEMMA YieldKeeps ==
  ASSUME IInv, Yield
  PROVE  IInv'
<1> DEFINE n == Head(server.events)
           rest == Tail(server.events)
<1>1. /\ server' = [server EXCEPT !.chunk = n, !.sequence = n, !.events = rest]
      /\ server.pc = "yield" /\ server.events # <<>>
      /\ server.chunk = Nothing
      /\ UNCHANGED <<resume, available, clock, log, client, shown>>
  BY DEF Yield
<1>2. /\ server.events \in Seq(Nat)
      /\ server.sequence \in Nat
      /\ server.sequence = Len(client.received)
      /\ \A i \in DOMAIN server.events : server.events[i] = server.sequence + i
      /\ server.sequence + Len(server.events) <= Len(log)
  BY <1>1 DEF IInv, Typed, Server, Aligned, OnItsWay, Nothing
<1>3. /\ n = server.sequence + 1
      /\ rest \in Seq(Nat) /\ Len(rest) = Len(server.events) - 1
      /\ \A i \in DOMAIN rest : rest[i] = n + i
  BY <1>1, <1>2, TakeHead
<1> HIDE DEF n, rest
<1>4. /\ server'.pc = "yield" /\ server'.events = rest
      /\ server'.chunk = n /\ server'.sequence = n
      /\ server' \in Server
  <2>1. n \in Nat /\ n \in Int /\ rest \in Seq(Nat) /\ server \in Server
    BY <1>2, <1>3 DEF IInv, Typed
  <2> DEFINE u == [server EXCEPT !.chunk = n]
             v == [u EXCEPT !.sequence = n]
             t == [v EXCEPT !.events = rest]
  <2>2. u \in Server /\ u.pc = server.pc /\ u.chunk = n
    <3>1. u \in Server
      BY <2>1, ServerUpdate
    <3>2. u.pc = server.pc /\ u.chunk = n
      BY <2>1 DEF Server
    <3> QED BY <3>1, <3>2
  <2>3. v \in Server /\ v.pc = server.pc /\ v.chunk = n /\ v.sequence = n
    <3> HIDE DEF u
    <3>1. v \in Server
      BY <2>1, <2>2, ServerUpdate, Zenon
    <3>2. v.pc = server.pc /\ v.chunk = n /\ v.sequence = n
      BY <2>2 DEF Server
    <3> QED BY <3>1, <3>2
  <2>4. t \in Server /\ t.pc = server.pc /\ t.chunk = n /\ t.sequence = n
        /\ t.events = rest
    <3> HIDE DEF u, v
    <3>1. t \in Server
      BY <2>1, <2>3, ServerUpdate, Zenon
    <3>2. t.pc = server.pc /\ t.chunk = n /\ t.sequence = n /\ t.events = rest
      BY <2>3 DEF Server
    <3> QED BY <3>1, <3>2
  <2>5. server' = t
    BY <1>1, Zenon
  <2> HIDE DEF t
  <2> QED BY <1>1, <2>4, <2>5
<1>5. Typed' /\ StreamIsExact'
  BY <1>1, <1>4 DEF IInv, Typed, StreamIsExact
<1>6. Aligned'
  BY <1>1, <1>2, <1>3, <1>4 DEF IInv, Typed, Aligned, OnItsWay, Client
<1> QED BY <1>5, <1>6 DEF IInv

LEMMA RestOfServerKeeps ==
  ASSUME IInv, ReadStatus \/ YieldKeepAlive
  PROVE  IInv'
<1>1. CASE ReadStatus
  <2>1. /\ server'.pc \in {"ended", "keep_alive"}
        /\ server'.sequence = server.sequence /\ server'.chunk = server.chunk
        /\ server' \in Server
        /\ server.pc = "yield"
        /\ UNCHANGED <<resume, available, clock, log, client>>
    BY <1>1 DEF ReadStatus, IInv, Typed, Server
  <2> QED BY <2>1 DEF IInv, Typed, StreamIsExact, Aligned, OnItsWay
<1>2. CASE YieldKeepAlive
  <2>1. /\ server'.pc = "events" /\ server'.chunk = KeepAlive
        /\ server'.sequence = server.sequence
        /\ server' \in Server
        /\ server.pc = "keep_alive" /\ server.chunk = -1
        /\ UNCHANGED <<resume, available, clock, log, client>>
    BY <1>2, ServerKeepsAlive DEF YieldKeepAlive, IInv, Typed, Nothing
  <2> QED BY <2>1 DEF IInv, Typed, StreamIsExact, Aligned, OnItsWay, KeepAlive
<1> QED BY <1>1, <1>2

LEMMA ConnectKeeps ==
  ASSUME IInv, Connect
  PROVE  IInv'
<1>1. PICK known \in {<<>>, client.received} :
        /\ server' = [Closed EXCEPT !.pc = "events",
             !.sequence = IF known = <<>> THEN 0 ELSE known[Len(known)]]
        /\ client' = [client EXCEPT !.pc = "reading", !.received = known]
  BY DEF Connect
<1>2. /\ known \in Seq(Nat) /\ Len(known) <= Len(log)
      /\ \A i \in DOMAIN known : known[i] = i
      /\ UNCHANGED <<resume, available, clock, log>>
  <2>1. /\ client.received \in Seq(Nat) /\ Len(client.received) <= Len(log)
        /\ \A i \in DOMAIN client.received : client.received[i] = i
        /\ UNCHANGED <<resume, available, clock, log>>
    BY DEF IInv, Typed, Client, StreamIsExact, Connect
  <2>2. CASE known = <<>>
    <3>1. Len(log) > 0
      BY DEF IInv, Typed
    <3> QED BY <2>1, <2>2, <3>1
  <2> QED BY <2>1, <2>2
<1>3. (IF known = <<>> THEN 0 ELSE known[Len(known)]) = Len(known)
  BY <1>2
<1>4. /\ client' \in Client /\ client'.received = known
  BY <1>1, <1>2 DEF IInv, Typed, Client
<1>5. /\ server' \in Server /\ server'.pc = "events" /\ server'.chunk = -1
      /\ server'.sequence = Len(known)
  <2>1. server' = [Closed EXCEPT !.pc = "events", !.sequence = Len(known)]
    BY <1>1, <1>3, Zenon
  <2>2. Len(known) \in Nat /\ -1 \in Int
    BY <1>2
  <2>3. server' = [pc |-> "events", sequence |-> Len(known), events |-> <<>>,
                   chunk |-> -1]
    BY <2>1 DEF Closed, Nothing
  <2> QED BY <2>2, <2>3 DEF Server
<1> QED BY <1>2, <1>4, <1>5
      DEF IInv, Typed, StreamIsExact, Aligned, OnItsWay, Nothing

LEMMA ReadChunkKeeps ==
  ASSUME IInv, ReadChunk
  PROVE  IInv'
<1> DEFINE n == server.chunk
           more == IF n = KeepAlive THEN client.received
                   ELSE Append(client.received, n)
<1>1. /\ n \in {0, Len(client.received) + 1}
      /\ client.received \in Seq(Nat) /\ Len(client.received) \in Nat
      /\ n \in Nat
      /\ server.pc # "closed"
      /\ server.sequence = Len(client.received) + OnItsWay
      /\ server.sequence <= Len(log)
  BY DEF ReadChunk, IInv, Typed, Server, Client, Aligned, Nothing, KeepAlive
<1>2. /\ more \in Seq(Nat) /\ Len(more) = Len(client.received) + OnItsWay
      /\ Len(more) <= Len(log)
      /\ \A i \in DOMAIN more : more[i] = i
  <2>1. /\ \A i \in DOMAIN client.received : client.received[i] = i
        /\ Len(log) \in Nat
    BY DEF IInv, StreamIsExact, Typed
  <2>2. CASE n = 0
    BY <1>1, <2>1, <2>2 DEF OnItsWay, KeepAlive
  <2>3. CASE n = Len(client.received) + 1
    <3>1. more = Append(client.received, Len(client.received) + 1)
      BY <1>1, <2>3 DEF KeepAlive
    <3>2. OnItsWay = 1
      BY <1>1, <2>3 DEF OnItsWay
    <3> HIDE DEF more
    <3> QED BY <1>1, <2>1, <3>1, <3>2, AppendNext
  <2> QED BY <1>1, <2>2, <2>3
<1>3. /\ client' = [client EXCEPT !.pc = "refresh", !.received = more]
      /\ server' = [server EXCEPT !.chunk = Nothing]
      /\ UNCHANGED <<resume, available, clock, log>>
  BY DEF ReadChunk
<1> HIDE DEF more
<1>4. client' \in Client /\ client'.received = more
  BY <1>2, <1>3 DEF IInv, Typed, Client
<1>5. /\ server' \in Server /\ server'.chunk = Nothing /\ server'.pc = server.pc
      /\ server'.sequence = server.sequence /\ server'.events = server.events
  BY <1>3, ServerDelivered DEF IInv, Typed
<1>6. Typed' /\ StreamIsExact'
  BY <1>2, <1>3, <1>4, <1>5 DEF IInv, Typed, StreamIsExact
<1>7. Aligned'
  <2>1. server'.sequence = Len(client'.received)
    BY <1>1, <1>2, <1>4, <1>5
  <2>4. OnItsWay' = 0
    BY <1>5 DEF OnItsWay, Nothing
  <2>2. server.pc = "yield" =>
          /\ \A i \in DOMAIN server.events :
               server.events[i] = server.sequence + i
          /\ server.sequence + Len(server.events) <= Len(log)
    BY DEF IInv, Aligned
  <2>3. Len(client'.received) \in Nat /\ Len(client'.received) <= Len(log)
    BY <1>2, <1>4
  <2> QED BY <1>1, <1>3, <1>5, <2>1, <2>2, <2>3, <2>4 DEF Aligned
<1> QED BY <1>6, <1>7 DEF IInv

LEMMA JobShown ==
  ASSUME NEW status \in JobState, NEW completed \in Nat
  PROVE  [NotShown EXCEPT !.status = status, !.completed = completed] \in Response
<1> DEFINE u == [NotShown EXCEPT !.status = status]
<1>1. NotShown \in Response
  BY DEF NotShown, Response
<1>2. u \in Response
  BY <1>1 DEF Response
<1> HIDE DEF u
<1>3. [u EXCEPT !.completed = completed] \in Response
  BY <1>2 DEF Response
<1> QED BY <1>3 DEF u

LEMMA RestOfClientKeeps ==
  ASSUME IInv, ReadEnd \/ ObserveJob \/ ObserveEvents \/ Disconnect
  PROVE  IInv'
<1>1. Closed \in Server /\ Closed.pc = "closed" /\ Closed.chunk = Nothing
  BY DEF Closed, Server, Nothing
<1>2. NotShown \in Response
  BY DEF NotShown, Response
<1>3. CASE ReadEnd
  <2>1. client' \in Client /\ client'.received = client.received
        /\ server' = Closed /\ UNCHANGED <<resume, available, clock, log>>
    BY <1>3 DEF ReadEnd, IInv, Typed, Client
  <2> QED BY <1>1, <2>1 DEF IInv, Typed, StreamIsExact, Aligned
<1>4. CASE Disconnect
  <2>1. client' \in Client /\ client'.received = client.received
        /\ server' = Closed /\ UNCHANGED <<resume, available, clock, log>>
    BY <1>2, <1>4 DEF Disconnect, IInv, Typed, Client
  <2> QED BY <1>1, <2>1 DEF IInv, Typed, StreamIsExact, Aligned
<1>5. CASE ObserveJob
  <2> DEFINE response ==
        [NotShown EXCEPT !.status = Status,
           !.completed = IF Status \in TerminalStates THEN log[Len(log)].at
                         ELSE 0]
  <2>1. response \in Response
    <3>1. log[Len(log)] \in Event
      BY DEF IInv, Typed
    <3>2. (IF Status \in TerminalStates THEN log[Len(log)].at ELSE 0) \in Nat
      BY <3>1 DEF Event
    <3>3. Status \in JobState
      BY LastEvent DEF IInv
    <3> QED BY <3>2, <3>3, JobShown, Zenon
  <2>2. client' = [client EXCEPT !.job = response]
        /\ UNCHANGED <<server, resume, available, clock, log>>
    BY <1>5 DEF ObserveJob
  <2> HIDE DEF response
  <2>3. client' \in Client /\ client'.received = client.received
    BY <2>1, <2>2 DEF IInv, Typed, Client
  <2> QED BY <2>2, <2>3 DEF IInv, Typed, StreamIsExact, Aligned, OnItsWay
<1>6. CASE ObserveEvents
  <2>1. client' \in Client /\ client'.received = client.received
        /\ UNCHANGED <<server, resume, available, clock, log>>
    BY <1>2, <1>6 DEF ObserveEvents, IInv, Typed, Client
  <2> QED BY <2>1 DEF IInv, Typed, StreamIsExact, Aligned, OnItsWay
<1> QED BY <1>3, <1>4, <1>5, <1>6

-----------------------------------------------------------------------------

LEMMA InitIInv == Init => IInv
<1> SUFFICES ASSUME Init PROVE IInv
  OBVIOUS
<1>1. log \in Seq(Event) /\ Len(log) = 1
  BY Statuses DEF Init, Event
<1>2. resume \in ActiveStates /\ clock \in Nat /\ available \in Nat
  BY ClocksAssumption DEF Init, ActiveStates
<1>3. client \in Client /\ client.received = <<>>
  BY DEF Init, Client, NotShown, Response
<1>4. server \in Server /\ server.pc = "closed" /\ server.chunk = Nothing
  BY DEF Init, Closed, Server, Nothing
<1> QED BY <1>1, <1>2, <1>3, <1>4 DEF IInv, Typed, StreamIsExact, Aligned

LEMMA NextIInv == IInv /\ [Next]_vars => IInv'
<1> SUFFICES ASSUME IInv, [Next]_vars PROVE IInv'
  OBVIOUS
<1>1. CASE UNCHANGED vars
  BY <1>1 DEF vars, IInv, Typed, StreamIsExact, Aligned, OnItsWay
<1>2. CASE Next
  BY <1>2, JobKeeps, ReadEventsKeeps, YieldKeeps, RestOfServerKeeps,
     ConnectKeeps, ReadChunkKeeps, RestOfClientKeeps
     DEF Next, ServerStep, ClientStep
<1> QED BY <1>1, <1>2

\* Over any number of broken connections a client that resumes after its last
\* event has every event of the history once, in order, and nothing else.
THEOREM ExactStream == Spec => []StreamIsExact
<1>1. IInv => StreamIsExact
  BY DEF IInv
<1> QED BY <1>1, InitIInv, NextIInv, PTL DEF Spec
-----------------------------------------------------------------------------
(* The status response.  Between two events of a history there are only the *)
(* changes below; with them a job and events that are read apart fit.       *)

Follows(e, f) ==
  /\ e.status \notin TerminalStates
  /\ e.status = "awaiting_approval" <=> f.status \in {"approved", "rejected"}
  /\ f.status = "awaiting_approval" => e.status \in ActiveStates

History(l) ==
  /\ l[1] = [status |-> "queued", at |-> 0]
  /\ \A i \in 1..(Len(l) - 1) : Follows(l[i], l[i + 1])

\* What a response says of the job is true of the first n events.
Reported(job, n) ==
  /\ \E i \in 1..n : log[i].status = job.status
  /\ IF job.status \in TerminalStates
     THEN /\ n = Len(log) /\ log[n].status \in TerminalStates
          /\ job.completed = log[n].at
     ELSE job.completed = 0

Observed ==
  /\ History(log)
  /\ client.job # NotShown => Reported(client.job, Len(log))
  /\ shown # NotShown =>
       /\ shown \in Response
       /\ shown.events \in 1..Len(log)
       /\ Reported(shown, shown.events)

LEMMA Appended ==
  ASSUME NEW l \in Seq(Event), Len(l) > 0, History(l),
         NEW f \in Event, Follows(l[Len(l)], f)
  PROVE  /\ Append(l, f) \in Seq(Event) /\ Len(Append(l, f)) = Len(l) + 1
         /\ Append(l, f)[Len(l) + 1] = f
         /\ \A i \in 1..Len(l) : Append(l, f)[i] = l[i]
         /\ History(Append(l, f))
<1>1. PICK m : m = Append(l, f)
  OBVIOUS
<1>2. /\ m \in Seq(Event) /\ Len(m) = Len(l) + 1 /\ m[Len(l) + 1] = f
      /\ \A i \in 1..Len(l) : m[i] = l[i]
  BY <1>1
<1>3. ASSUME NEW i \in 1..(Len(m) - 1)
      PROVE  Follows(m[i], m[i + 1])
  <2>1. CASE i = Len(l)
    BY <1>2, <2>1
  <2>2. CASE i # Len(l)
    <3>1. i \in 1..(Len(l) - 1) /\ i \in 1..Len(l) /\ i + 1 \in 1..Len(l)
      BY <1>2, <2>2
    <3> QED BY <1>2, <3>1 DEF History
  <2> QED BY <2>1, <2>2
<1>4. m[1] = l[1]
  BY <1>2
<1> QED BY <1>1, <1>2, <1>3, <1>4 DEF History

Longer ==
  /\ log' \in Seq(Event) /\ Len(log') > Len(log)
  /\ \A i \in 1..Len(log) : log'[i] = log[i]
  /\ History(log')
  /\ log[Len(log)].status \notin TerminalStates

LEMMA WriteExtends ==
  ASSUME Typed, History(log), NEW status \in JobState, NEW stage, NEW at \in Nat,
         Status \notin TerminalStates,
         Status = "awaiting_approval" <=> status \in {"approved", "rejected"},
         status = "awaiting_approval" => Status \in ActiveStates,
         Write(status, stage, at)
  PROVE  Longer
<1>1. [status |-> status, at |-> at] \in Event
  BY DEF Event
<1>2. log' = Append(log, [status |-> status, at |-> at])
  BY DEF Write, Logged
<1>3. log \in Seq(Event) /\ Len(log) > 0
  BY DEF Typed
<1>4. log[Len(log)].status \notin TerminalStates
  BY DEF Status
<1>5. Follows(log[Len(log)], [status |-> status, at |-> at])
  BY DEF Follows, Status
<1> QED BY <1>1, <1>2, <1>3, <1>4, <1>5, Appended DEF Longer

LEMMA JobExtends ==
  ASSUME Typed, History(log), JobStep
  PROVE  Longer
<1>1. ASSUME NEW status \in JobState, NEW stage, NEW at \in Nat,
             Write(status, stage, at),
             Status \notin TerminalStates,
             Status = "awaiting_approval" <=> status \in {"approved", "rejected"},
             status = "awaiting_approval" => Status \in ActiveStates
      PROVE  Longer
  BY <1>1, WriteExtends
<1>2. resume \in ActiveStates /\ resume \in JobState
  BY Statuses DEF Typed
<1>0. /\ clock \in Nat /\ available \in Nat /\ 0 \in Nat
      /\ log[Len(log)].at + 1 \in Nat
  BY LastEvent DEF Typed
<1>3. CASE CompleteStage
  BY <1>0, <1>1, <1>3, Statuses DEF CompleteStage, TerminalStates, ActiveStates
<1>4. CASE FailStage
  <2>1. PICK at \in Begun(log[Len(log)].at + 1) :
          Write("retry_scheduled", Status, at) \/ Write("failed", resume, at)
    BY <1>4 DEF FailStage
  <2>2. at \in Nat
    BY <1>0, BegunType
  <2>3. Status \in ActiveStates
    BY <1>4 DEF FailStage
  <2> QED BY <1>1, <2>1, <2>2, <2>3, Statuses DEF TerminalStates, ActiveStates
<1>5. CASE Decide
  <2>1. PICK at \in {clock} \cup Begun(0) :
          Write("approved", "creating_pr", at) \/ Write("rejected", resume, at)
    BY <1>5 DEF Decide
  <2>2. at \in Nat
    BY <1>0, BegunType
  <2> QED BY <1>1, <1>5, <2>1, <2>2, Statuses DEF Decide, TerminalStates
<1>6. CASE Claim
  <2>1. PICK at \in Begun(available) :
          \/ Status = "queued" /\ Write(resume, resume, at)
          \/ Status = "approved" /\ Write("creating_pr", "creating_pr", at)
    BY <1>6 DEF Claim
  <2>2. at \in Nat
    BY <1>0, BegunType
  <2> QED BY <1>1, <1>2, <2>1, <2>2, Statuses DEF TerminalStates, ActiveStates
<1>7. CASE Promote
  <2>0. PICK at \in Begun(available) :
          \/ Write("queued", resume, at)
          \/ log' = Append(Logged("queued", at), [status |-> resume, at |-> at])
    BY <1>7 DEF Promote
  <2>1. at \in Nat
    BY <1>0, BegunType
  <2>2. Status = "retry_scheduled" /\ Status \notin TerminalStates
    BY <1>7 DEF Promote, TerminalStates
  <2>3. CASE Write("queued", resume, at)
    BY <1>1, <2>1, <2>2, <2>3, Statuses
  <2>4. CASE log' = Append(Logged("queued", at), [status |-> resume, at |-> at])
    <3> DEFINE e == [status |-> "queued", at |-> at]
               f == [status |-> resume, at |-> at]
    <3>1. e \in Event /\ f \in Event
      BY <1>2, <2>1, Statuses DEF Event
    <3>2. Follows(log[Len(log)], e) /\ log[Len(log)].status \notin TerminalStates
      BY <2>2 DEF Follows, Status
    <3>3. Follows(e, f)
      BY <1>2 DEF Follows, TerminalStates, ActiveStates
    <3> HIDE DEF e, f
    <3>4. log \in Seq(Event) /\ Len(log) > 0
      BY DEF Typed
    <3>5. PICK m : m = Append(log, e)
      OBVIOUS
    <3>6. /\ m \in Seq(Event) /\ Len(m) = Len(log) + 1 /\ m[Len(log) + 1] = e
          /\ \A i \in 1..Len(log) : m[i] = log[i]
          /\ History(m)
      BY <3>1, <3>2, <3>4, <3>5, Appended
    <3>7. log' = Append(m, f)
      BY <2>4, <3>5 DEF Logged, e, f
    <3>8. m[Len(m)] = e /\ Len(m) > 0
      BY <3>4, <3>6
    <3>9. /\ log' \in Seq(Event) /\ Len(log') = Len(m) + 1 /\ History(log')
          /\ \A i \in 1..Len(m) : log'[i] = m[i]
      BY <3>1, <3>3, <3>6, <3>7, <3>8, Appended
    <3>10. Len(log') > Len(log) /\ \A i \in 1..Len(log) : i \in 1..Len(m)
      BY <3>4, <3>6, <3>9
    <3> QED BY <3>2, <3>6, <3>9, <3>10 DEF Longer
  <2> QED BY <2>0, <2>3, <2>4
<1> QED BY <1>3, <1>4, <1>5, <1>6, <1>7 DEF JobStep

\* A response that is true stays true when the history goes on.
LEMMA StaysReported ==
  ASSUME Typed, Longer, NEW job
  PROVE  /\ Reported(job, Len(log)) =>
              (\A n \in 1..Len(log') : n >= Len(log) => 
                 (\E i \in 1..n : log'[i].status = job.status)
                   /\ job.status \notin TerminalStates /\ job.completed = 0)
         /\ \A n \in 1..Len(log) : Reported(job, n) =>
              (\E i \in 1..n : log'[i].status = job.status)
                /\ job.status \notin TerminalStates /\ job.completed = 0
<1>1. Len(log) \in Nat /\ Len(log) > 0
  BY DEF Typed
<1>2. ASSUME NEW n \in 1..Len(log), Reported(job, n)
      PROVE  /\ \E i \in 1..n : log'[i].status = job.status
             /\ job.status \notin TerminalStates /\ job.completed = 0
  BY <1>1, <1>2 DEF Reported, Longer
<1>3. Len(log) \in 1..Len(log)
  BY <1>1
<1>4. ASSUME Reported(job, Len(log)), NEW n \in 1..Len(log'), n >= Len(log)
      PROVE  \E i \in 1..n : log'[i].status = job.status
  <2>1. PICK i \in 1..Len(log) : log'[i].status = job.status
    BY <1>2, <1>3, <1>4
  <2>2. i \in 1..n
    BY <1>1, <1>4
  <2> QED BY <2>1, <2>2
<1> QED BY <1>2, <1>3, <1>4

LEMMA JobKeepsObserved ==
  ASSUME Typed, Observed, JobStep
  PROVE  Observed'
<1>1. Longer /\ UNCHANGED <<client, shown>>
  BY JobExtends, LogGrows DEF Observed, Grown
<1>2. Len(log) \in Nat /\ Len(log) > 0 /\ Len(log') \in Nat /\ Len(log') > Len(log)
  BY <1>1 DEF Typed, Longer
<1>3. History(log)'
  BY <1>1 DEF Longer
<1>4. client'.job # NotShown => Reported(client.job, Len(log))'
  <2> SUFFICES ASSUME client.job # NotShown
               PROVE  Reported(client.job, Len(log))'
    BY <1>1
  <2>1. Reported(client.job, Len(log))
    BY DEF Observed
  <2>2. Len(log') \in 1..Len(log') /\ Len(log') >= Len(log)
    BY <1>2
  <2>3. PICK job : job = client.job
    OBVIOUS
  <2>4. /\ \E i \in 1..Len(log') : log'[i].status = job.status
        /\ job.status \notin TerminalStates /\ job.completed = 0
    BY <1>1, <2>1, <2>2, <2>3, StaysReported
  <2> QED BY <1>1, <2>3, <2>4 DEF Reported
<1>5. shown' # NotShown =>
        /\ shown' \in Response
        /\ shown'.events \in 1..Len(log')
        /\ Reported(shown, shown.events)'
  <2> SUFFICES ASSUME shown # NotShown
               PROVE  /\ shown \in Response
                      /\ shown.events \in 1..Len(log')
                      /\ Reported(shown, shown.events)'
    BY <1>1
  <2>1. PICK job : job = shown
    OBVIOUS
  <2>2. /\ job \in Response /\ job.events \in 1..Len(log)
        /\ Reported(job, job.events)
    BY <2>1 DEF Observed
  <2>3. job.events \in 1..Len(log')
    BY <1>2, <2>2
  <2>4. /\ \E i \in 1..job.events : log'[i].status = job.status
        /\ job.status \notin TerminalStates /\ job.completed = 0
    BY <1>1, <2>2, StaysReported
  <2> QED BY <1>1, <2>1, <2>2, <2>3, <2>4 DEF Reported
<1> QED BY <1>3, <1>4, <1>5 DEF Observed

LEMMA ObserveJobKeepsObserved ==
  ASSUME Typed, Observed, ObserveJob
  PROVE  Observed'
<1>1. PICK job : job = [NotShown EXCEPT !.status = Status,
          !.completed = IF Status \in TerminalStates THEN log[Len(log)].at
                        ELSE 0]
  OBVIOUS
<1>2. client'.job = job /\ log' = log /\ shown' = shown
  BY <1>1 DEF ObserveJob, Typed, Client
<1>3. Len(log) \in 1..Len(log)
  BY DEF Typed
<1>4. job.status = log[Len(log)].status
      /\ job.completed = IF Status \in TerminalStates THEN log[Len(log)].at ELSE 0
  BY <1>1 DEF Status, NotShown
<1>5. Reported(job, Len(log))
  BY <1>3, <1>4 DEF Reported, Status
<1> QED BY <1>2, <1>5 DEF Observed, Reported

LEMMA ObserveEventsKeepsObserved ==
  ASSUME Typed, Observed, ObserveEvents
  PROVE  Observed'
<1>1. PICK job : job = client.job
  OBVIOUS
<1>2. job \in Response /\ Reported(job, Len(log))
  BY <1>1 DEF Typed, Client, Observed, ObserveEvents
<1>3. PICK skew \in Skews :
        /\ shown' = [job EXCEPT !.events = Len(log), !.now = clock - skew]
        /\ client'.job = NotShown /\ log' = log
  BY <1>1 DEF ObserveEvents, Typed, Client
<1>4. /\ shown'.status = job.status /\ shown'.completed = job.completed
      /\ shown'.events = Len(log)
  BY <1>2, <1>3 DEF Response
<1>5. Len(log) \in 1..Len(log) /\ Len(log) \in Nat /\ clock - skew \in Int
  BY ClocksAssumption DEF Typed
<1>6. Reported(shown, shown.events)'
  BY <1>2, <1>3, <1>4 DEF Reported
<1>7. shown' \in Response
  BY <1>2, <1>3, <1>5 DEF Response
<1> QED BY <1>3, <1>4, <1>5, <1>6, <1>7 DEF Observed

LEMMA RestKeepsObserved ==
  ASSUME Typed, Observed,
         \/ ServerStep \/ Connect \/ ReadChunk \/ ReadEnd \/ Disconnect
         \/ UNCHANGED vars
  PROVE  Observed'
<1>1. /\ UNCHANGED <<log, shown>>
      /\ client'.job \in {client.job, NotShown}
  BY DEF ServerStep, ReadEvents, Yield, ReadStatus, YieldKeepAlive, Connect,
         ReadChunk, ReadEnd, Disconnect, vars, Typed, Client
<1>2. PICK job : job = client'.job
  OBVIOUS
<1> QED BY <1>1, <1>2 DEF Observed, Reported

LEMMA NextObserved == IInv /\ Observed /\ [Next]_vars => Observed'
BY JobKeepsObserved, ObserveJobKeepsObserved, ObserveEventsKeepsObserved,
   RestKeepsObserved DEF IInv, Next, ClientStep

-----------------------------------------------------------------------------
(* The times.  The wait in the queue ends with the first active event, the  *)
(* wait for a human lasts from the first awaiting_approval to the event     *)
(* after it, and the stages are other intervals.                            *)

LEMMA Shown ==
  ASSUME Typed, Observed, shown # NotShown
  PROVE  /\ shown.events \in 1..Len(log) /\ shown.events \in Nat
         /\ Len(Events) = shown.events /\ Events \in Seq(Event)
         /\ \A i \in 1..shown.events : Events[i] = log[i]
         /\ \A i \in 1..shown.events :
              log[i].at \in Nat /\ log[i].status \in JobState
         /\ \A i \in 1..(shown.events - 1) : Follows(log[i], log[i + 1])
         /\ log[1] = [status |-> "queued", at |-> 0]
<1>1. shown.events \in 1..Len(log) /\ log \in Seq(Event) /\ History(log)
  BY DEF Observed, Typed
<1>2. /\ Len(Events) = shown.events /\ Events \in Seq(Event)
      /\ \A i \in 1..shown.events : Events[i] = log[i]
  BY <1>1 DEF Events
<1>3. \A i \in 1..shown.events : log[i] \in Event
  BY <1>1
<1>4. \A i \in 1..(shown.events - 1) : Follows(log[i], log[i + 1])
  <2> DEFINE n == shown.events
  <2>1. n \in 1..Len(log) /\ Len(log) \in Nat
    BY <1>1
  <2>2. \A i \in 1..(Len(log) - 1) : Follows(log[i], log[i + 1])
    BY <1>1 DEF History
  <2> HIDE DEF n
  <2>3. \A i \in 1..(n - 1) : i \in 1..(Len(log) - 1)
    BY <2>1
  <2>4. \A i \in 1..(n - 1) : Follows(log[i], log[i + 1])
    BY <2>2, <2>3, Zenon
  <2> QED BY <2>4 DEF n
<1> QED BY <1>1, <1>2, <1>3, <1>4 DEF Event, History

\* Where the interval after an event ends, and its length, forward or back.
LEMMA Ends ==
  ASSUME Typed, Observed, shown # NotShown
  PROVE  /\ ElapsedEnd \in Int
         /\ \A i \in 1..shown.events :
              /\ Until(i) \in Int
              /\ Until(i) = IF i < shown.events THEN log[i + 1].at ELSE ElapsedEnd
<1>1. PICK n \in Nat : n = shown.events
  BY Shown
<1>2. shown.completed \in Int /\ shown.now \in Int
  BY DEF Observed, Response
<1>3. ElapsedEnd \in Int
  BY <1>2 DEF ElapsedEnd
<1>4. Len(Events) = n
  BY <1>1, Shown
<1>5. ASSUME NEW i \in 1..n
      PROVE  /\ Until(i) \in Int
             /\ Until(i) = IF i < n THEN log[i + 1].at ELSE ElapsedEnd
  <2>1. CASE i < n
    <3>1. i + 1 \in 1..n
      BY <2>1
    <3>2. Events[i + 1] = log[i + 1] /\ log[i + 1].at \in Nat
      BY <1>1, <3>1, Shown
    <3> QED BY <1>4, <2>1, <3>2 DEF Until
  <2>2. CASE ~(i < n)
    BY <1>3, <1>4, <2>2 DEF Until
  <2> QED BY <2>1, <2>2
<1> QED BY <1>1, <1>3, <1>5

LEMMA Durations ==
  ASSUME NEW a \in Int, NEW b \in Int
  PROVE  /\ Milliseconds(a, b) \in Nat /\ Milliseconds(b, a) \in Nat
         /\ b = a + Milliseconds(a, b) - Milliseconds(b, a)
BY DEF Milliseconds

LEMMA Single ==
  ASSUME NEW a \in Int
  PROVE  Max({a}) = a
BY DEF Max

LEMMA FirstEvent ==
  ASSUME Typed, Observed, shown # NotShown, NEW statuses
  PROVE  \/ /\ FirstAt(Events, statuses) = {}
            /\ \A i \in 1..shown.events : log[i].status \notin statuses
         \/ \E k \in 1..shown.events :
              /\ FirstAt(Events, statuses) = {log[k].at} /\ log[k].status \in statuses
              /\ \A i \in 1..(k - 1) : log[i].status \notin statuses
<1> DEFINE found == {i \in DOMAIN Events : Events[i].status \in statuses}
<1>1. PICK n \in Nat : n = shown.events
  BY Shown
<1>2. DOMAIN Events = 1..n /\ \A i \in 1..n : Events[i] = log[i]
  BY <1>1, Shown
<1>3. CASE found = {}
  <2>1. FirstAt(Events, statuses) = {}
    BY <1>3 DEF FirstAt
  <2> QED BY <1>1, <1>2, <1>3, <2>1
<1>4. CASE found # {}
  <2>1. FirstAt(Events, statuses) = {Events[Min(found)].at}
    BY <1>4 DEF FirstAt
  <2>2. found \in SUBSET Nat
    BY <1>2
  <2>3. \E k \in found : \A m \in found : k <= m
    <3> HIDE DEF found
    <3> QED BY <1>4, <2>2, LeastNat
  <2>4. PICK k \in found : k = Min(found) /\ \A m \in found : k <= m
    <3> HIDE DEF found
    <3> QED BY <2>3 DEF Min
  <2>5. k \in 1..n /\ Events[k] = log[k] /\ log[k].status \in statuses
    BY <1>2, <2>4
  <2>6. ASSUME NEW i \in 1..(k - 1)
        PROVE  log[i].status \notin statuses
    <3>1. i \in 1..n /\ ~(k <= i)
      BY <2>5
    <3>2. i \notin found
      BY <2>4, <3>1
    <3> QED BY <1>2, <3>1, <3>2
  <2>7. FirstAt(Events, statuses) = {log[k].at}
    BY <2>1, <2>4, <2>5
  <2> HIDE DEF found
  <2> QED BY <1>1, <2>5, <2>6, <2>7
<1> QED BY <1>3, <1>4

\* One event after the first active one ends the wait in the queue.
LEMMA QueueWaitIs ==
  ASSUME Typed, Observed, shown # NotShown
  PROVE  \E k \in 1..(shown.events + 1) :
           /\ \A i \in 1..(k - 1) : log[i].status \notin ActiveStates
           /\ k <= shown.events => log[k].status \in ActiveStates
           /\ QueueWait = IF k <= shown.events THEN log[k].at ELSE 0
<1>1. PICK n \in Nat : n = shown.events
  BY Shown
<1>2. CASE /\ FirstAt(Events, ActiveStates) = {}
           /\ \A i \in 1..n : log[i].status \notin ActiveStates
  <2>1. QueueWait = 0
    BY <1>2 DEF QueueWait, Span
  <2>2. n + 1 \in 1..(n + 1) /\ ~(n + 1 <= n) /\ (n + 1) - 1 = n
    OBVIOUS
  <2> QED BY <1>1, <1>2, <2>1, <2>2
<1>3. CASE \E k \in 1..n :
             /\ FirstAt(Events, ActiveStates) = {log[k].at}
             /\ log[k].status \in ActiveStates
             /\ \A i \in 1..(k - 1) : log[i].status \notin ActiveStates
  <2>1. PICK k \in 1..n :
          /\ FirstAt(Events, ActiveStates) = {log[k].at}
          /\ log[k].status \in ActiveStates
          /\ \A i \in 1..(k - 1) : log[i].status \notin ActiveStates
    BY <1>3
  <2>2. log[k].at \in Nat
    BY <1>1, <2>1, Shown
  <2>3. Max({log[k].at}) = log[k].at /\ Max({0}) = 0
    BY <2>2, Single
  <2>4. QueueWait = log[k].at
    BY <2>1, <2>2, <2>3 DEF QueueWait, Span, Milliseconds
  <2>5. k \in 1..(n + 1) /\ k <= n
    OBVIOUS
  <2> QED BY <1>1, <2>1, <2>4, <2>5
<1> QED BY <1>1, <1>2, <1>3, FirstEvent

\* The first decision follows the first awaiting_approval.
LEMMA HumanWaitIs ==
  ASSUME Typed, Observed, shown # NotShown
  PROVE  \E k \in 1..(shown.events + 1) :
           /\ \A i \in 1..(k - 1) : log[i].status # "awaiting_approval"
           /\ k <= shown.events =>
                /\ log[k].status = "awaiting_approval"
                /\ k > 1 /\ log[k - 1].status \in ActiveStates
           /\ HumanWait = IF k < shown.events THEN Milliseconds(log[k].at, log[k + 1].at)
                          ELSE 0
<1> DEFINE asks == FirstAt(Events, {"awaiting_approval"})
           says == IF FirstAt(Events, {"approved"}) # {} THEN FirstAt(Events, {"approved"})
                   ELSE FirstAt(Events, {"rejected"})
<1>1. PICK n \in Nat : n = shown.events
  BY Shown
<1>2. \A i \in 1..(n - 1) :
        /\ log[i].status \notin TerminalStates
        /\ log[i].status = "awaiting_approval"
             <=> log[i + 1].status \in {"approved", "rejected"}
        /\ log[i + 1].status = "awaiting_approval" => log[i].status \in ActiveStates
  BY <1>1, Shown DEF Follows
<1>3. log[1].status = "queued"
  BY Shown
<1>4. HumanWait = Span(asks, says)
  BY DEF HumanWait
<1>5. CASE /\ asks = {}
           /\ \A i \in 1..n : log[i].status # "awaiting_approval"
  <2>1. HumanWait = 0
    <3> HIDE DEF says
    <3> QED BY <1>4, <1>5 DEF Span
  <2>2. n + 1 \in 1..(n + 1) /\ ~(n + 1 <= n) /\ (n + 1) - 1 = n /\ ~(n + 1 < n)
    OBVIOUS
  <2> QED BY <1>1, <1>5, <2>1, <2>2
<1>6. ASSUME NEW k \in 1..n, asks = {log[k].at},
             log[k].status = "awaiting_approval",
             \A i \in 1..(k - 1) : log[i].status # "awaiting_approval"
      PROVE  /\ k > 1 /\ log[k - 1].status \in ActiveStates
             /\ HumanWait = IF k < n THEN Milliseconds(log[k].at, log[k + 1].at) ELSE 0
  <2>1. k # 1
    BY <1>3, <1>6
  <2>2. k > 1 /\ log[k - 1].status \in ActiveStates
    <3>1. k - 1 \in 1..(n - 1) /\ (k - 1) + 1 = k
      BY <2>1
    <3> QED BY <1>2, <1>6, <2>1, <3>1
  \* Who decided does so right after the job asked.
  <2>3. ASSUME NEW j \in 1..n, log[j].status \in {"approved", "rejected"}
        PROVE  j > k /\ log[j - 1].status = "awaiting_approval"
    <3>1. j # 1
      BY <1>3, <2>3
    <3>2. j - 1 \in 1..(n - 1) /\ (j - 1) + 1 = j
      BY <3>1
    <3>3. log[j - 1].status = "awaiting_approval"
      BY <1>2, <2>3, <3>2
    <3>4. j - 1 \notin 1..(k - 1)
      BY <1>6, <3>3
    <3> QED BY <3>2, <3>3, <3>4
  <2>4. CASE k = n
    <3>1. \A j \in 1..n : log[j].status \notin {"approved", "rejected"}
      BY <2>3, <2>4
    <3>2. FirstAt(Events, {"approved"}) = {} /\ FirstAt(Events, {"rejected"}) = {}
      BY <1>1, <3>1, FirstEvent
    <3>3. HumanWait = 0
      BY <1>4, <3>2 DEF Span
    <3> QED BY <2>2, <2>4, <3>3
  <2>5. CASE k < n
    <3>1. k \in 1..(n - 1) /\ k + 1 \in 1..n
      BY <2>5
    <3>2. log[k + 1].status \in {"approved", "rejected"}
      BY <1>2, <1>6, <3>1
    <3>3. log[k].at \in Nat /\ log[k + 1].at \in Nat
      BY <1>1, <3>1, Shown
    <3>4. says = {log[k + 1].at}
      <4>1. CASE log[k + 1].status = "approved"
        <5>1. PICK j \in 1..n :
                /\ FirstAt(Events, {"approved"}) = {log[j].at} /\ log[j].status = "approved"
                /\ \A i \in 1..(j - 1) : log[i].status # "approved"
          <6>1. ~\A i \in 1..n : log[i].status \notin {"approved"}
            BY <3>1, <4>1
          <6> QED BY <1>1, <6>1, FirstEvent
        <5>2. j > k
          BY <2>3, <5>1
        <5>3. k + 1 \notin 1..(j - 1)
          BY <4>1, <5>1
        <5>4. j = k + 1
          BY <3>1, <5>2, <5>3
        <5> QED BY <5>1, <5>4
      <4>2. CASE log[k + 1].status = "rejected"
        \* A rejected job has no further event.
        <5>1. k + 1 = n
          <6>1. k + 1 \notin 1..(n - 1)
            BY <1>2, <4>2 DEF TerminalStates
          <6> QED BY <3>1, <6>1
        <5>2. \A j \in 1..n : log[j].status \in {"approved", "rejected"} => j = n
          BY <2>3, <5>1
        <5>3. FirstAt(Events, {"approved"}) = {}
          <6>1. \A i \in 1..n : log[i].status \notin {"approved"}
            BY <4>2, <5>1, <5>2
          <6> QED BY <1>1, <6>1, FirstEvent
        <5>4. PICK j \in 1..n :
                FirstAt(Events, {"rejected"}) = {log[j].at} /\ log[j].status = "rejected"
          <6>1. ~\A i \in 1..n : log[i].status \notin {"rejected"}
            BY <3>1, <4>2
          <6> QED BY <1>1, <6>1, FirstEvent
        <5> QED BY <5>1, <5>2, <5>3, <5>4
      <4> QED BY <3>2, <4>1, <4>2
    <3>5. Max({log[k].at}) = log[k].at /\ Max({log[k + 1].at}) = log[k + 1].at
      BY <3>3, Single
    <3>6. HumanWait = Milliseconds(log[k].at, log[k + 1].at)
      <4> HIDE DEF asks, says
      <4> QED BY <1>4, <1>6, <3>4, <3>5 DEF Span
    <3> QED BY <2>2, <2>5, <3>6
  <2> QED BY <2>4, <2>5
<1>7. \/ asks = {} /\ \A i \in 1..n : log[i].status # "awaiting_approval"
      \/ \E k \in 1..n :
           /\ asks = {log[k].at} /\ log[k].status = "awaiting_approval"
           /\ \A i \in 1..(k - 1) : log[i].status # "awaiting_approval"
  BY <1>1, FirstEvent
<1>8. ASSUME NEW k \in 1..n, asks = {log[k].at},
             log[k].status = "awaiting_approval",
             \A i \in 1..(k - 1) : log[i].status # "awaiting_approval"
      PROVE  \E m \in 1..(n + 1) :
               /\ \A i \in 1..(m - 1) : log[i].status # "awaiting_approval"
               /\ m <= n => /\ log[m].status = "awaiting_approval"
                            /\ m > 1 /\ log[m - 1].status \in ActiveStates
               /\ HumanWait = IF m < n THEN Milliseconds(log[m].at, log[m + 1].at) ELSE 0
  <2>1. /\ k > 1 /\ log[k - 1].status \in ActiveStates
        /\ HumanWait = IF k < n THEN Milliseconds(log[k].at, log[k + 1].at) ELSE 0
    BY <1>6, <1>8
  <2>2. k \in 1..(n + 1)
    OBVIOUS
  <2> HIDE DEF asks
  <2> QED BY <1>8, <2>1, <2>2
<1> HIDE DEF asks, says
<1> QED BY <1>1, <1>5, <1>7, <1>8

\* What a sum over the first terms is, and that it exists.
LEMMA SumIs ==
  ASSUME NEW n \in Nat, NEW a \in [1..n -> Nat], NEW f,
         f = [k \in 0..n |-> IF k = 0 THEN 0 ELSE f[k - 1] + a[k]]
  PROVE  /\ f[0] = 0
         /\ \A i \in 1..n : f[i] = f[i - 1] + a[i]
         /\ \A i \in 0..n : f[i] \in Nat
<1>1. f[0] = 0
  OBVIOUS
<1>2. \A i \in 1..n : f[i] = f[i - 1] + a[i]
  OBVIOUS
<1> DEFINE T == {i \in 0..n : f[i] \in Nat}
<1>3. 0 \in T
  BY <1>1
<1>4. ASSUME NEW i \in 0..(n - 1), i \in T
      PROVE  i + 1 \in T
  <2>1. i + 1 \in 1..n /\ (i + 1) - 1 = i /\ i + 1 \in 0..n
    OBVIOUS
  <2>2. f[i + 1] = f[i] + a[i + 1] /\ a[i + 1] \in Nat
    BY <1>2, <2>1
  <2> QED BY <1>4, <2>1, <2>2
<1> HIDE DEF T
<1>5. 0..n \subseteq T
  BY <1>3, <1>4, InductionUpTo
<1> QED BY <1>1, <1>2, <1>5 DEF T

\* The time in the stages, and the time run back, event by event.
LEMMA StageTimes ==
  ASSUME Typed, Observed, shown # NotShown
  PROVE  /\ StageTime[0] = 0
         /\ \A i \in 1..shown.events :
              StageTime[i] = StageTime[i - 1]
                + (IF log[i].status \in ActiveStates
                   THEN Milliseconds(log[i].at, Until(i)) ELSE 0)
         /\ \A i \in 0..shown.events : StageTime[i] \in Nat
<1>1. PICK n \in Nat : n = shown.events
  BY Shown
<1> DEFINE Term(i) == IF Events[i].status \in ActiveStates THEN StageTiming(i)
                      ELSE 0
           a == [i \in 1..n |-> Term(i)]
<1>2. ASSUME NEW i \in 1..n
      PROVE  /\ Term(i) = IF log[i].status \in ActiveStates
                          THEN Milliseconds(log[i].at, Until(i)) ELSE 0
             /\ Term(i) \in Nat
  <2>1. Events[i] = log[i] /\ log[i].at \in Int /\ Until(i) \in Int
    BY <1>1, Shown, Ends
  <2>2. StageTiming(i) = Milliseconds(log[i].at, Until(i))
    BY <2>1 DEF StageTiming
  <2>3. Milliseconds(log[i].at, Until(i)) \in Nat
    BY <2>1, Durations
  <2> QED BY <2>1, <2>2, <2>3
<1>3. a \in [1..n -> Nat]
  <2> HIDE DEF Term
  <2> QED BY <1>2
<1>4. Len(Events) = n
  BY <1>1, Shown
<1>5. PICK f \in [0..n -> Nat] :
        f = [k \in 0..n |-> IF k = 0 THEN 0 ELSE f[k - 1] + a[k]]
  <2> HIDE DEF a
  <2> QED BY <1>3, Sums
<1>6. \A k \in 0..n : k # 0 => a[k] = Term(k)
  <2> HIDE DEF Term
  <2> QED OBVIOUS
<1> HIDE DEF a
<1>7. f = [k \in 0..Len(Events) |-> IF k = 0 THEN 0 ELSE f[k - 1] + Term(k)]
  <2> HIDE DEF Term
  <2> QED BY <1>4, <1>5, <1>6
<1>8. StageTime =
        [k \in 0..Len(Events) |-> IF k = 0 THEN 0 ELSE StageTime[k - 1] + Term(k)]
  BY <1>7, Zenon DEF StageTime
<1> HIDE DEF Term
<1>9. StageTime = [k \in 0..n |-> IF k = 0 THEN 0 ELSE StageTime[k - 1] + a[k]]
  BY <1>4, <1>6, <1>8
<1>10. /\ StageTime[0] = 0
       /\ \A i \in 1..n : StageTime[i] = StageTime[i - 1] + a[i]
       /\ \A i \in 0..n : StageTime[i] \in Nat
  BY <1>3, <1>9, SumIs
<1>11. \A i \in 1..n : a[i] = IF log[i].status \in ActiveStates
                              THEN Milliseconds(log[i].at, Until(i)) ELSE 0
  BY <1>2, <1>6
<1> QED BY <1>1, <1>10, <1>11

LEMMA BackwardTimes ==
  ASSUME Typed, Observed, shown # NotShown
  PROVE  /\ Backward[0] = 0
         /\ \A i \in 1..shown.events :
              Backward[i] = Backward[i - 1] + Milliseconds(Until(i), log[i].at)
         /\ \A i \in 0..shown.events : Backward[i] \in Nat
<1>1. PICK n \in Nat : n = shown.events
  BY Shown
<1> DEFINE Term(i) == Milliseconds(Until(i), Events[i].at)
           a == [i \in 1..n |-> Term(i)]
<1>2. ASSUME NEW i \in 1..n
      PROVE  Term(i) = Milliseconds(Until(i), log[i].at) /\ Term(i) \in Nat
  <2>1. Events[i] = log[i] /\ log[i].at \in Int /\ Until(i) \in Int
    BY <1>1, Shown, Ends
  <2>2. Milliseconds(Until(i), log[i].at) \in Nat
    BY <2>1, Durations
  <2> QED BY <2>1, <2>2
<1>3. a \in [1..n -> Nat]
  <2> HIDE DEF Term
  <2> QED BY <1>2
<1>4. Len(Events) = n
  BY <1>1, Shown
<1>5. PICK f \in [0..n -> Nat] :
        f = [k \in 0..n |-> IF k = 0 THEN 0 ELSE f[k - 1] + a[k]]
  <2> HIDE DEF a
  <2> QED BY <1>3, Sums
<1>6. \A k \in 0..n : k # 0 => a[k] = Term(k)
  <2> HIDE DEF Term
  <2> QED OBVIOUS
<1> HIDE DEF a
<1>7. f = [k \in 0..Len(Events) |-> IF k = 0 THEN 0 ELSE f[k - 1] + Term(k)]
  <2> HIDE DEF Term
  <2> QED BY <1>4, <1>5, <1>6
<1>8. Backward =
        [k \in 0..Len(Events) |-> IF k = 0 THEN 0 ELSE Backward[k - 1] + Term(k)]
  BY <1>7, Zenon DEF Backward
<1> HIDE DEF Term
<1>9. Backward = [k \in 0..n |-> IF k = 0 THEN 0 ELSE Backward[k - 1] + a[k]]
  BY <1>4, <1>6, <1>8
<1>10. /\ Backward[0] = 0
       /\ \A i \in 1..n : Backward[i] = Backward[i - 1] + a[i]
       /\ \A i \in 0..n : Backward[i] \in Nat
  BY <1>3, <1>9, SumIs
<1>11. \A i \in 1..n : a[i] = Milliseconds(Until(i), log[i].at)
  BY <1>2, <1>6
<1> QED BY <1>1, <1>10, <1>11

\* Up to the end of every event's interval, the parts fit into the whole but
\* for the time run back.
LEMMA PartsFit ==
  ASSUME Typed, Observed, shown # NotShown
  PROVE  QueueWait + HumanWait + StageTime[shown.events]
           <= EndToEnd + Backward[shown.events]
<1>1. PICK n \in Nat : n = shown.events /\ n > 0
  BY Shown
<1>2. PICK q \in 1..(n + 1) :
        /\ \A i \in 1..(q - 1) : log[i].status \notin ActiveStates
        /\ q <= n => log[q].status \in ActiveStates
        /\ QueueWait = IF q <= n THEN log[q].at ELSE 0
  BY <1>1, QueueWaitIs
<1>3. PICK h \in 1..(n + 1) :
        /\ \A i \in 1..(h - 1) : log[i].status # "awaiting_approval"
        /\ h <= n => /\ log[h].status = "awaiting_approval"
                     /\ h > 1 /\ log[h - 1].status \in ActiveStates
        /\ HumanWait = IF h < n THEN Milliseconds(log[h].at, log[h + 1].at)
                       ELSE 0
  BY <1>1, HumanWaitIs
<1>4. h <= n => q < h /\ q <= n
  <2> SUFFICES ASSUME h <= n PROVE q < h /\ q <= n
    OBVIOUS
  <2>1. h - 1 \notin 1..(q - 1)
    BY <1>2, <1>3
  <2> QED BY <1>3, <2>1
<1> DEFINE Forward(i) == Milliseconds(log[i].at, Until(i))
           Back(i) == Milliseconds(Until(i), log[i].at)
<1>5. \A i \in 1..n :
        /\ Until(i) \in Int /\ log[i].at \in Nat
        /\ Forward(i) \in Nat /\ Back(i) \in Nat
        /\ Until(i) = log[i].at + Forward(i) - Back(i)
        /\ Backward[i] = Backward[i - 1] + Back(i)
        /\ StageTime[i] = StageTime[i - 1]
             + (IF log[i].status \in ActiveStates THEN Forward(i) ELSE 0)
  <2> TAKE i \in 1..n
  <2>1. Until(i) \in Int /\ log[i].at \in Nat /\ log[i].at \in Int
    BY <1>1, Ends, Shown
  <2>2. /\ Forward(i) \in Nat /\ Back(i) \in Nat
        /\ Until(i) = log[i].at + Forward(i) - Back(i)
    BY <2>1, Durations
  <2>3. /\ Backward[i] = Backward[i - 1] + Back(i)
        /\ StageTime[i] = StageTime[i - 1]
             + (IF log[i].status \in ActiveStates THEN Forward(i) ELSE 0)
    BY <1>1, StageTimes, BackwardTimes
  <2> HIDE DEF Forward, Back
  <2> QED BY <2>1, <2>2, <2>3
<1>6. \A i \in 1..n : i < n => i + 1 \in 1..n /\ Until(i) = log[i + 1].at
  BY <1>1, Ends
<1>7. /\ StageTime[0] = 0 /\ \A i \in 0..n : StageTime[i] \in Nat
      /\ Backward[0] = 0 /\ \A i \in 0..n : Backward[i] \in Nat
  BY <1>1, StageTimes, BackwardTimes
<1>12. h < n => HumanWait = Forward(h)
  <2>1. h < n => Until(h) = log[h + 1].at
    BY <1>6
  <2> QED BY <1>3, <2>1
<1> HIDE DEF Forward, Back
<1> DEFINE Queued(k) == IF q <= k /\ q <= n THEN log[q].at ELSE 0
           Asked(k) == IF h <= k /\ h < n THEN Forward(h) ELSE 0
           T == {k \in 0..n :
                   /\ k < q => StageTime[k] = 0
                   /\ k > 0 => Queued(k) + Asked(k) + StageTime[k]
                                 <= Until(k) + Backward[k]}
<1>8. 0 \in T
  BY <1>7
<1>9. ASSUME NEW k \in 0..(n - 1), k \in T
      PROVE  k + 1 \in T
  <2> DEFINE i == k + 1
  <2>1. i \in 1..n /\ i - 1 = k /\ k \in Nat
    BY <1>1
  <2>2. /\ Until(i) \in Int /\ log[i].at \in Nat
        /\ Forward(i) \in Nat /\ Back(i) \in Nat
        /\ Backward[k] \in Nat /\ Backward[i] \in Nat
        /\ Until(i) + Backward[i] = log[i].at + Backward[k] + Forward(i)
        /\ StageTime[i] = StageTime[k]
             + (IF log[i].status \in ActiveStates THEN Forward(i) ELSE 0)
        /\ StageTime[k] \in Nat /\ StageTime[i] \in Nat
    <3>1. /\ Until(i) \in Int /\ log[i].at \in Nat
          /\ Forward(i) \in Nat /\ Back(i) \in Nat
          /\ Until(i) = log[i].at + Forward(i) - Back(i)
          /\ Backward[i] = Backward[k] + Back(i)
          /\ StageTime[i] = StageTime[k]
               + (IF log[i].status \in ActiveStates THEN Forward(i) ELSE 0)
      BY <1>5, <2>1
    <3>2. i \in 0..n /\ k \in 0..n
      BY <2>1
    <3>3. /\ Backward[k] \in Nat /\ Backward[i] \in Nat
          /\ StageTime[k] \in Nat /\ StageTime[i] \in Nat
      BY <1>7, <3>2
    <3> HIDE DEF i
    <3>4. Until(i) + Backward[i] = log[i].at + Backward[k] + Forward(i)
      BY <3>1, <3>3
    <3> QED BY <3>1, <3>3, <3>4
  <2>3. k > 0 => Until(k) = log[i].at
    BY <1>6, <2>1
  <2>4. k < q => StageTime[k] = 0
    BY <1>9
  <2>5. k > 0 => Queued(k) + Asked(k) + StageTime[k] <= log[i].at + Backward[k]
    BY <1>9, <2>3
  <2> HIDE DEF i
  <2>6. CASE i < q
    <3>1. log[i].status \notin ActiveStates /\ k < q
      BY <1>2, <2>1, <2>6
    <3>2. StageTime[i] = 0
      BY <2>2, <2>4, <3>1
    <3>3. Queued(i) = 0 /\ Asked(i) = 0
      BY <1>4, <2>6, <2>1
    <3>4. Queued(i) + Asked(i) + StageTime[i] <= Until(i) + Backward[i]
      <4> HIDE DEF Queued, Asked
      <4> QED BY <2>2, <3>2, <3>3
    <3> QED BY <2>1, <3>2, <3>4 DEF i
  <2>7. CASE i = q
    <3>1. log[i].status \in ActiveStates /\ k < q /\ q <= n
      BY <1>2, <2>1, <2>7
    <3>2. StageTime[i] = Forward(i)
      BY <2>2, <2>4, <3>1
    <3>3. Queued(i) = log[i].at /\ Asked(i) = 0
      BY <1>4, <2>7, <2>1, <3>1
    <3>4. Queued(i) + Asked(i) + StageTime[i] <= Until(i) + Backward[i]
      <4> HIDE DEF Queued, Asked
      <4> QED BY <2>2, <3>2, <3>3
    <3>5. ~(i < q)
      BY <2>1, <2>7
    <3> QED BY <2>1, <3>4, <3>5 DEF i
  <2>8. CASE i > q
    <3>1. k > 0 /\ q <= k /\ q <= n
      BY <2>1, <2>8
    <3>2. Queued(i) = Queued(k) /\ Queued(i) \in Nat
      <4>1. Queued(i) = log[q].at /\ Queued(k) = log[q].at
        BY <2>1, <2>8, <3>1
      <4>2. log[q].at \in Nat
        BY <1>5, <3>1
      <4> QED BY <4>1, <4>2
    <3>3. CASE i = h
      <4>1. log[i].status \notin ActiveStates
        BY <1>3, <2>1, <3>3 DEF ActiveStates
      <4>2. Asked(k) = 0 /\ Asked(i) \in 0..Forward(i)
        BY <2>1, <2>2, <3>3
      <4>3. StageTime[i] = StageTime[k]
        BY <2>2, <4>1
      <4>4. Queued(i) + Asked(i) + StageTime[i] <= Until(i) + Backward[i]
        <5> HIDE DEF Queued, Asked
        <5> QED BY <2>2, <2>5, <3>1, <3>2, <4>2, <4>3
      <4> QED BY <2>1, <2>8, <4>4 DEF i
    <3>4. CASE i # h
      <4>1. Asked(i) = Asked(k) /\ Asked(i) \in Nat
        <5>1. h <= i <=> h <= k
          BY <2>1, <3>4
        <5>2. CASE h <= i /\ h < n
          <6>1. Forward(h) \in Nat
            BY <1>5, <5>2
          <6>2. Asked(i) = Forward(h) /\ Asked(k) = Forward(h)
            BY <5>1, <5>2
          <6> QED BY <6>1, <6>2
        <5>3. CASE ~(h <= i /\ h < n)
          BY <5>1, <5>3
        <5> QED BY <5>2, <5>3
      <4>2. Queued(i) + Asked(i) + StageTime[i] <= Until(i) + Backward[i]
        <5> HIDE DEF Queued, Asked
        <5>1. StageTime[i] <= StageTime[k] + Forward(i)
          BY <2>2
        <5> QED BY <2>2, <2>5, <3>1, <3>2, <4>1, <5>1
      <4> QED BY <2>1, <2>8, <4>2 DEF i
    <3> QED BY <3>3, <3>4
  <2> QED BY <2>1, <2>6, <2>7, <2>8
<1> HIDE DEF T
<1>10. 0..n \subseteq T
  BY <1>8, <1>9, InductionUpTo
<1>11. Queued(n) + Asked(n) + StageTime[n] <= Until(n) + Backward[n]
  <2>1. n \in T
    BY <1>1, <1>10
  <2> QED BY <1>1, <2>1 DEF T
<1>13. Queued(n) = QueueWait /\ Asked(n) = HumanWait
  BY <1>2, <1>3, <1>12
<1>14. Until(n) = ElapsedEnd /\ ElapsedEnd \in Int
  BY <1>1, Ends
<1>15. EndToEnd >= ElapsedEnd /\ EndToEnd \in Nat
  BY <1>14 DEF EndToEnd, Milliseconds
<1>16. /\ QueueWait \in Nat /\ HumanWait \in Nat
       /\ StageTime[n] \in Nat /\ Backward[n] \in Nat
  <2>1. QueueWait \in Nat
    BY <1>2, <1>5
  <2>2. HumanWait \in Nat
    BY <1>3, <1>5, <1>12
  <2> QED BY <1>1, <1>7, <2>1, <2>2
<1> HIDE DEF Queued, Asked
<1> QED BY <1>1, <1>11, <1>13, <1>14, <1>15, <1>16

LEMMA Story == Typed /\ Observed => ObservationAddsUp
<1> SUFFICES ASSUME Typed, Observed, shown # NotShown
             PROVE  /\ \E i \in DOMAIN Events : Events[i].status = shown.status
                    /\ shown.status \in TerminalStates =>
                         /\ Len(Events) = Len(log)
                         /\ shown.completed = Events[Len(Events)].at
                    /\ QueueWait + HumanWait + StageTime[Len(Events)]
                         <= EndToEnd + Backward[Len(Events)]
  BY DEF ObservationAddsUp
<1>1. /\ Len(Events) = shown.events /\ DOMAIN Events = 1..shown.events
      /\ \A i \in 1..shown.events : Events[i] = log[i]
      /\ shown.events \in 1..shown.events
  BY Shown
<1>2. Reported(shown, shown.events)
  BY DEF Observed
<1>3. QueueWait + HumanWait + StageTime[Len(Events)]
        <= EndToEnd + Backward[Len(Events)]
  BY <1>1, PartsFit
<1>4. \E i \in DOMAIN Events : Events[i].status = shown.status
  BY <1>1, <1>2 DEF Reported
<1>5. shown.status \in TerminalStates =>
        /\ Len(Events) = Len(log)
        /\ shown.completed = Events[Len(Events)].at
  BY <1>1, <1>2 DEF Reported
<1> QED BY <1>3, <1>4, <1>5

LEMMA InitObserved == Init => Observed
<1> SUFFICES ASSUME Init PROVE Observed
  OBVIOUS
<1>1. log = <<[status |-> "queued", at |-> 0]>> /\ client.job = NotShown
      /\ shown = NotShown
  BY DEF Init
<1>2. Len(log) = 1 /\ log[1] = [status |-> "queued", at |-> 0] /\ 1..(1 - 1) = {}
  BY <1>1
<1> QED BY <1>1, <1>2 DEF Observed, History

\* For histories of any length, with any retries, transactions of any duration
\* and whatever the API's clock says: a response whose job and events were read
\* apart is one story, and its waits and stages add up to more than the whole
\* time by no more than the times of successive events run backwards.
THEOREM StoryAddsUp == Spec => []ObservationAddsUp
<1>1. IInv /\ Observed => ObservationAddsUp
  BY Story DEF IInv
<1> QED BY <1>1, InitIInv, NextIInv, InitObserved, NextObserved, PTL DEF Spec
=============================================================================
