--------------------------- MODULE ContextPoolProofs ---------------------------
(* Theorems about ContextPool, for every number of contexts, callers, calls,  *)
(* requests and faults.                                                       *)
EXTENDS ContextPool, SequenceLemmas

Alive == lifecycle \in {"running", "stopping"}

(* A context has a number once its creation was answered, and keeps it: the   *)
(* numbers are handed out one by one.                                         *)
HasId == {x \in Context : contextId[x] # 0}
Numbered ==
    /\ \A x \in Context :
          /\ contextId[x] # 0 => contextId[x] < nextId /\ server[x] \in {"up", "stopped", "killed"}
          /\ server[x] \in {"up", "stopped"} => contextId[x] # 0
    /\ \A x, y \in Context : contextId[x] = contextId[y] /\ contextId[x] # 0 => x = y
    /\ nextId = Cardinality(HasId) + 1

(* The pool creates one context at a time, and none once the thread stops.    *)
Starting ==
    /\ creating # None =>
          pool = "up" /\ server[creating] \in {"creating", "killed"} /\ contextId[creating] = 0
    /\ \A x \in Context : server[x] = "creating" => creating = x
    /\ \A x \in created : server[x] # "new"
    /\ lifecycle # "running" => pool # "up"
    /\ Alive \/ stack = << >>

(* The entry i may be that of o: always if o is killed, whose creation may    *)
(* have been given up; otherwise only under o's own number.                   *)
Belongs(o, i) ==
    /\ server[o] = "killed" \/ contextId[o] = i \/ o = creating
    /\ o = creating => i = nextId
    /\ timeouts = 0 =>
          \/ contextId[o] = i
          \/ contextId[o] = 0 /\ i = nextId /\ (pool = "up" => o = creating)

(* A context that is up has its entry, and what is sent for an entry goes to  *)
(* a context that is up.                                                      *)
Owned ==
    /\ \A i \in DOMAIN entries :
          /\ \A o \in Context : entries[i].owner = o => Belongs(o, i)
          /\ entries[i].next \leq calls + 1
    /\ Alive => \A x \in Context : server[x] = "up" => contextId[x] \in DOMAIN entries
    /\ creating # None /\ creating \in created => nextId \in DOMAIN entries
    /\ \A call \in beamCalls : server[call.to] = "up"
    /\ \A call \in tasks : contextId[call.to] # 0

(* A message names the context it was sent for; only what was stopped is      *)
(* destroyed, and only the thread of a pool that ends is stopped.             *)
Addressed(m) ==
    /\ m.type = "create" => Belongs(m.owner, m.id)
    /\ m.type = "destroy" => \E x \in Context : server[x] = "stopped" /\ contextId[x] = m.id
    /\ m.type = "request" => contextId[m.to] = m.id
    /\ m.type = "resolve" => m.id < nextId
    /\ m.type = "stop" => pool # "up"
Queued == \A i \in DOMAIN queue : Addressed(queue[i])

(* A frame is in a context that was created; a frame of a request is in the   *)
(* context of that request.                                                   *)
Placed(f) ==
    /\ f.id \in DOMAIN entries /\ f.id < nextId
    /\ f.at = "js" => f.msg = Continuation \/ f.msg.type = "request"
    /\ f.at = "await" => f.msg.type = "request"
    /\ f.at \in {"js", "await"} /\ f.msg.type = "request" =>
          contextId[f.msg.to] = f.msg.id /\ f.msg.id = f.id
Framed == \A i \in DOMAIN stack : Placed(stack[i])

(* A request is in the queue or on the stack, once; it is there while its     *)
(* caller waits, and when its caller does not, its context has ended.         *)
Of(c, x) == {m \in Message : m.type = "request" /\ m.from = c /\ m.to = x}
Works(c, x) == {f \in Frame : f.at \in {"js", "await"} /\ f.msg \in Of(c, x)}
Kept(c, x) ==
    /\ caller[c] = x => server[x] = "up"
    /\ Alive =>
          /\ Once(queue, Of(c, x)) /\ Once(stack, Works(c, x))
          /\ ~(Has(queue, Of(c, x)) /\ Has(stack, Works(c, x)))
          /\ caller[c] = x => Has(queue, Of(c, x)) \/ Has(stack, Works(c, x))
          /\ Has(queue, Of(c, x)) \/ Has(stack, Works(c, x)) =>
                caller[c] = x \/ server[x] \in {"stopped", "killed"}

Structure == TypeOK /\ Numbered /\ Starting /\ Owned /\ Queued /\ Framed
IInv == Structure /\ \A c \in Caller, x \in Context : Kept(c, x)

-----------------------------------------------------------------------------
(* What is in a message and in a frame. *)
LEMMA Messages ==
    ASSUME NEW m \in Message
    PROVE  /\ m.type \in {"create", "destroy", "request", "resolve", "stop"}
           /\ m.type # "stop" => m.id \in Id
           /\ m.type = "create" => m.owner \in Context
           /\ m.type = "request" => m.from \in Caller /\ m.to \in Context /\ m.kind \in Kind
           /\ m.type = "resolve" => m.call \in CallId
           /\ m # Continuation
BY DEF Message, Stop, Continuation

LEMMA Frames ==
    ASSUME NEW f \in Frame
    PROVE  /\ f.at \in {"js", "await", "parked"} /\ f.id \in Id
           /\ f.at = "js" => f.msg \in Message \cup {Continuation}
           /\ f.at = "await" => f.msg \in Message /\ f.on \in CallId
           /\ f.at = "parked" => f.call \in CallId /\ f.done \in BOOLEAN
BY DEF Frame

LEMMA MadeFrames ==
    ASSUME NEW id \in Id, NEW call \in CallId, NEW m \in Message
    PROVE  /\ Running(id, m) \in Frame /\ Running(id, Continuation) \in Frame
           /\ Parked(id, call) \in Frame
           /\ m.id \in Id => Awaiting(m, call) \in Frame
BY DEF Frame, Running, Parked, Awaiting

(* The queue and the stack, however a step changes them, hold what was in     *)
(* them and what the step put there.                                          *)
LEMMA SeqOfSubset ==
    ASSUME NEW S, NEW T, T \subseteq S, NEW seq \in Seq(S)
    PROVE  seq \in Seq(T) <=> \A i \in DOMAIN seq : seq[i] \in T
<1>1. Len(seq) \in Nat /\ DOMAIN seq = 1..Len(seq)
    BY LenProperties
<1>2. seq = [i \in 1..Len(seq) |-> seq[i]]
    BY <1>1
<1>3. ASSUME \A i \in DOMAIN seq : seq[i] \in T PROVE seq \in Seq(T)
    BY <1>1, <1>2, <1>3, IsASeq
<1>4. ASSUME seq \in Seq(T) PROVE \A i \in DOMAIN seq : seq[i] \in T
    BY <1>1, <1>4, ElementOfSeq
<1> QED BY <1>1, <1>3, <1>4

LEMMA QueueSteps ==
    ASSUME queue \in Seq(Message), Queued,
           \A m \in Message : Addressed(m) => Addressed(m)',
           \/ UNCHANGED queue
           \/ queue # << >> /\ queue' = Tail(queue)
           \/ queue # << >> /\ queue' = Append(Tail(queue), Head(queue))
           \/ \E m \in Message : Addressed(m)' /\ queue' = Append(queue, m)
    PROVE  queue' \in Seq(Message) /\ Queued'
<1> DEFINE Good == {m \in Message : Addressed(m)'}
<1>1. \A i \in DOMAIN queue : queue[i] \in Message /\ Addressed(queue[i])
    BY ElementOfSeq, LenProperties DEF Queued
<1>2. \A i \in DOMAIN queue : queue[i] \in Good
    BY <1>1
<1>3. Good \subseteq Message
    OBVIOUS
<1>4. \A m \in Message : Addressed(m)' => m \in Good
    OBVIOUS
<1>5. queue' \in Seq(Good) => queue' \in Seq(Message) /\ \A i \in DOMAIN queue' : queue'[i] \in Good
  <2> HIDE DEF Good
  <2> SUFFICES ASSUME queue' \in Seq(Good)
               PROVE  queue' \in Seq(Message) /\ \A i \in DOMAIN queue' : queue'[i] \in Good
    OBVIOUS
  <2>1. \A i \in DOMAIN queue' : queue'[i] \in Good
    BY ElementOfSeq, LenProperties
  <2>2. queue' \in Seq(Message)
    BY <1>3, <2>1, LenProperties, IsASeq
  <2> QED BY <2>1, <2>2
<1>6. queue' \in Seq(Good)
  <2> HIDE DEF Good
  <2>1. queue \in Seq(Good)
    BY <1>2, <1>3, SeqOfSubset
  <2>2. queue # << >> => Tail(queue) \in Seq(Good) /\ Head(queue) \in Good
    BY <2>1, Popped
  <2>3. queue # << >> => Append(Tail(queue), Head(queue)) \in Seq(Good)
    BY <2>2, Pushed
  <2>4. \A m \in Good : Append(queue, m) \in Seq(Good)
    BY <2>1, Pushed
  <2> QED BY <1>4, <2>1, <2>2, <2>3, <2>4
<1> QED BY <1>5, <1>6 DEF Queued

LEMMA StackSteps ==
    ASSUME stack \in Seq(Frame), Framed,
           \A f \in Frame : Placed(f) => Placed(f)',
           \/ UNCHANGED stack
           \/ stack # << >> /\ stack' = Outer
           \/ \E f \in Frame : /\ Placed(f)'
                               /\ \/ stack' = << f >>
                                  \/ stack' = Append(stack, f)
                                  \/ stack # << >> /\ stack' = Append(Outer, f)
    PROVE  stack' \in Seq(Frame) /\ Framed'
<1> DEFINE Good == {f \in Frame : Placed(f)'}
<1>1. \A i \in DOMAIN stack : stack[i] \in Frame /\ Placed(stack[i])
    BY ElementOfSeq, LenProperties DEF Framed
<1>2. \A i \in DOMAIN stack : stack[i] \in Good
    BY <1>1
<1>3. Good \subseteq Frame /\ \A f \in Frame : Placed(f)' => f \in Good
    OBVIOUS
<1>4. stack' \in Seq(Good)
  <2>1. stack \in Seq(Good) /\ (stack # << >> => Outer \in Seq(Good))
    <3> HIDE DEF Good
    <3>1. stack \in Seq(Good)
      BY <1>2, <1>3, SeqOfSubset
    <3> QED BY <3>1, Unstacked DEF Outer
  <2>2. CASE UNCHANGED stack
    BY <2>1, <2>2
  <2>3. CASE stack # << >> /\ stack' = Outer
    <3> HIDE DEF Good
    <3> QED BY <2>1, <2>3
  <2>4. ASSUME NEW f \in Frame, Placed(f)',
               \/ stack' = << f >>
               \/ stack' = Append(stack, f)
               \/ stack # << >> /\ stack' = Append(Outer, f)
        PROVE  stack' \in Seq(Good)
    <3>1. f \in Good
      BY <1>3, <2>4
    <3> HIDE DEF Good
    <3>2. CASE stack' = << f >>
      BY <3>1, <3>2
    <3>3. CASE stack' = Append(stack, f)
      BY <2>1, <3>1, <3>3, Pushed
    <3>4. CASE stack # << >> /\ stack' = Append(Outer, f)
      BY <2>1, <3>1, <3>4, Pushed
    <3> QED BY <2>4, <3>2, <3>3, <3>4
  <2> HIDE DEF Good
  <2> QED BY <2>2, <2>3, <2>4
<1>5. stack' \in Seq(Frame) /\ \A i \in DOMAIN stack' : stack'[i] \in Good
  <2> HIDE DEF Good
  <2>1. \A i \in DOMAIN stack' : stack'[i] \in Good
    BY <1>4, ElementOfSeq, LenProperties
  <2>2. stack' \in Seq(Frame)
    BY <1>3, <1>4, <2>1, LenProperties, IsASeq
  <2> QED BY <2>1, <2>2
<1> QED BY <1>5 DEF Framed

(* What the thread is in the middle of. *)
LEMMA Innermosts ==
    ASSUME stack \in Seq(Frame), Framed, NEW at, Innermost(at)
    PROVE  stack # << >> /\ Last(stack) \in Frame /\ Last(stack).at = at /\ Placed(Last(stack))
BY Unstacked DEF Innermost, Framed

LEMMA Received ==
    ASSUME queue \in Seq(Message), Queued, NEW type, Receive(type)
    PROVE  /\ queue # << >> /\ queue' = Tail(queue)
           /\ Head(queue) \in Message /\ Head(queue).type = type /\ Addressed(Head(queue))
BY Popped DEF Receive, Queued

(* The server of an answer is the one its caller waits for, or it is dropped. *)
LEMMA AnswerTyped ==
    ASSUME TypeOK, NEW m
    PROVE  /\ Answered(m) \in [Caller -> Context \cup {None}]
           /\ \A c \in Caller : Answered(m)[c] = IF c = m.from /\ caller[c] = m.to
                                                 THEN None ELSE caller[c]
BY DEF TypeOK, Answered

(* Steps of the thread leave the processes alone. *)
Elsewhere == <<pool, creating, nextId, counts, server, contextId>>

LEMMA ThreadStays ==
    ASSUME UNCHANGED Elsewhere
    PROVE  /\ Numbered => Numbered'
           /\ \A o, i : Belongs(o, i) => Belongs(o, i)'
           /\ \A m : Addressed(m) => Addressed(m)'
           /\ DOMAIN entries \subseteq DOMAIN entries' => \A f : Placed(f) => Placed(f)'
BY DEF Elsewhere, counts, Numbered, HasId, Belongs, Addressed, Placed
-----------------------------------------------------------------------------
LEMMA ConstantFacts == Cardinality(Context) \in Nat /\ MaxCalls \in Nat
BY FS_CardinalityType, PoolAssumption

LEMMA InitStructure == Init => Structure
<1> SUFFICES ASSUME Init PROVE Structure
    OBVIOUS
<1>1. << >> \in Seq(Message) /\ << >> \in Seq(Frame) /\ DOMAIN << >> = {}
    OBVIOUS
<1>2. HasId = {} /\ Cardinality({}) = 0
    BY FS_EmptySet DEF Init, HasId
<1>3. TypeOK
    BY <1>1, ConstantFacts, PoolAssumption DEF Init, TypeOK
<1>4. Numbered /\ Starting
    BY <1>2 DEF Init, Numbered, Starting, Alive
<1>5. Owned /\ Queued /\ Framed
    BY <1>1 DEF Init, Owned, Queued, Framed, Alive
<1> QED BY <1>3, <1>4, <1>5 DEF Structure

(* Creations, destructions, resets and the end: between requests. *)
LEMMA MainCreateStructure == Structure /\ MainCreate => Structure'
<1> SUFFICES ASSUME Structure, MainCreate PROVE Structure'
    OBVIOUS
<1> DEFINE m == Head(queue)
<1>1. UNCHANGED Elsewhere /\ UNCHANGED <<caller, beamCalls, tasks, stack, calls, lifecycle>>
    BY DEF MainCreate, Elsewhere, counts
<1>2. /\ Numbered'
      /\ \A o, i : Belongs(o, i) => Belongs(o, i)'
      /\ \A msg : Addressed(msg) => Addressed(msg)'
    BY <1>1, ThreadStays DEF Structure
<1>3. /\ queue # << >> /\ queue' = Tail(queue)
      /\ m \in Message /\ m.type = "create" /\ Addressed(m)
    BY Received DEF MainCreate, Structure, TypeOK
<1>4. m.id \in Id /\ m.owner \in Context /\ Belongs(m.owner, m.id)
    BY <1>3, Messages DEF Addressed
<1>5. queue' \in Seq(Message) /\ Queued'
    BY <1>2, <1>3, QueueSteps DEF Structure, TypeOK
<1>6. stack = << >> /\ stack' = << >> /\ Alive /\ Alive'
    BY <1>1 DEF MainCreate, MainLoop, Alive
<1> HIDE DEF m
<1>7. /\ entries' = [i \in DOMAIN entries \cup {m.id} |->
                        IF i = m.id THEN Entry(m.owner) ELSE entries[i]]
      /\ created' = IF pool = "gone" THEN created ELSE created \cup {m.owner}
    BY DEF MainCreate, m
<1>8. TypeOK'
    BY <1>1, <1>4, <1>5, <1>6, <1>7, ConstantFacts
    DEF Structure, TypeOK, Entry, Elsewhere, counts
<1>9. server[m.owner] # "new"
  <2>1. m.id # 0 /\ m.owner # None
    BY <1>4, ConstantFacts, PoolAssumption DEF Id
  <2>2. server[m.owner] = "killed" \/ contextId[m.owner] = m.id \/ m.owner = creating
    BY <1>4 DEF Belongs
  <2>3. contextId[m.owner] # 0 => server[m.owner] \in {"up", "stopped", "killed"}
    BY <1>4 DEF Structure, Numbered
  <2>4. creating # None => server[creating] \in {"creating", "killed"}
    BY DEF Structure, Starting
  <2> QED BY <2>1, <2>2, <2>3, <2>4
<1>10. Starting'
    BY <1>1, <1>4, <1>6, <1>7, <1>9 DEF Structure, Starting, Elsewhere, Alive
<1>11. Owned'
  <2>1. \A i \in DOMAIN entries' :
           /\ \A o \in Context : entries'[i].owner = o => Belongs(o, i)
           /\ entries'[i].next \leq calls' + 1
    BY <1>1, <1>4, <1>7 DEF Structure, Owned, TypeOK, Entry
  <2>2. \A i \in DOMAIN entries' : \A o \in Context : entries'[i].owner = o => Belongs(o, i)'
    BY <1>2, <2>1
  <2>3. creating' # None /\ creating' \in created' => nextId' \in DOMAIN entries'
    BY <1>1, <1>4, <1>7 DEF Structure, Owned, Belongs, Elsewhere
  <2> QED BY <1>1, <1>6, <1>7, <2>1, <2>2, <2>3 DEF Structure, Owned, Elsewhere, Alive
<1>12. Framed'
    BY <1>6 DEF Framed
<1> QED BY <1>2, <1>5, <1>8, <1>10, <1>11, <1>12 DEF Structure

LEMMA MainDestroyStructure == Structure /\ MainDestroy => Structure'
<1> SUFFICES ASSUME Structure, MainDestroy PROVE Structure'
    OBVIOUS
<1> DEFINE m == Head(queue)
<1>1. /\ UNCHANGED Elsewhere
      /\ UNCHANGED <<created, caller, beamCalls, tasks, stack, calls, lifecycle>>
    BY DEF MainDestroy, elixir, Elsewhere, counts
<1>2. /\ Numbered'
      /\ \A o, i : Belongs(o, i) => Belongs(o, i)'
      /\ \A msg : Addressed(msg) => Addressed(msg)'
    BY <1>1, ThreadStays DEF Structure
<1>3. /\ queue # << >> /\ queue' = Tail(queue)
      /\ m \in Message /\ m.type = "destroy" /\ Addressed(m)
    BY Received DEF MainDestroy, Structure, TypeOK
<1>4. PICK x \in Context : server[x] = "stopped" /\ contextId[x] = m.id
    BY <1>3 DEF Addressed
<1>5. queue' \in Seq(Message) /\ Queued'
    BY <1>2, <1>3, QueueSteps DEF Structure, TypeOK
<1>6. stack = << >> /\ stack' = << >>
    BY <1>1 DEF MainDestroy, MainLoop
<1> HIDE DEF m
<1>7. entries' = [i \in DOMAIN entries \ {m.id} |-> entries[i]]
    BY DEF MainDestroy, Destroyed, m
<1>8. TypeOK'
    BY <1>1, <1>5, <1>6, <1>7 DEF Structure, TypeOK, Elsewhere, counts
<1>9. Starting'
    BY <1>1 DEF Structure, Starting, Elsewhere, Alive
<1>10. Owned'
  <2>1. \A i \in DOMAIN entries' :
           /\ \A o \in Context : entries'[i].owner = o => Belongs(o, i)
           /\ entries'[i].next \leq calls' + 1
    BY <1>1, <1>7 DEF Structure, Owned
  <2>2. \A i \in DOMAIN entries' : \A o \in Context : entries'[i].owner = o => Belongs(o, i)'
    BY <1>2, <2>1
  <2>3. m.id < nextId /\ m.id # 0
    BY <1>4 DEF Structure, Numbered
  <2>4. \A y \in Context : server[y] = "up" => contextId[y] # m.id
    BY <1>4, <2>3 DEF Structure, Numbered
  <2>5. nextId # m.id
    BY <2>3 DEF Structure, TypeOK
  <2> QED BY <1>1, <1>7, <2>1, <2>2, <2>4, <2>5 DEF Structure, Owned, Elsewhere, Alive
<1>11. Framed'
    BY <1>6 DEF Framed
<1> QED BY <1>2, <1>5, <1>8, <1>9, <1>10, <1>11 DEF Structure

LEMMA MainResetStructure == Structure /\ MainReset => Structure'
<1> SUFFICES ASSUME Structure, MainReset PROVE Structure'
    OBVIOUS
<1> DEFINE m == Head(queue)
<1>1. /\ UNCHANGED Elsewhere
      /\ UNCHANGED <<created, beamCalls, tasks, stack, calls, lifecycle>>
    BY DEF MainReset, elixir, Elsewhere, counts
<1>2. /\ Numbered'
      /\ \A o, i : Belongs(o, i) => Belongs(o, i)'
      /\ \A msg : Addressed(msg) => Addressed(msg)'
    BY <1>1, ThreadStays DEF Structure
<1>3. queue # << >> /\ queue' = Tail(queue)
    BY Received DEF MainReset, Structure, TypeOK
<1>4. queue' \in Seq(Message) /\ Queued'
    BY <1>2, <1>3, QueueSteps DEF Structure, TypeOK
<1>5. stack = << >> /\ stack' = << >>
    BY <1>1 DEF MainReset, MainLoop
<1>6. caller' \in [Caller -> Context \cup {None}]
    BY AnswerTyped DEF MainReset, Answer, Structure
<1> HIDE DEF m
<1>7. entries' = [i \in DOMAIN entries |-> IF i = m.id THEN [entries[i] EXCEPT !.pending = {}]
                                           ELSE entries[i]]
    BY DEF MainReset, m
<1>8. TypeOK'
  <2>1. DOMAIN entries' = DOMAIN entries
    BY <1>7
  <2>2. \A i \in DOMAIN entries' : entries'[i]
            \in [owner : Context, pending : SUBSET CallId, next : 1..(MaxCalls + 1)]
    <3>1. \A i \in DOMAIN entries : entries[i]
              \in [owner : Context, pending : SUBSET CallId, next : 1..(MaxCalls + 1)]
      BY DEF Structure, TypeOK
    <3> QED BY <1>7, <3>1
  <2> QED BY <1>1, <1>4, <1>5, <1>6, <2>1, <2>2 DEF Structure, TypeOK, Elsewhere, counts
<1>9. Starting'
    BY <1>1 DEF Structure, Starting, Elsewhere, Alive
<1>10. Owned'
  <2>1. \A i \in DOMAIN entries' :
           /\ \A o \in Context : entries'[i].owner = o => Belongs(o, i)
           /\ entries'[i].next \leq calls' + 1
    BY <1>1, <1>7 DEF Structure, Owned, TypeOK
  <2>2. \A i \in DOMAIN entries' : \A o \in Context : entries'[i].owner = o => Belongs(o, i)'
    BY <1>2, <2>1
  <2> QED BY <1>1, <1>7, <2>1, <2>2 DEF Structure, Owned, Elsewhere, Alive
<1>11. Framed'
    BY <1>5 DEF Framed
<1> QED BY <1>2, <1>4, <1>8, <1>9, <1>10, <1>11 DEF Structure

LEMMA MainStopStructure == Structure /\ MainStop => Structure'
<1> SUFFICES ASSUME Structure, MainStop PROVE Structure'
    OBVIOUS
<1>1. /\ UNCHANGED Elsewhere
      /\ UNCHANGED <<created, caller, beamCalls, tasks, stack, calls>>
      /\ lifecycle' = "stopped" /\ entries' = << >> /\ stack = << >>
    BY DEF MainStop, MainLoop, elixir, Elsewhere, counts
<1>2. /\ Numbered'
      /\ \A msg : Addressed(msg) => Addressed(msg)'
    BY <1>1, ThreadStays DEF Structure
<1>3. queue # << >> /\ queue' = Tail(queue) /\ pool # "up"
    BY Received DEF MainStop, Structure, TypeOK, Addressed
<1>4. queue' \in Seq(Message) /\ Queued'
    BY <1>2, <1>3, QueueSteps DEF Structure, TypeOK
<1>5. DOMAIN entries' = {} /\ ~Alive'
    BY <1>1 DEF Alive
<1>6. creating = None
    BY <1>3 DEF Structure, Starting
<1>7. TypeOK'
    BY <1>1, <1>4, <1>5 DEF Structure, TypeOK, Elsewhere, counts
<1>8. Starting'
    BY <1>1, <1>3, <1>6 DEF Structure, Starting, Elsewhere
<1>9. Owned'
    BY <1>1, <1>5, <1>6 DEF Structure, Owned, Elsewhere
<1>10. Framed'
    BY <1>1 DEF Framed
<1> QED BY <1>2, <1>4, <1>7, <1>8, <1>9, <1>10 DEF Structure

(* The steps that leave the contexts' entries alone. *)
LEMMA SameEntriesStructure ==
    ASSUME Structure, UNCHANGED <<elixir, beamCalls, tasks, entries, calls, lifecycle>>,
           Alive, caller' \in [Caller -> Context \cup {None}],
           \/ UNCHANGED queue
           \/ queue # << >> /\ queue' = Tail(queue)
           \/ queue # << >> /\ queue' = Append(Tail(queue), Head(queue)),
           \/ UNCHANGED stack
           \/ stack # << >> /\ stack' = Outer
           \/ \E f \in Frame : /\ Placed(f)
                               /\ \/ stack' = << f >>
                                  \/ stack' = Append(stack, f)
                                  \/ stack # << >> /\ stack' = Append(Outer, f)
    PROVE  Structure'
<1>1. UNCHANGED Elsewhere /\ UNCHANGED created
    BY DEF elixir, Elsewhere, counts
<1>2. /\ Numbered'
      /\ \A o, i : Belongs(o, i) => Belongs(o, i)'
      /\ \A m : Addressed(m) => Addressed(m)'
      /\ \A f : Placed(f) => Placed(f)'
    BY <1>1, ThreadStays DEF Structure
<1>3. queue' \in Seq(Message) /\ Queued'
    BY <1>2, QueueSteps DEF Structure, TypeOK
<1>4. stack' \in Seq(Frame) /\ Framed'
  <2>1. \/ UNCHANGED stack
        \/ stack # << >> /\ stack' = Outer
        \/ \E f \in Frame : /\ Placed(f)'
                            /\ \/ stack' = << f >>
                               \/ stack' = Append(stack, f)
                               \/ stack # << >> /\ stack' = Append(Outer, f)
    BY <1>2
  <2> QED BY <1>2, <2>1, StackSteps DEF Structure, TypeOK
<1>5. TypeOK'
    BY <1>1, <1>3, <1>4 DEF Structure, TypeOK, Elsewhere, counts
<1>6. Starting'
    BY <1>1 DEF Structure, Starting, Elsewhere, Alive
<1>7. Owned'
    BY <1>1, <1>2 DEF Structure, Owned, Elsewhere, Alive
<1> QED BY <1>2, <1>3, <1>4, <1>5, <1>6, <1>7 DEF Structure

(* The thread is in the middle of something only while it lives. *)
LEMMA BusyAlive ==
    ASSUME Structure, stack # << >> \/ MainLoop
    PROVE  Alive
BY DEF Structure, Starting, MainLoop, Alive

LEMMA MainEvalStructure == Structure /\ MainEval => Structure'
<1> SUFFICES ASSUME Structure, MainEval PROVE Structure'
    OBVIOUS
<1> DEFINE m == Head(queue)
<1>1. UNCHANGED <<elixir, beamCalls, tasks, entries, calls, lifecycle>>
    BY DEF MainEval
<1>2. Alive
    BY BusyAlive DEF MainEval
<1>3. /\ queue # << >> /\ queue' = Tail(queue)
      /\ m \in Message /\ m.type = "request" /\ Addressed(m)
    BY Received DEF MainEval, Structure, TypeOK
<1>4. m.id \in Id /\ m.to \in Context /\ contextId[m.to] = m.id /\ m.id < nextId
    BY <1>3, Messages DEF Addressed, Structure, Numbered, Id
<1>5. CASE m.id \in DOMAIN entries /\ stack' = << Running(m.id, m) >> /\ UNCHANGED caller
  <2>1. Running(m.id, m) \in Frame
    BY <1>3, <1>4 DEF Frame, Running
  <2>2. Placed(Running(m.id, m))
    BY <1>3, <1>4, <1>5 DEF Placed, Running
  <2>3. caller' \in [Caller -> Context \cup {None}]
    BY <1>5 DEF Structure, TypeOK
  <2> QED BY <1>1, <1>2, <1>3, <1>5, <2>1, <2>2, <2>3, SameEntriesStructure
<1>6. CASE UNCHANGED stack /\ Answer(m)
  <2>1. caller' \in [Caller -> Context \cup {None}]
    BY <1>6, AnswerTyped DEF Answer, Structure
  <2> QED BY <1>1, <1>2, <1>3, <1>6, <2>1, SameEntriesStructure
<1> QED BY <1>5, <1>6 DEF MainEval

LEMMA GlobalStructure == Structure /\ (MainGlobal \/ DrainGlobal) => Structure'
<1> SUFFICES ASSUME Structure, MainGlobal \/ DrainGlobal PROVE Structure'
    OBVIOUS
<1>1. UNCHANGED <<elixir, beamCalls, tasks, entries, calls, lifecycle, stack>>
    BY DEF MainGlobal, DrainGlobal, thread
<1>2. Alive
    BY BusyAlive DEF MainGlobal, DrainGlobal, Pumping, Innermost
<1>3. queue # << >> /\ queue' = Tail(queue)
    BY DEF MainGlobal, DrainGlobal, Receive
<1>4. caller' \in [Caller -> Context \cup {None}]
    BY AnswerTyped DEF MainGlobal, DrainGlobal, GetGlobal, Structure, TypeOK
<1> QED BY <1>1, <1>2, <1>3, <1>4, SameEntriesStructure

LEMMA RequeueStructure == Structure /\ Requeue => Structure'
<1> SUFFICES ASSUME Structure, Requeue PROVE Structure'
    OBVIOUS
<1>1. UNCHANGED <<elixir, beamCalls, tasks, entries, calls, lifecycle, stack, caller>>
    BY DEF Requeue, thread
<1>2. Alive
    BY BusyAlive DEF Requeue, Pumping, Innermost
<1>3. queue # << >> /\ queue' = Append(Tail(queue), Head(queue))
    BY DEF Requeue
<1>4. caller' \in [Caller -> Context \cup {None}]
    BY <1>1 DEF Structure, TypeOK
<1> QED BY <1>1, <1>2, <1>3, <1>4, SameEntriesStructure

(* The frames that end, with or without an answer. *)
LEMMA ReturnStructure ==
    Structure /\ (CallSyncReturn \/ ScriptReturns \/ AwaitEnds) => Structure'
<1> SUFFICES ASSUME Structure, CallSyncReturn \/ ScriptReturns \/ AwaitEnds PROVE Structure'
    OBVIOUS
<1>1. UNCHANGED <<elixir, beamCalls, tasks, entries, calls, lifecycle, queue>>
    BY DEF CallSyncReturn, ScriptReturns, AwaitEnds
<1>2. stack # << >> /\ stack' = Outer
    BY DEF CallSyncReturn, ScriptReturns, AwaitEnds, Innermost
<1>3. Alive
    BY <1>2, BusyAlive
<1>4. caller' \in [Caller -> Context \cup {None}]
    BY AnswerTyped DEF CallSyncReturn, ScriptReturns, AwaitEnds, Complete, Answer, Structure, TypeOK
<1> QED BY <1>1, <1>2, <1>3, <1>4, SameEntriesStructure

LEMMA ScriptAwaitsStructure == Structure /\ ScriptAwaits => Structure'
<1> SUFFICES ASSUME Structure, ScriptAwaits PROVE Structure'
    OBVIOUS
<1> DEFINE f == Last(stack)
<1>1. UNCHANGED <<elixir, beamCalls, tasks, entries, calls, lifecycle, queue, caller>>
    BY DEF ScriptAwaits
<1>2. stack # << >> /\ f \in Frame /\ f.at = "js" /\ Placed(f) /\ f.msg # Continuation
    BY Innermosts DEF ScriptAwaits, Structure, TypeOK
<1>3. Alive
    BY <1>2, BusyAlive
<1>4. PICK call \in entries[f.id].pending : stack' = Append(Outer, Awaiting(f.msg, call))
    BY DEF ScriptAwaits
<1>5. call \in CallId /\ f.msg \in Message /\ f.msg.type = "request" /\ f.msg.id = f.id
    BY <1>2, <1>4, Frames DEF Placed, Structure, TypeOK
<1>6. Awaiting(f.msg, call) \in Frame
    BY <1>2, <1>5, Frames, MadeFrames
<1>7. Placed(Awaiting(f.msg, call))
    BY <1>2, <1>5 DEF Placed, Awaiting
<1>8. caller' \in [Caller -> Context \cup {None}]
    BY <1>1 DEF Structure, TypeOK
<1> HIDE DEF f
<1> QED BY <1>1, <1>2, <1>3, <1>4, <1>6, <1>7, <1>8, SameEntriesStructure

(* A promise is resolved: its continuations run on top of what waits. *)
LEMMA ResolveStructure == Structure /\ (MainResolve \/ DrainResolve) => Structure'
<1> SUFFICES ASSUME Structure, MainResolve \/ DrainResolve PROVE Structure'
    OBVIOUS
<1> DEFINE m == Head(queue)
<1>1. UNCHANGED <<elixir, beamCalls, tasks, calls, lifecycle, caller>>
    BY DEF MainResolve, DrainResolve
<1>2. UNCHANGED Elsewhere /\ UNCHANGED created
    BY <1>1 DEF elixir, Elsewhere, counts
<1>3. /\ queue # << >> /\ queue' = Tail(queue)
      /\ m \in Message /\ m.type = "resolve" /\ Addressed(m) /\ ResolvePending(m)
    BY Received DEF MainResolve, DrainResolve, Structure, TypeOK
<1>4. m.id \in Id /\ m.id < nextId /\ m.call \in CallId
    BY <1>3, Messages DEF Addressed
<1>5. Alive
    BY BusyAlive DEF MainResolve, DrainResolve, Pumping, Innermost
<1> HIDE DEF m
<1>6. CASE ~IsPending(m) /\ UNCHANGED <<entries, stack>>
  <2>1. caller' \in [Caller -> Context \cup {None}]
    BY <1>1 DEF Structure, TypeOK
  <2> QED BY <1>1, <1>3, <1>5, <1>6, <2>1, SameEntriesStructure
<1>7. CASE /\ IsPending(m)
           /\ entries' = [entries EXCEPT ![m.id].pending = @ \ {m.call}]
           /\ stack' = Append(stack, Running(m.id, Continuation))
  <2>1. /\ DOMAIN entries' = DOMAIN entries
        /\ \A i \in DOMAIN entries :
              /\ entries'[i].owner = entries[i].owner /\ entries'[i].next = entries[i].next
              /\ entries'[i] \in [owner : Context, pending : SUBSET CallId,
                                  next : 1..(MaxCalls + 1)]
    <3>1. \A i \in DOMAIN entries : entries[i]
              \in [owner : Context, pending : SUBSET CallId, next : 1..(MaxCalls + 1)]
      BY DEF Structure, TypeOK
    <3> QED BY <1>7, <3>1
  <2>2. /\ Numbered'
        /\ \A o, i : Belongs(o, i) => Belongs(o, i)'
        /\ \A msg : Addressed(msg) => Addressed(msg)'
        /\ \A f : Placed(f) => Placed(f)'
    BY <1>2, <2>1, ThreadStays DEF Structure
  <2>3. queue' \in Seq(Message) /\ Queued'
    BY <1>3, <2>2, QueueSteps DEF Structure, TypeOK
  <2>4. stack' \in Seq(Frame) /\ Framed'
    <3>1. Running(m.id, Continuation) \in Frame
      BY <1>4 DEF Frame, Running
    <3>2. Placed(Running(m.id, Continuation))
      BY <1>4, <1>7 DEF Placed, Running, IsPending, Continuation
    <3>3. \E f \in Frame : Placed(f) /\ stack' = Append(stack, f)
      BY <1>7, <3>1, <3>2
    <3>4. \E f \in Frame : Placed(f)' /\ stack' = Append(stack, f)
      BY <2>2, <3>3
    <3> QED BY <2>2, <3>4, StackSteps DEF Structure, TypeOK
  <2>5. TypeOK'
    BY <1>1, <1>2, <2>1, <2>3, <2>4 DEF Structure, TypeOK, Elsewhere, counts
  <2>6. Starting'
    BY <1>1, <1>2, <1>5 DEF Structure, Starting, Elsewhere, Alive
  <2>7. Owned'
    BY <1>1, <1>2, <2>1, <2>2 DEF Structure, Owned, Elsewhere, Alive
  <2> QED BY <2>2, <2>3, <2>4, <2>5, <2>6, <2>7 DEF Structure
<1> QED BY <1>3, <1>6, <1>7 DEF ResolvePending

(* A call goes to the owner of the entry, which is up if it is there at all. *)
LEMMA SendsTo ==
    ASSUME Structure, NEW id \in DOMAIN entries, id < nextId, Sends(id)
    PROVE  /\ calls' = calls + 1 /\ calls < MaxCalls /\ entries[id].next \in CallId
           /\ beamCalls' \subseteq BeamCallMsg
           /\ \A call \in beamCalls' : server[call.to] = "up"
<1>1. calls' = calls + 1 /\ calls < MaxCalls
    BY DEF Sends
<1>2. entries[id].next \in CallId
    BY <1>1, ConstantFacts DEF Structure, TypeOK, Owned, CallId
<1>3. entries[id].owner \in Context
    BY DEF Structure, TypeOK
<1>4. ASSUME server[entries[id].owner] \notin {"stopped", "killed"}
      PROVE  server[entries[id].owner] = "up"
  <2>1. Belongs(entries[id].owner, id) /\ id # 0
    BY <1>3, ConstantFacts DEF Structure, TypeOK, Owned, Id
  <2>2. contextId[entries[id].owner] = id
    BY <1>4, <2>1 DEF Structure, TypeOK, Belongs
  <2> QED BY <1>3, <1>4, <2>1, <2>2 DEF Structure, Numbered
<1> QED BY <1>1, <1>2, <1>3, <1>4 DEF Sends, Structure, TypeOK, Owned, BeamCallMsg

LEMMA CallStructure == Structure /\ (BeamCall \/ CallSync) => Structure'
<1> SUFFICES ASSUME Structure, BeamCall \/ CallSync PROVE Structure'
    OBVIOUS
<1> DEFINE id == Last(stack).id
<1>1. UNCHANGED <<elixir, caller, tasks, queue, lifecycle>>
    BY DEF BeamCall, CallSync
<1>2. UNCHANGED Elsewhere /\ UNCHANGED created
    BY <1>1 DEF elixir, Elsewhere, counts
<1>3. stack # << >> /\ Last(stack) \in Frame /\ Placed(Last(stack))
    BY Innermosts DEF BeamCall, CallSync, Structure, TypeOK
<1>4. id \in DOMAIN entries /\ id < nextId /\ id \in Id
    BY <1>3, Frames DEF Placed
<1>5. Alive
    BY <1>3, BusyAlive
<1>6. Sends(id) /\ (\/ /\ entries' = [entries EXCEPT ![id].pending = @ \cup {entries[id].next},
                                                    ![id].next = @ + 1]
                       /\ UNCHANGED stack
                    \/ /\ entries' = [entries EXCEPT ![id].next = @ + 1]
                       /\ stack' = Append(stack, Parked(id, entries[id].next)))
    BY DEF BeamCall, CallSync
<1> HIDE DEF id
<1>7. /\ calls' = calls + 1 /\ calls < MaxCalls /\ entries[id].next \in CallId
      /\ beamCalls' \subseteq BeamCallMsg
      /\ \A call \in beamCalls' : server[call.to] = "up"
    BY <1>4, <1>6, SendsTo
<1>8. /\ DOMAIN entries' = DOMAIN entries
      /\ \A i \in DOMAIN entries :
            /\ entries'[i].owner = entries[i].owner /\ entries'[i].next \leq calls' + 1
            /\ entries'[i] \in [owner : Context, pending : SUBSET CallId, next : 1..(MaxCalls + 1)]
  <2>1. \A i \in DOMAIN entries :
           /\ entries[i].next \leq calls + 1
           /\ entries[i] \in [owner : Context, pending : SUBSET CallId, next : 1..(MaxCalls + 1)]
    BY DEF Structure, Owned, TypeOK
  <2>2. calls \in Nat
    BY DEF Structure, TypeOK
  <2>3. /\ entries[id].next \in Nat /\ entries[id].next + 1 \in 1..(MaxCalls + 1)
        /\ entries[id].next + 1 \leq calls' + 1
    BY <1>4, <1>7, <2>1, <2>2, ConstantFacts DEF CallId
  <2>4. \A i \in DOMAIN entries : i # id =>
           entries'[i] = entries[i] /\ entries[i].next \leq calls' + 1
    <3>1. \A i \in DOMAIN entries : entries[i].next \in Nat
      BY <2>1
    <3> QED BY <1>6, <1>7, <2>1, <2>2, <3>1
  <2>5. /\ entries'[id].owner = entries[id].owner
        /\ entries'[id].next = entries[id].next + 1
        /\ entries'[id] \in [owner : Context, pending : SUBSET CallId, next : 1..(MaxCalls + 1)]
    <3> DEFINE next == entries[id].next
               more == next + 1
    <3>1. \/ entries'[id] = [entries[id] EXCEPT !.pending = @ \cup {next}, !.next = more]
          \/ entries'[id] = [entries[id] EXCEPT !.next = more]
      BY <1>4, <1>6
    <3>2. next \in CallId /\ more \in 1..(MaxCalls + 1)
      BY <1>7, <2>3
    <3>3. entries[id] \in [owner : Context, pending : SUBSET CallId, next : 1..(MaxCalls + 1)]
      BY <1>4, <2>1
    <3>4. more = entries[id].next + 1
      OBVIOUS
    <3> HIDE DEF next, more
    <3>5. entries[id].pending \cup {next} \in SUBSET CallId
      BY <3>2, <3>3
    <3>6. entries'[id].next = more /\ entries'[id].owner = entries[id].owner
      BY <3>1, <3>3
    <3>7. entries'[id] \in [owner : Context, pending : SUBSET CallId, next : 1..(MaxCalls + 1)]
      BY <3>1, <3>2, <3>3, <3>5
    <3> QED BY <3>4, <3>6, <3>7
  <2>6. DOMAIN entries' = DOMAIN entries
    BY <1>6
  <2> QED BY <2>1, <2>3, <2>4, <2>5, <2>6
<1>9. /\ Numbered'
      /\ \A o, i : Belongs(o, i) => Belongs(o, i)'
      /\ \A msg : Addressed(msg) => Addressed(msg)'
      /\ \A f : Placed(f) => Placed(f)'
    BY <1>2, <1>8, ThreadStays DEF Structure
<1>10. queue' \in Seq(Message) /\ Queued'
    BY <1>1, <1>9, QueueSteps DEF Structure, TypeOK
<1>11. stack' \in Seq(Frame) /\ Framed'
  <2>1. CASE UNCHANGED stack
    BY <1>9, <2>1, StackSteps DEF Structure, TypeOK
  <2>2. CASE stack' = Append(stack, Parked(id, entries[id].next))
    <3> DEFINE f == Parked(id, entries[id].next)
    <3>1. f \in Frame /\ Placed(f)
      BY <1>4, <1>7 DEF Frame, Parked, Placed
    <3> HIDE DEF f
    <3>2. \E g \in Frame : Placed(g) /\ stack' = Append(stack, g)
      BY <2>2, <3>1 DEF f
    <3>3. \E g \in Frame : Placed(g)' /\ stack' = Append(stack, g)
      BY <1>9, <3>2
    <3> QED BY <1>9, <3>3, StackSteps DEF Structure, TypeOK
  <2> QED BY <1>6, <2>1, <2>2
<1>12. TypeOK'
  <2>1. calls' \in 0..MaxCalls
    <3>1. calls \in 0..MaxCalls
      BY DEF Structure, TypeOK
    <3> QED BY <1>7, <3>1, ConstantFacts
  <2>2. /\ DOMAIN entries' \subseteq Id
        /\ \A i \in DOMAIN entries' :
              entries'[i] \in [owner : Context, pending : SUBSET CallId, next : 1..(MaxCalls + 1)]
    BY <1>8 DEF Structure, TypeOK
  <2> QED BY <1>1, <1>2, <1>7, <1>10, <1>11, <2>1, <2>2 DEF Structure, TypeOK, Elsewhere, counts
<1>13. Starting'
    BY <1>1, <1>2, <1>5 DEF Structure, Starting, Elsewhere, Alive
<1>14. Owned'
    BY <1>1, <1>2, <1>7, <1>8, <1>9 DEF Structure, Owned, Elsewhere, Alive
<1> QED BY <1>9, <1>10, <1>11, <1>12, <1>13, <1>14 DEF Structure

(* The answer of a handler goes to the frame that is parked on it, or becomes *)
(* a message; nothing else on the stack changes.                              *)
Answers(call) == UNCHANGED <<queue, stack>> \/ ResolveCall(call)

LEMMA AnswersFrames ==
    ASSUME stack \in Seq(Frame), NEW call, Answers(call)
    PROVE  /\ stack' \in Seq(Frame) /\ DOMAIN stack' = DOMAIN stack
           /\ \A i \in DOMAIN stack :
                 /\ stack[i] \in Frame /\ stack'[i] \in Frame
                 /\ stack'[i].at = stack[i].at /\ stack'[i].id = stack[i].id
                 /\ stack[i].at # "parked" => stack'[i] = stack[i]
<1>1. \A i \in DOMAIN stack : stack[i] \in Frame
    BY ElementOfSeq, LenProperties
<1>2. CASE UNCHANGED stack
    BY <1>1, <1>2
<1>3. CASE stack' = [i \in DOMAIN stack |-> IF IsSlotOf(stack[i], call)
                                            THEN [stack[i] EXCEPT !.done = TRUE]
                                            ELSE stack[i]]
  <2>1. \A f \in Frame : f.at = "parked" =>
           /\ [f EXCEPT !.done = TRUE] \in Frame
           /\ [f EXCEPT !.done = TRUE].at = f.at /\ [f EXCEPT !.done = TRUE].id = f.id
    BY DEF Frame
  <2>2. /\ DOMAIN stack' = DOMAIN stack
        /\ \A i \in DOMAIN stack :
              /\ stack'[i] \in Frame
              /\ stack'[i].at = stack[i].at /\ stack'[i].id = stack[i].id
              /\ stack[i].at # "parked" => stack'[i] = stack[i]
    BY <1>1, <1>3, <2>1 DEF IsSlotOf
  <2>3. DOMAIN stack = 1..Len(stack) /\ Len(stack) \in Nat
    BY LenProperties
  <2>4. stack' \in Seq(Frame)
    BY <1>3, <2>2, <2>3, IsASeq
  <2> QED BY <1>1, <2>2, <2>4
<1> QED BY <1>2, <1>3 DEF Answers, ResolveCall

LEMMA AnswersStructure ==
    ASSUME Structure, NEW call \in BeamCallMsg, contextId[call.to] # 0, Answers(call),
           UNCHANGED <<elixir, caller, entries, calls, lifecycle>>,
           beamCalls' \subseteq beamCalls, tasks' \subseteq tasks \cup {call}
    PROVE  Structure'
<1>1. UNCHANGED Elsewhere /\ UNCHANGED created
    BY DEF elixir, Elsewhere, counts
<1>2. /\ Numbered'
      /\ \A o, i : Belongs(o, i) => Belongs(o, i)'
      /\ \A m : Addressed(m) => Addressed(m)'
    BY <1>1, ThreadStays DEF Structure
<1>3. call.to \in Context /\ call.call \in CallId
    BY DEF BeamCallMsg
<1>4. contextId[call.to] \in Id /\ contextId[call.to] < nextId
    BY <1>3 DEF Structure, TypeOK, Numbered
<1>5. Resolve(call) \in Message /\ Addressed(Resolve(call))
    BY <1>3, <1>4 DEF Message, Resolve, Addressed
<1>6. queue' \in Seq(Message) /\ Queued'
  <2>1. UNCHANGED queue \/ queue' = Append(queue, Resolve(call))
    BY DEF Answers, ResolveCall, Enqueue
  <2> HIDE DEF Resolve
  <2>2. UNCHANGED queue \/ \E m \in Message : Addressed(m) /\ queue' = Append(queue, m)
    BY <1>5, <2>1
  <2>3. UNCHANGED queue \/ \E m \in Message : Addressed(m)' /\ queue' = Append(queue, m)
    BY <1>2, <2>2
  <2> QED BY <1>2, <2>3, QueueSteps DEF Structure, TypeOK
<1>7. /\ stack' \in Seq(Frame) /\ DOMAIN stack' = DOMAIN stack
      /\ \A i \in DOMAIN stack :
            /\ stack[i] \in Frame /\ stack'[i] \in Frame
            /\ stack'[i].at = stack[i].at /\ stack'[i].id = stack[i].id
            /\ stack[i].at # "parked" => stack'[i] = stack[i]
    BY AnswersFrames DEF Structure, TypeOK
<1>8. Framed'
  <2>1. \A i \in DOMAIN stack : stack'[i].id \in DOMAIN entries /\ stack'[i].id < nextId
    BY <1>7 DEF Structure, Framed, Placed
  <2>2. \A i \in DOMAIN stack :
           /\ stack'[i].at = "js" => stack'[i].msg = Continuation \/ stack'[i].msg.type = "request"
           /\ stack'[i].at = "await" => stack'[i].msg.type = "request"
           /\ stack'[i].at \in {"js", "await"} /\ stack'[i].msg.type = "request" =>
                 contextId[stack'[i].msg.to] = stack'[i].msg.id /\ stack'[i].msg.id = stack'[i].id
    BY <1>7 DEF Structure, Framed, Placed
  <2> QED BY <1>1, <1>7, <2>1, <2>2 DEF Framed, Placed, Elsewhere
<1>9. TypeOK'
    BY <1>1, <1>6, <1>7 DEF Structure, TypeOK, Elsewhere, counts
<1>10. stack = << >> => stack' = << >>
    BY <1>7, EmptySeq DEF Structure, TypeOK
<1>11. Starting'
    BY <1>1, <1>10 DEF Structure, Starting, Elsewhere, Alive
<1>12. Owned'
    BY <1>1, <1>2 DEF Structure, Owned, Elsewhere, Alive
<1> QED BY <1>2, <1>6, <1>7, <1>8, <1>9, <1>11, <1>12 DEF Structure

LEMMA HandlerStructure ==
    ASSUME Structure, NEW call,
           (call \in beamCalls /\ HandleBeamCall(call)) \/ (call \in tasks /\ TaskEnds(call))
    PROVE  Structure'
<1>1. CASE call \in beamCalls /\ HandleBeamCall(call)
  <2>1. call \in BeamCallMsg /\ contextId[call.to] # 0
    BY <1>1 DEF Structure, TypeOK, Owned, Numbered, BeamCallMsg
  <2> QED BY <1>1, <2>1, AnswersStructure DEF HandleBeamCall, Answers
<1>2. CASE call \in tasks /\ TaskEnds(call)
  <2>1. call \in BeamCallMsg /\ contextId[call.to] # 0
    BY <1>2 DEF Structure, TypeOK, Owned
  <2> QED BY <1>2, <2>1, AnswersStructure DEF TaskEnds, Answers
<1> QED BY <1>1, <1>2

(* The steps of the pool and of the contexts' servers leave the thread alone, *)
(* but for what they send it; what was true of a message stays true.          *)
LEMMA ProcessSteps ==
    ASSUME Structure, UNCHANGED <<stack, entries, calls>>,
           \A x \in Context : contextId[x] # 0 => contextId'[x] = contextId[x],
           nextId' \in Nat, nextId \leq nextId', pool # "up" => pool' # "up",
           \A x \in Context : server[x] = "stopped" => server'[x] = "stopped",
           \A o \in Context, i \in Id : Belongs(o, i) => Belongs(o, i)',
           UNCHANGED queue \/ \E m \in Message : Addressed(m)' /\ queue' = Append(queue, m)
    PROVE  /\ queue' \in Seq(Message) /\ Queued' /\ Framed'
           /\ \A i \in DOMAIN entries' :
                 /\ \A o \in Context : entries'[i].owner = o => Belongs(o, i)'
                 /\ entries'[i].next \leq calls' + 1
<1>1. nextId \in Nat /\ contextId \in [Context -> Id \cup {0}]
    BY ConstantFacts DEF Structure, TypeOK
<1>2. ASSUME NEW m \in Message, Addressed(m) PROVE Addressed(m)'
  <2>1. /\ m.type # "stop" => m.id \in Id
        /\ m.type = "create" => m.owner \in Context
        /\ m.type = "request" => m.to \in Context
    BY Messages
  <2>2. Id \subseteq Nat \ {0}
    BY DEF Id
  <2>3. m.type = "create" => Belongs(m.owner, m.id)'
    <3>1. \A o \in Context, i \in Id : m.owner = o /\ m.id = i /\ m.type = "create" => Belongs(o, i)
      BY <1>2 DEF Addressed
    <3> QED BY <2>1, <3>1
  <2>4. m.type = "destroy" => \E x \in Context : server'[x] = "stopped" /\ contextId'[x] = m.id
    BY <1>2, <2>1, <2>2 DEF Addressed
  <2>5. m.type = "request" => contextId'[m.to] = m.id
    BY <1>2, <2>1, <2>2 DEF Addressed
  <2>6. m.type = "resolve" => m.id < nextId'
    <3>1. m.type = "resolve" => m.id < nextId /\ m.id \in Nat
      BY <1>2, <2>1, <2>2 DEF Addressed
    <3> QED BY <1>1, <3>1
  <2>7. m.type = "stop" => pool' # "up"
    BY <1>2 DEF Addressed
  <2> QED BY <2>3, <2>4, <2>5, <2>6, <2>7 DEF Addressed
<1>3. queue' \in Seq(Message) /\ Queued'
    BY <1>2, QueueSteps DEF Structure, TypeOK
<1>4. Framed'
  <2>1. \A i \in DOMAIN stack :
           /\ stack[i] \in Frame /\ Placed(stack[i])
    BY ElementOfSeq, LenProperties DEF Structure, TypeOK, Framed
  <2>2. ASSUME NEW f \in Frame, Placed(f) PROVE Placed(f)'
    <3>1. f.id \in Id /\ Id \subseteq Nat \ {0}
      BY Frames DEF Id
    <3>2. /\ f.at = "js" => f.msg \in Message \cup {Continuation}
          /\ f.at = "await" => f.msg \in Message
      BY Frames
    <3>3. \A m \in Message : m.type = "request" => m.to \in Context
      BY Messages
    <3>4. f.id \in DOMAIN entries' /\ f.id < nextId'
      <4>1. f.id \in DOMAIN entries /\ f.id < nextId /\ f.id \in Nat
        BY <2>2, <3>1 DEF Placed
      <4> QED BY <1>1, <4>1
    <3>5. f.at \in {"js", "await"} /\ f.msg.type = "request" =>
             contextId'[f.msg.to] = f.msg.id /\ f.msg.id = f.id
      <4> SUFFICES ASSUME f.at \in {"js", "await"}, f.msg.type = "request"
                   PROVE  contextId'[f.msg.to] = f.msg.id /\ f.msg.id = f.id
        OBVIOUS
      <4>1. f.msg \in Message
        BY <3>2 DEF Continuation
      <4> QED BY <2>2, <3>1, <3>3, <4>1 DEF Placed
    <3> QED BY <2>2, <3>4, <3>5 DEF Placed
  <2> QED BY <2>2, StackSteps DEF Structure, TypeOK
<1>5. \A i \in DOMAIN entries : /\ i \in Id /\ entries[i].next \leq calls + 1
                                /\ \A o \in Context : entries[i].owner = o => Belongs(o, i)
    BY DEF Structure, TypeOK, Owned
<1> QED BY <1>3, <1>4, <1>5

(* The creation of a context. *)
LEMMA StartContextStructure ==
    ASSUME Structure, NEW x \in Context, StartContext(x)
    PROVE  Structure'
<1>1. /\ server[x] = "new" /\ pool = "up" /\ creating = None
      /\ server' = [server EXCEPT ![x] = "creating"] /\ creating' = x
      /\ queue' = Append(queue, Create(x))
      /\ UNCHANGED <<pool, created, nextId, counts, contextId, caller, beamCalls, tasks, stack,
                     entries, calls, lifecycle>>
    BY DEF StartContext, Enqueue, thread
<1>2. /\ contextId[x] = 0 /\ x \notin created /\ None \notin Context
      /\ contextId \in [Context -> Id \cup {0}]
    BY <1>1, PoolAssumption DEF Structure, Numbered, Starting, TypeOK
<1>3. nextId \in Id /\ nextId \in Nat
  <2>1. HasId \subseteq Context \ {x} /\ IsFiniteSet(Context)
    BY <1>2, PoolAssumption DEF HasId
  <2>2. IsFiniteSet(Context \ {x}) /\ Cardinality(Context \ {x}) = Cardinality(Context) - 1
    BY <2>1, FS_RemoveElement
  <2>3. Cardinality(HasId) \leq Cardinality(Context \ {x}) /\ Cardinality(HasId) \in Nat
    BY <2>1, <2>2, FS_Subset, FS_CardinalityType
  <2> QED BY <2>2, <2>3, ConstantFacts DEF Structure, Numbered, Id
<1>4. ASSUME NEW o \in Context, NEW i \in Id, Belongs(o, i) PROVE Belongs(o, i)'
  <2>1. o # x
    BY <1>1, <1>2, <1>4 DEF Belongs, Id
  <2> QED BY <1>1, <1>2, <1>4, <2>1 DEF Belongs, counts, Structure, TypeOK
<1>5. Create(x) \in Message
    BY <1>3 DEF Create, Message
<1>6. \A m \in Message : m = Create(x) => Addressed(m)'
    BY <1>1, <1>2 DEF Create, Addressed, Belongs
<1>7. \E m \in Message : Addressed(m)' /\ queue' = Append(queue, m)
    BY <1>1, <1>5, <1>6
<1>8. /\ queue' \in Seq(Message) /\ Queued' /\ Framed'
      /\ \A i \in DOMAIN entries' :
            /\ \A o \in Context : entries'[i].owner = o => Belongs(o, i)'
            /\ entries'[i].next \leq calls' + 1
  <2>1. \A y \in Context : server[y] = "stopped" => server'[y] = "stopped"
    BY <1>1 DEF Structure, TypeOK
  <2> QED BY <1>1, <1>3, <1>4, <1>7, <2>1, ProcessSteps
<1>9. TypeOK'
    BY <1>1, <1>8 DEF Structure, TypeOK, counts
<1>10. Numbered'
    BY <1>1, <1>2 DEF Structure, TypeOK, Numbered, HasId
<1>11. Starting'
    BY <1>1, <1>2 DEF Structure, TypeOK, Starting, Alive
<1>12. Owned'
    BY <1>1, <1>2, <1>8, PoolAssumption DEF Structure, TypeOK, Owned, Alive, BeamCallMsg
<1> QED BY <1>8, <1>9, <1>10, <1>11, <1>12 DEF Structure

LEMMA ContextCreatedStructure ==
    ASSUME Structure, NEW x \in Context, ContextCreated(x)
    PROVE  Structure'
<1>1. /\ creating = x /\ x \in created
      /\ creating' = None /\ created' = created \ {x} /\ nextId' = nextId + 1
      /\ server' = [server EXCEPT ![x] = IF @ = "creating" THEN "up" ELSE @]
      /\ contextId' = [contextId EXCEPT ![x] = nextId]
      /\ UNCHANGED <<pool, counts, caller, beamCalls, tasks, queue, stack, entries, calls,
                     lifecycle>>
    BY DEF ContextCreated, thread
<1>2. /\ contextId[x] = 0 /\ server[x] \in {"creating", "killed"} /\ pool = "up"
      /\ nextId \in DOMAIN entries /\ nextId \in Id /\ nextId \in Nat
    BY <1>1, PoolAssumption DEF Structure, Starting, Owned, TypeOK, Id
<1>3. /\ contextId \in [Context -> Id \cup {0}] /\ DOMAIN server = Context
      /\ \A y \in Context : y # x => server'[y] = server[y] /\ contextId'[y] = contextId[y]
      /\ contextId'[x] = nextId /\ server'[x] = (IF server[x] = "creating" THEN "up" ELSE "killed")
    BY <1>1, <1>2 DEF Structure, TypeOK
<1>4. Id \subseteq Nat \ {0} /\ None \notin Context
    BY PoolAssumption DEF Id
<1>5. ASSUME NEW o \in Context, NEW i \in Id, Belongs(o, i) PROVE Belongs(o, i)'
  <2>1. CASE o = x
    BY <1>1, <1>2, <1>3, <1>4, <1>5, <2>1 DEF Belongs
  <2>2. CASE o # x
    BY <1>1, <1>2, <1>3, <1>4, <1>5, <2>2 DEF Belongs, counts
  <2> QED BY <2>1, <2>2
<1>6. /\ queue' \in Seq(Message) /\ Queued' /\ Framed'
      /\ \A i \in DOMAIN entries' :
            /\ \A o \in Context : entries'[i].owner = o => Belongs(o, i)'
            /\ entries'[i].next \leq calls' + 1
  <2>1. /\ \A y \in Context : contextId[y] # 0 => contextId'[y] = contextId[y]
        /\ \A y \in Context : server[y] = "stopped" => server'[y] = "stopped"
        /\ nextId' \in Nat /\ nextId \leq nextId'
    BY <1>1, <1>2, <1>3
  <2> QED BY <1>1, <1>5, <2>1, ProcessSteps
<1>7. Numbered'
  <2>1. HasId' = HasId \cup {x} /\ x \notin HasId
    BY <1>2, <1>3, <1>4 DEF HasId
  <2>2. IsFiniteSet(HasId)
    BY PoolAssumption, FS_Subset DEF HasId
  <2>3. nextId' = Cardinality(HasId') + 1
    <3> DEFINE before == HasId  after == HasId'
    <3>1. after = before \cup {x} /\ x \notin before /\ IsFiniteSet(before)
      BY <2>1, <2>2
    <3>2. nextId = Cardinality(before) + 1
      BY DEF Structure, Numbered
    <3> HIDE DEF before, after
    <3>3. Cardinality(after) = Cardinality(before) + 1 /\ Cardinality(before) \in Nat
      BY <3>1, FS_AddElement, FS_CardinalityType
    <3> QED BY <1>1, <3>2, <3>3 DEF after
  <2>4. \A y \in Context :
           /\ contextId[y] # 0 => contextId[y] < nextId /\ server[y] \in {"up", "stopped", "killed"}
           /\ server[y] \in {"up", "stopped"} => contextId[y] # 0
    BY DEF Structure, Numbered
  <2>5. \A y \in Context : contextId[y] \in Nat
    BY <1>3 DEF Id
  <2>6. \A y \in Context :
           /\ contextId'[y] # 0 =>
                 contextId'[y] < nextId' /\ server'[y] \in {"up", "stopped", "killed"}
           /\ server'[y] \in {"up", "stopped"} => contextId'[y] # 0
    BY <1>1, <1>2, <1>3, <1>4, <2>4, <2>5
  <2>7. \A y, z \in Context : contextId'[y] = contextId'[z] /\ contextId'[y] # 0 => y = z
    BY <1>2, <1>3, <2>4, <2>5 DEF Structure, Numbered
  <2> QED BY <2>3, <2>6, <2>7 DEF Numbered
<1>8. TypeOK'
  <2>1. nextId' \in 1..(Cardinality(Context) + 1)
    BY <1>1, <1>2, ConstantFacts DEF Id
  <2>2. /\ contextId' \in [Context -> Id \cup {0}]
        /\ server' \in [Context -> {"new", "creating", "up", "stopped", "killed"}]
    BY <1>1, <1>2, <1>3 DEF Structure, TypeOK
  <2> QED BY <1>1, <1>6, <2>1, <2>2 DEF Structure, TypeOK, counts
<1>9. Starting'
    BY <1>1, <1>2, <1>3 DEF Structure, Starting, Alive
<1>10. Owned'
  <2>1. /\ \A y \in Context : server'[y] = "up" => y = x \/ server[y] = "up"
        /\ \A y \in Context : server[y] = "up" => server'[y] = "up" /\ y # x
    BY <1>2, <1>3
  <2>2. Alive' => \A y \in Context : server'[y] = "up" => contextId'[y] \in DOMAIN entries'
    BY <1>1, <1>2, <1>3, <2>1 DEF Structure, Owned, Alive
  <2>3. \A call \in beamCalls' : server'[call.to] = "up"
    BY <1>1, <2>1 DEF Structure, Owned, TypeOK, BeamCallMsg
  <2>4. \A call \in tasks' : contextId'[call.to] # 0
    BY <1>1, <1>2, <1>3, <1>4 DEF Structure, Owned, TypeOK, BeamCallMsg
  <2> QED BY <1>1, <1>6, <2>2, <2>3, <2>4 DEF Owned
<1> QED BY <1>6, <1>7, <1>8, <1>9, <1>10 DEF Structure

(* A creation that is given up, and contexts that end. *)
LEMMA EndedStructure ==
    ASSUME Structure, NEW x \in Context, NEW last \in {"stopped", "killed"},
           UNCHANGED <<pool, requests, created, nextId, contextId, tasks, stack, entries, calls,
                       lifecycle>>,
           faults' \in 0..MaxFaults, timeouts' \in 0..MaxTimeouts, timeouts \leq timeouts',
           server' = [server EXCEPT ![x] = last], server[x] \in {"creating", "up", "killed"},
           last = "stopped" => server[x] = "up",
           \/ creating' = creating /\ (creating = x => last = "killed")
           \/ creating = x /\ creating' = None /\ timeouts' > 0 /\ last = "killed",
           caller' \in [Caller -> Context \cup {None}], beamCalls' \subseteq beamCalls,
           \A call \in beamCalls' : call.to # x \/ server[x] # "up",
           UNCHANGED queue \/ (queue' = Append(queue, Destroy(x)) /\ last = "stopped")
    PROVE  Structure'
<1>1. /\ DOMAIN server = Context /\ server'[x] = last
      /\ \A y \in Context : y # x => server'[y] = server[y]
      /\ timeouts \in Nat /\ timeouts' \in Nat /\ None \notin Context
    BY PoolAssumption DEF Structure, TypeOK
<1>2. ASSUME NEW o \in Context, NEW i \in Id, Belongs(o, i) PROVE Belongs(o, i)'
  <2>1. timeouts' = 0 => timeouts = 0 /\ creating' = creating
    BY <1>1
  <2>2. server'[o] = "killed" \/ contextId'[o] = i \/ o = creating'
    <3>1. CASE o = x /\ last = "stopped"
      BY <1>1, <1>2, <3>1 DEF Belongs
    <3>2. CASE o = x /\ last = "killed"
      BY <1>1, <3>2
    <3>3. CASE o # x
      BY <1>1, <1>2, <3>3 DEF Belongs
    <3> QED BY <3>1, <3>2, <3>3
  <2>3. o = creating' => o = creating
    BY <1>1
  <2> QED BY <1>2, <2>1, <2>2, <2>3 DEF Belongs
<1>3. last = "stopped" => contextId[x] \in Id
    BY DEF Structure, TypeOK, Numbered
<1>4. UNCHANGED queue \/ \E m \in Message : Addressed(m)' /\ queue' = Append(queue, m)
  <2> SUFFICES ASSUME queue' = Append(queue, Destroy(x)), last = "stopped"
               PROVE  \E m \in Message : Addressed(m)' /\ queue' = Append(queue, m)
    OBVIOUS
  <2>1. Destroy(x) \in Message
    BY <1>3 DEF Destroy, Message
  <2>2. \A m \in Message : m = Destroy(x) => Addressed(m)'
    BY <1>1 DEF Destroy, Addressed
  <2> QED BY <2>1, <2>2
<1>5. /\ queue' \in Seq(Message) /\ Queued' /\ Framed'
      /\ \A i \in DOMAIN entries' :
            /\ \A o \in Context : entries'[i].owner = o => Belongs(o, i)'
            /\ entries'[i].next \leq calls' + 1
  <2>1. /\ \A y \in Context : contextId[y] # 0 => contextId'[y] = contextId[y]
        /\ \A y \in Context : server[y] = "stopped" => server'[y] = "stopped"
    BY <1>1
  <2>2. nextId' \in Nat /\ nextId \leq nextId'
    BY ConstantFacts DEF Structure, TypeOK
  <2> QED BY <1>2, <1>4, <2>1, <2>2, ProcessSteps
<1>6. TypeOK'
  <2>1. server' \in [Context -> {"new", "creating", "up", "stopped", "killed"}]
    BY DEF Structure, TypeOK
  <2>2. creating' \in Context \cup {None}
    BY DEF Structure, TypeOK
  <2> QED BY <1>5, <2>1, <2>2 DEF Structure, TypeOK
<1>7. Numbered'
  <2>1. \A y \in Context :
           /\ contextId[y] # 0 =>
                 contextId[y] < nextId /\ server'[y] \in {"up", "stopped", "killed"}
           /\ server'[y] \in {"up", "stopped"} => contextId[y] # 0
    BY <1>1, <1>3 DEF Structure, Numbered
  <2> QED BY <2>1 DEF Structure, Numbered, HasId
<1>8. Starting'
    BY <1>1 DEF Structure, TypeOK, Starting, Alive
<1>9. Owned'
  <2>1. \A y \in Context : server'[y] = "up" => server[y] = "up"
    BY <1>1
  <2>2. \A call \in beamCalls' : server'[call.to] = "up"
    BY <1>1 DEF Structure, Owned, TypeOK, BeamCallMsg
  <2>3. creating' # None => creating' = creating
    OBVIOUS
  <2> QED BY <1>5, <2>1, <2>2, <2>3 DEF Structure, Owned, Alive
<1> QED BY <1>5, <1>6, <1>7, <1>8, <1>9 DEF Structure

LEMMA EndStructure ==
    ASSUME Structure, NEW x \in Context,
           CreateTimeout(x) \/ StopContext(x) \/ KillContext(x)
    PROVE  Structure'
<1>1. faults' \in 0..MaxFaults /\ timeouts \in 0..MaxTimeouts /\ timeouts \leq timeouts
    BY PoolAssumption
    DEF CreateTimeout, StopContext, KillContext, Fault, Structure, TypeOK
<1>2. CASE CreateTimeout(x)
  <2>1. timeouts' \in 0..MaxTimeouts /\ timeouts \leq timeouts' /\ timeouts' > 0
    BY <1>2, PoolAssumption DEF CreateTimeout, Structure, TypeOK
  <2>2. /\ server[x] \in {"creating", "killed"} /\ creating = x /\ creating' = None
        /\ server' = [server EXCEPT ![x] = "killed"]
    BY <1>2, PoolAssumption DEF CreateTimeout, Structure, Starting
  <2>3. UNCHANGED <<pool, requests, created, nextId, contextId, tasks, stack, entries, calls,
                    lifecycle, caller, beamCalls, queue>>
    BY <1>2 DEF CreateTimeout, thread
  <2>4. caller' \in [Caller -> Context \cup {None}]
    BY <2>3 DEF Structure, TypeOK
  <2> QED BY <1>1, <2>1, <2>2, <2>3, <2>4, EndedStructure
<1>3. CASE StopContext(x)
  <2>1. /\ server[x] = "up" /\ server' = [server EXCEPT ![x] = "stopped"]
        /\ queue' = Append(queue, Destroy(x))
        /\ UNCHANGED <<pool, requests, created, nextId, contextId, tasks, stack, entries, calls,
                       lifecycle, timeouts, creating>>
    BY <1>3 DEF StopContext, Enqueue, thread
  <2>2. /\ caller' \in [Caller -> Context \cup {None}] /\ beamCalls' \subseteq beamCalls
        /\ \A call \in beamCalls' : call.to # x
    BY <1>3 DEF StopContext, Gone, Structure, TypeOK
  <2>3. creating # x
    BY <2>1, PoolAssumption DEF Structure, Starting
  <2> QED BY <1>1, <2>1, <2>2, <2>3, EndedStructure
<1>4. CASE KillContext(x)
  <2>1. /\ server[x] \in {"creating", "up"} /\ server' = [server EXCEPT ![x] = "killed"]
        /\ UNCHANGED <<pool, requests, created, nextId, contextId, tasks, stack, entries, calls,
                       lifecycle, timeouts, creating, queue>>
    BY <1>4 DEF KillContext, thread
  <2>2. /\ caller' \in [Caller -> Context \cup {None}] /\ beamCalls' \subseteq beamCalls
        /\ \A call \in beamCalls' : call.to # x
    BY <1>4 DEF KillContext, Gone, Structure, TypeOK
  <2> QED BY <1>1, <2>1, <2>2, EndedStructure
<1> QED BY <1>2, <1>3, <1>4

(* A request of a caller. *)
LEMMA CallerStructure ==
    ASSUME Structure, NEW c \in Caller, Call(c)
    PROVE  Structure'
<1>1. PICK x \in Context, kind \in Kind :
         server[x] = "up" /\ caller' = [caller EXCEPT ![c] = x]
         /\ queue' = Append(queue, Request(c, x, kind))
    BY DEF Call, Enqueue
<1>2. /\ UNCHANGED <<pool, creating, created, nextId, timeouts, faults, server, contextId,
                     beamCalls, tasks, stack, entries, calls, lifecycle>>
      /\ requests < MaxRequests /\ requests' = requests + 1
    BY DEF Call, thread
<1>3. contextId[x] \in Id
    BY <1>1 DEF Structure, TypeOK, Numbered
<1>4. \E m \in Message : Addressed(m)' /\ queue' = Append(queue, m)
  <2>1. Request(c, x, kind) \in Message
    BY <1>3 DEF Request, Message
  <2>2. \A m \in Message : m = Request(c, x, kind) => Addressed(m)'
    BY <1>2 DEF Request, Addressed
  <2> QED BY <1>1, <2>1, <2>2
<1>5. \A o \in Context, i \in Id : Belongs(o, i) => Belongs(o, i)'
    BY <1>2 DEF Belongs
<1>6. /\ queue' \in Seq(Message) /\ Queued' /\ Framed'
      /\ \A i \in DOMAIN entries' :
            /\ \A o \in Context : entries'[i].owner = o => Belongs(o, i)'
            /\ entries'[i].next \leq calls' + 1
  <2>1. nextId' \in Nat /\ nextId \leq nextId'
    BY <1>2, ConstantFacts DEF Structure, TypeOK
  <2> QED BY <1>2, <1>4, <1>5, <2>1, ProcessSteps
<1>7. TypeOK'
  <2>1. caller' \in [Caller -> Context \cup {None}] /\ requests' \in 0..MaxRequests
    BY <1>1, <1>2, PoolAssumption DEF Structure, TypeOK
  <2> QED BY <1>2, <1>6, <2>1 DEF Structure, TypeOK
<1>8. Numbered' /\ Starting' /\ Owned'
    BY <1>2, <1>6 DEF Structure, Numbered, HasId, Starting, Owned, Alive
<1> QED BY <1>6, <1>7, <1>8 DEF Structure

(* The end of the pool and of its thread. *)
LEMMA PoolEndsStructure ==
    ASSUME Structure, StopPool \/ KillPool \/ Destructor \/ Join
    PROVE  Structure'
<1>1. /\ UNCHANGED <<nextId, timeouts, requests, contextId, caller, beamCalls, tasks, stack,
                     entries, calls>>
      /\ pool' \in {"stopping", "gone"} /\ creating' = None
      /\ created' \subseteq created
    BY DEF StopPool, KillPool, Destructor, Join, elixir, counts, thread, Structure, TypeOK, Starting
<1>2. faults' \in 0..MaxFaults
    BY PoolAssumption
    DEF StopPool, KillPool, Destructor, Join, elixir, counts, Fault, Structure, TypeOK
<1>3. \/ UNCHANGED <<queue, lifecycle>>
      \/ UNCHANGED queue /\ lifecycle = "stopped" /\ lifecycle' = "joined"
      \/ queue' = Append(queue, Stop) /\ lifecycle = "running" /\ lifecycle' = "stopping"
    BY DEF StopPool, KillPool, Destructor, Join, Shutdown, Enqueue
<1>4. /\ server' \in [Context -> {"new", "creating", "up", "stopped", "killed"}]
      /\ \A x \in Context : /\ server'[x] # "creating"
                            /\ server'[x] = server[x]
                               \/ (server[x] = "creating" /\ server'[x] = "killed")
  <2>1. \A x \in Context : server[x] = "creating" => creating = x
    BY DEF Structure, Starting
  <2>2. CASE UNCHANGED server /\ creating = None
    BY <2>1, <2>2, PoolAssumption DEF Structure, TypeOK
  <2>3. CASE KillPool
    BY <2>1, <2>3 DEF KillPool, Structure, TypeOK
  <2>4. Destructor \/ Join => UNCHANGED server /\ creating = None
    <3>1. Destructor \/ Join => UNCHANGED server /\ pool # "up"
      BY DEF Destructor, Join, elixir, Structure, Starting
    <3> QED BY <3>1 DEF Structure, Starting
  <2> QED BY <2>2, <2>3, <2>4 DEF StopPool
<1>5. \A o \in Context, i \in Id : Belongs(o, i) => Belongs(o, i)'
  <2> SUFFICES ASSUME NEW o \in Context, NEW i \in Id, Belongs(o, i) PROVE Belongs(o, i)'
    OBVIOUS
  <2>1. server'[o] = "killed" \/ contextId[o] = i
    <3>1. CASE o = creating
      <4>1. server[o] \in {"creating", "killed"}
        BY <3>1, PoolAssumption DEF Structure, Starting
      <4> QED BY <1>4, <4>1
    <3>2. CASE o # creating
      BY <1>4, <3>2 DEF Belongs
    <3> QED BY <3>1, <3>2
  <2> QED BY <1>1, <2>1, PoolAssumption DEF Belongs
<1>6. \A m \in Message : m = Stop => Addressed(m)'
    BY <1>1 DEF Stop, Addressed
<1>7. UNCHANGED queue \/ \E m \in Message : Addressed(m)' /\ queue' = Append(queue, m)
  <2>1. Stop \in Message
    BY DEF Message
  <2> QED BY <1>3, <1>6, <2>1
<1>8. /\ queue' \in Seq(Message) /\ Queued' /\ Framed'
      /\ \A i \in DOMAIN entries' :
            /\ \A o \in Context : entries'[i].owner = o => Belongs(o, i)'
            /\ entries'[i].next \leq calls' + 1
  <2>1. nextId' \in Nat /\ nextId \leq nextId' /\ pool' # "up"
    BY <1>1, ConstantFacts DEF Structure, TypeOK
  <2>2. /\ \A x \in Context : contextId[x] # 0 => contextId'[x] = contextId[x]
        /\ \A x \in Context : server[x] = "stopped" => server'[x] = "stopped"
    BY <1>1, <1>4
  <2> QED BY <1>1, <1>5, <1>7, <2>1, <2>2, ProcessSteps
<1>9. TypeOK'
    BY <1>1, <1>2, <1>3, <1>4, <1>8 DEF Structure, TypeOK
<1>10. Numbered'
  <2>1. \A x \in Context :
           /\ contextId[x] # 0 =>
                 contextId[x] < nextId /\ server'[x] \in {"up", "stopped", "killed"}
           /\ server'[x] \in {"up", "stopped"} => contextId[x] # 0
    BY <1>4 DEF Structure, Numbered
  <2> QED BY <1>1, <2>1 DEF Structure, Numbered, HasId
<1>11. Starting'
  <2>1. \A x \in created' : server'[x] # "new"
    BY <1>1, <1>4 DEF Structure, Starting, TypeOK
  <2>2. Alive' \/ stack' = << >>
    BY <1>1, <1>3 DEF Structure, Starting, Alive
  <2> QED BY <1>1, <1>4, <2>1, <2>2 DEF Starting
<1>12. Owned'
  <2>1. \A call \in beamCalls' : server'[call.to] = "up"
    BY <1>1, <1>4 DEF Structure, Owned, TypeOK, BeamCallMsg
  <2>2. Alive' => Alive
    BY <1>3 DEF Alive
  <2>3. \A x \in Context : server'[x] = "up" => server[x] = "up"
    BY <1>4
  <2> QED BY <1>1, <1>8, <2>1, <2>2, <2>3 DEF Structure, Owned
<1> QED BY <1>8, <1>9, <1>10, <1>11, <1>12 DEF Structure

LEMMA StutterStructure == Structure /\ UNCHANGED vars => Structure'
<1> SUFFICES ASSUME Structure, UNCHANGED vars PROVE Structure'
    OBVIOUS
<1> USE DEF vars, elixir, counts, thread, Structure, Alive, Belongs
<1>1. TypeOK'
    BY DEF TypeOK
<1>2. Numbered' /\ Starting'
    BY DEF Numbered, HasId, Starting
<1>3. Owned'
    BY DEF Owned
<1>4. Queued' /\ Framed'
    BY DEF Addressed, Queued, Placed, Framed, Innermost
<1> QED BY <1>1, <1>2, <1>3, <1>4

LEMMA StructureStep == Structure /\ [Next]_vars => Structure'
<1> SUFFICES ASSUME Structure, [Next]_vars PROVE Structure'
    OBVIOUS
<1>1. CASE Thread
    BY <1>1, MainCreateStructure, MainDestroyStructure, MainEvalStructure, MainResetStructure,
       GlobalStructure, ResolveStructure, MainStopStructure, RequeueStructure, CallStructure,
       ReturnStructure, ScriptAwaitsStructure DEF Thread
<1>2. CASE StopPool \/ KillPool \/ Destructor \/ Join
    BY <1>2, PoolEndsStructure
<1>3. ASSUME NEW x \in Context,
             \/ StartContext(x) \/ ContextCreated(x) \/ CreateTimeout(x)
             \/ StopContext(x) \/ KillContext(x)
      PROVE  Structure'
    BY <1>3, StartContextStructure, ContextCreatedStructure, EndStructure
<1>4. ASSUME NEW c \in Caller, Call(c) PROVE Structure'
    BY <1>4, CallerStructure
<1>5. ASSUME NEW call, \/ call \in beamCalls /\ HandleBeamCall(call)
                       \/ call \in tasks /\ TaskEnds(call)
      PROVE  Structure'
    BY <1>5, HandlerStructure
<1>6. CASE UNCHANGED vars
    BY <1>6, StutterStructure
<1> QED BY <1>1, <1>2, <1>3, <1>4, <1>5, <1>6 DEF Next
-----------------------------------------------------------------------------
(* Requests: what a step of the thread does to the request of c to x, if the  *)
(* context is not touched.  It is not made anew, not in two places, there     *)
(* while c waits, and gone when c is answered.                                *)
LEMMA RequestMoves ==
    ASSUME NEW c \in Caller, NEW x \in Context, Kept(c, x), Alive, UNCHANGED server,
           Once(queue', Of(c, x)), Once(stack', Works(c, x)),
           ~(Has(queue', Of(c, x)) /\ Has(stack', Works(c, x))),
           Has(queue', Of(c, x)) \/ Has(stack', Works(c, x)) =>
               /\ Has(queue, Of(c, x)) \/ Has(stack, Works(c, x))
               /\ caller[c] = x => caller'[c] = x,
           caller'[c] = x =>
               caller[c] = x /\ (Has(queue', Of(c, x)) \/ Has(stack', Works(c, x)))
    PROVE  Kept(c, x)'
BY DEF Kept

LEMMA OfRequests ==
    ASSUME NEW c \in Caller, NEW x \in Context, NEW m \in Message
    PROVE  m \in Of(c, x) <=> m.type = "request" /\ m.from = c /\ m.to = x
BY DEF Of

LEMMA WorksRequests ==
    ASSUME NEW c \in Caller, NEW x \in Context, NEW f \in Frame
    PROVE  /\ f.at = "parked" => f \notin Works(c, x)
           /\ f.at # "parked" => (f \in Works(c, x) <=> f.msg \in Of(c, x))
           /\ f.at # "parked" /\ f.msg = Continuation => f \notin Works(c, x)
<1>1. Continuation \notin Of(c, x)
    BY Messages DEF Of
<1> QED BY <1>1, Frames DEF Works

(* An answer is for the caller of the request, if that still waits for it.    *)
LEMMA AnswersOf ==
    ASSUME TypeOK, NEW c \in Caller, NEW x \in Context, NEW m \in Message,
           m.type = "request", Answer(m)
    PROVE  /\ m \in Of(c, x) => caller'[c] # x
           /\ m \notin Of(c, x) => (caller'[c] = x <=> caller[c] = x)
<1>1. caller'[c] = IF c = m.from /\ caller[c] = m.to THEN None ELSE caller[c]
    BY AnswerTyped DEF Answer
<1>2. x # None
    BY PoolAssumption
<1> QED BY <1>1, <1>2, OfRequests

(* The message at the head is taken. *)
LEMMA HeadTaken ==
    ASSUME queue \in Seq(Message), queue # << >>, queue' = Tail(queue), NEW X
    PROVE  /\ Head(queue) \in Message
           /\ Has(queue, X) <=> Head(queue) \in X \/ Has(queue', X)
           /\ Once(queue, X) <=> Once(queue', X) /\ ~(Head(queue) \in X /\ Has(queue', X))
BY Popped, OfPopped

(* A message that is no request: creations, destructions, resolutions. *)
LEMMA OtherKept ==
    ASSUME Structure, NEW c \in Caller, NEW x \in Context, Kept(c, x),
           \/ MainCreate \/ MainDestroy \/ BeamCall
    PROVE  Kept(c, x)'
<1>1. UNCHANGED <<caller, server, stack>>
    BY DEF MainCreate, MainDestroy, BeamCall, elixir
<1>2. Alive
    BY BusyAlive DEF MainCreate, MainDestroy, BeamCall, Innermost
<1>3. Has(queue', Of(c, x)) <=> Has(queue, Of(c, x))
    <2>1. CASE BeamCall
      BY <2>1 DEF BeamCall
    <2>2. CASE MainCreate \/ MainDestroy
      <3>1. /\ queue # << >> /\ queue' = Tail(queue) /\ Head(queue) \in Message
            /\ Head(queue).type # "request"
        BY <2>2, Received DEF MainCreate, MainDestroy, Structure, TypeOK
      <3> QED BY <3>1, HeadTaken, OfRequests DEF Structure, TypeOK
    <2> QED BY <2>1, <2>2
<1>4. Once(queue, Of(c, x)) => Once(queue', Of(c, x))
    <2>1. CASE BeamCall
      BY <2>1 DEF BeamCall
    <2>2. CASE MainCreate \/ MainDestroy
      <3>1. queue # << >> /\ queue' = Tail(queue)
        BY <2>2 DEF MainCreate, MainDestroy, Receive
      <3> QED BY <3>1, HeadTaken DEF Structure, TypeOK
    <2> QED BY <2>1, <2>2
<1>5. Once(stack', Works(c, x)) <=> Once(stack, Works(c, x))
    BY <1>1
<1>6. Has(stack', Works(c, x)) <=> Has(stack, Works(c, x))
    BY <1>1
<1> QED BY <1>1, <1>2, <1>3, <1>4, <1>5, <1>6, RequestMoves DEF Kept

(* A request is answered where it is received. *)
LEMMA AnsweredAtOnce ==
    ASSUME Structure, NEW c \in Caller, NEW x \in Context, Kept(c, x),
           Alive, UNCHANGED <<server, stack>>, Receive("request"), Answer(Head(queue))
    PROVE  Kept(c, x)'
<1> DEFINE m == Head(queue)
<1>1. /\ queue # << >> /\ queue' = Tail(queue)
      /\ m \in Message /\ m.type = "request"
    BY Received DEF Structure, TypeOK
<1>2. /\ Has(queue, Of(c, x)) <=> m \in Of(c, x) \/ Has(queue', Of(c, x))
      /\ Once(queue, Of(c, x)) <=> /\ Once(queue', Of(c, x))
                                   /\ ~(m \in Of(c, x) /\ Has(queue', Of(c, x)))
    BY <1>1, HeadTaken DEF Structure, TypeOK
<1>3. /\ m \in Of(c, x) => caller'[c] # x
      /\ m \notin Of(c, x) => (caller'[c] = x <=> caller[c] = x)
    BY <1>1, AnswersOf DEF Structure
<1> HIDE DEF m
<1>4. Has(stack', Works(c, x)) <=> Has(stack, Works(c, x))
    OBVIOUS
<1>5. Once(stack', Works(c, x)) <=> Once(stack, Works(c, x))
    OBVIOUS
<1> QED BY <1>2, <1>3, <1>4, <1>5, RequestMoves DEF Kept

LEMMA EvalKept ==
    ASSUME Structure, NEW c \in Caller, NEW x \in Context, Kept(c, x), MainEval
    PROVE  Kept(c, x)'
<1> DEFINE m == Head(queue)
<1>1. /\ queue # << >> /\ queue' = Tail(queue)
      /\ m \in Message /\ m.type = "request" /\ Receive("request")
    BY Received DEF MainEval, Structure, TypeOK
<1>2. Alive /\ UNCHANGED server /\ stack = << >>
    BY BusyAlive DEF MainEval, MainLoop, elixir
<1>3. CASE UNCHANGED stack /\ Answer(m)
    BY <1>1, <1>2, <1>3, AnsweredAtOnce
<1>4. CASE m.id \in DOMAIN entries /\ stack' = << Running(m.id, m) >> /\ UNCHANGED caller
  <2>1. /\ Has(queue, Of(c, x)) <=> m \in Of(c, x) \/ Has(queue', Of(c, x))
        /\ Once(queue, Of(c, x)) <=> /\ Once(queue', Of(c, x))
                                     /\ ~(m \in Of(c, x) /\ Has(queue', Of(c, x)))
    BY <1>1, HeadTaken DEF Structure, TypeOK
  <2>2. ~Has(stack, Works(c, x)) /\ Once(stack, Works(c, x))
    BY <1>2, OfNone
  <2>3. /\ Once(stack', Works(c, x))
        /\ Has(stack', Works(c, x)) <=> m \in Of(c, x)
    <3>1. m.id \in Id
      BY <1>1, Messages
    <3>2. Running(m.id, m) \in Frame
      BY <1>1, <3>1 DEF Frame, Running
    <3>3. Running(m.id, m) \in Works(c, x) <=> m \in Of(c, x)
      BY <3>2, WorksRequests DEF Running
    <3> DEFINE f == Running(m.id, m)
    <3>4. stack' = << f >>
      BY <1>4
    <3> HIDE DEF f
    <3>5. DOMAIN << f >> = {1} /\ << f >>[1] = f
      OBVIOUS
    <3> QED BY <3>3, <3>4, <3>5 DEF f, Has, Once
  <2> HIDE DEF m
  <2> QED BY <1>2, <1>4, <2>1, <2>2, <2>3, RequestMoves DEF Kept
<1> QED BY <1>3, <1>4 DEF MainEval

(* A context that is up has its entry, so whoever waits for it is answered.   *)
LEMMA GlobalKept ==
    ASSUME Structure, NEW c \in Caller, NEW x \in Context, Kept(c, x),
           MainGlobal \/ DrainGlobal
    PROVE  Kept(c, x)'
<1> DEFINE m == Head(queue)
<1>1. /\ queue # << >> /\ queue' = Tail(queue) /\ Receive("request")
      /\ m \in Message /\ m.type = "request" /\ Addressed(m) /\ GetGlobal(m)
      /\ UNCHANGED <<server, stack>>
    BY Received DEF MainGlobal, DrainGlobal, elixir, thread, Structure, TypeOK
<1>2. Alive
    BY BusyAlive DEF MainGlobal, DrainGlobal, Pumping, Innermost
<1>3. CASE m.id \in DOMAIN entries
    BY <1>1, <1>2, <1>3, AnsweredAtOnce DEF GetGlobal, Answer
<1>4. CASE m.id \notin DOMAIN entries
  <2>1. m \in Of(c, x) => caller[c] # x
    <3> SUFFICES ASSUME m \in Of(c, x), caller[c] = x PROVE FALSE
      OBVIOUS
    <3>1. m.to = x /\ contextId[x] = m.id
      BY <1>1, OfRequests DEF Addressed
    <3>2. server[x] = "up"
      BY DEF Kept
    <3> QED BY <1>2, <1>4, <3>1, <3>2 DEF Structure, Owned
  <2>2. /\ Has(queue, Of(c, x)) <=> m \in Of(c, x) \/ Has(queue', Of(c, x))
        /\ Once(queue, Of(c, x)) <=> /\ Once(queue', Of(c, x))
                                     /\ ~(m \in Of(c, x) /\ Has(queue', Of(c, x)))
    BY <1>1, HeadTaken DEF Structure, TypeOK
  <2>3. UNCHANGED caller
    BY <1>1, <1>4 DEF GetGlobal
  <2>4. Has(stack', Works(c, x)) <=> Has(stack, Works(c, x))
    BY <1>1
  <2>5. Once(stack', Works(c, x)) <=> Once(stack, Works(c, x))
    BY <1>1
  <2> HIDE DEF m
  <2> QED BY <1>1, <1>2, <2>1, <2>2, <2>3, <2>4, <2>5, RequestMoves DEF Kept
<1> QED BY <1>3, <1>4

(* Frames of no request come and go: continuations and parked threads. *)
LEMMA ResolveKept ==
    ASSUME Structure, NEW c \in Caller, NEW x \in Context, Kept(c, x),
           MainResolve \/ DrainResolve
    PROVE  Kept(c, x)'
<1> DEFINE m == Head(queue)
<1>1. /\ queue # << >> /\ queue' = Tail(queue)
      /\ m \in Message /\ m.type = "resolve" /\ ResolvePending(m)
      /\ UNCHANGED <<server, caller>>
    BY Received DEF MainResolve, DrainResolve, elixir, Structure, TypeOK
<1>2. Alive
    BY BusyAlive DEF MainResolve, DrainResolve, Pumping, Innermost
<1>3. /\ Has(queue, Of(c, x)) <=> Has(queue', Of(c, x))
      /\ Once(queue, Of(c, x)) <=> Once(queue', Of(c, x))
    BY <1>1, HeadTaken, OfRequests DEF Structure, TypeOK
<1>4. /\ Has(stack, Works(c, x)) <=> Has(stack', Works(c, x))
      /\ Once(stack, Works(c, x)) <=> Once(stack', Works(c, x))
  <2>1. CASE UNCHANGED stack
    BY <2>1
  <2>2. CASE stack' = Append(stack, Running(m.id, Continuation))
    <3>1. m.id \in Id
      BY <1>1, Messages
    <3>2. Running(m.id, Continuation) \in Frame
      BY <3>1 DEF Frame, Running
    <3>3. Running(m.id, Continuation) \notin Works(c, x)
      BY <3>2, WorksRequests DEF Running
    <3> DEFINE f == Running(m.id, Continuation)
    <3> HIDE DEF f
    <3> QED BY <2>2, <3>2, <3>3, OfPushed DEF f, Structure, TypeOK
  <2> QED BY <1>1, <2>1, <2>2 DEF ResolvePending
<1> HIDE DEF m
<1> QED BY <1>1, <1>2, <1>3, <1>4, RequestMoves DEF Kept

LEMMA CallSyncKept ==
    ASSUME Structure, NEW c \in Caller, NEW x \in Context, Kept(c, x),
           CallSync \/ CallSyncReturn
    PROVE  Kept(c, x)'
<1>1. UNCHANGED <<server, caller, queue>> /\ stack # << >>
    BY DEF CallSync, CallSyncReturn, Innermost, elixir
<1>2. Alive
    BY <1>1, BusyAlive
<1>3. /\ Has(stack, Works(c, x)) <=> Has(stack', Works(c, x))
      /\ Once(stack, Works(c, x)) <=> Once(stack', Works(c, x))
  <2>1. CASE CallSync
    <3> DEFINE id == Last(stack).id
    <3>1. id \in DOMAIN entries /\ id < nextId /\ id \in Id
      BY <2>1, Innermosts, Frames DEF CallSync, Structure, TypeOK, Placed
    <3>2. entries[id].next \in CallId
      BY <2>1, <3>1, SendsTo DEF CallSync
    <3>3. Parked(id, entries[id].next) \in Frame
      BY <3>1, <3>2 DEF Frame, Parked
    <3>4. Parked(id, entries[id].next) \notin Works(c, x)
      BY <3>3, WorksRequests DEF Parked
    <3>5. stack' = Append(stack, Parked(id, entries[id].next))
      BY <2>1 DEF CallSync
    <3> DEFINE f == Parked(id, entries[id].next)
    <3> HIDE DEF f
    <3> QED BY <3>3, <3>4, <3>5, OfPushed DEF f, Structure, TypeOK
  <2>2. CASE CallSyncReturn
    <3>1. Last(stack) \in Frame /\ Last(stack).at = "parked" /\ stack' = Outer
      BY <2>2, Innermosts DEF CallSyncReturn, Structure, TypeOK
    <3>2. Last(stack) \notin Works(c, x)
      BY <3>1, WorksRequests
    <3> QED BY <1>1, <3>1, <3>2, OfUnstacked DEF Outer, Structure, TypeOK
  <2> QED BY <2>1, <2>2
<1>4. Has(queue', Of(c, x)) <=> Has(queue, Of(c, x))
    BY <1>1
<1>5. Once(queue', Of(c, x)) <=> Once(queue, Of(c, x))
    BY <1>1
<1> QED BY <1>1, <1>2, <1>3, <1>4, <1>5, RequestMoves DEF Kept

(* A request is answered when its frame ends, and a continuation is none.     *)
LEMMA ReturnKept ==
    ASSUME Structure, NEW c \in Caller, NEW x \in Context, Kept(c, x),
           ScriptReturns \/ AwaitEnds
    PROVE  Kept(c, x)'
<1> DEFINE f == Last(stack)
<1>1. UNCHANGED <<server, queue>> /\ stack # << >> /\ stack' = Outer
    BY DEF ScriptReturns, AwaitEnds, Innermost, elixir
<1>2. Alive
    BY <1>1, BusyAlive
<1>3. f \in Frame /\ f.at # "parked" /\ Placed(f)
    BY Innermosts DEF ScriptReturns, AwaitEnds, Structure, TypeOK
<1>4. \/ f.msg = Continuation /\ UNCHANGED caller
      \/ f.msg \in Message /\ f.msg.type = "request" /\ Answer(f.msg)
  <2>1. CASE ScriptReturns
    <3>1. f.at = "js"
      BY <2>1 DEF ScriptReturns, Innermost
    <3>2. \/ f.msg = Continuation /\ UNCHANGED caller
          \/ f.msg # Continuation /\ Answer(f.msg)
      BY <2>1 DEF ScriptReturns, Complete
    <3> QED BY <1>3, <3>1, <3>2, Frames DEF Placed
  <2>2. CASE AwaitEnds
    <3>1. f.at = "await" /\ Answer(f.msg)
      BY <2>2 DEF AwaitEnds, Innermost
    <3> QED BY <1>3, <3>1, Frames DEF Placed
  <2> QED BY <2>1, <2>2
<1>5. /\ Has(stack, Works(c, x)) <=> f \in Works(c, x) \/ Has(stack', Works(c, x))
      /\ Once(stack, Works(c, x)) <=> /\ Once(stack', Works(c, x))
                                      /\ ~(f \in Works(c, x) /\ Has(stack', Works(c, x)))
    BY <1>1, OfUnstacked DEF Outer, Structure, TypeOK
<1>6. /\ f \in Works(c, x) => caller'[c] # x
      /\ f \notin Works(c, x) => (caller'[c] = x <=> caller[c] = x)
  <2>1. CASE f.msg = Continuation /\ UNCHANGED caller
    BY <1>3, <2>1, WorksRequests
  <2>2. CASE f.msg \in Message /\ f.msg.type = "request" /\ Answer(f.msg)
    BY <1>3, <2>2, WorksRequests, AnswersOf DEF Structure
  <2> QED BY <1>4, <2>1, <2>2
<1>7. Has(queue', Of(c, x)) <=> Has(queue, Of(c, x))
    BY <1>1
<1>8. Once(queue', Of(c, x)) <=> Once(queue, Of(c, x))
    BY <1>1
<1> HIDE DEF f
<1> QED BY <1>1, <1>2, <1>5, <1>6, <1>7, <1>8, RequestMoves DEF Kept

(* Its frame waits, with the request in it. *)
LEMMA AwaitsKept ==
    ASSUME Structure, NEW c \in Caller, NEW x \in Context, Kept(c, x), ScriptAwaits
    PROVE  Kept(c, x)'
<1> DEFINE f == Last(stack)
<1>1. UNCHANGED <<server, queue, caller>> /\ stack # << >>
    BY DEF ScriptAwaits, Innermost, elixir
<1>2. Alive
    BY <1>1, BusyAlive
<1>3. f \in Frame /\ f.at = "js" /\ Placed(f) /\ f.msg # Continuation
    BY Innermosts DEF ScriptAwaits, Structure, TypeOK
<1>4. PICK call \in entries[f.id].pending : stack' = Append(Outer, Awaiting(f.msg, call))
    BY DEF ScriptAwaits
<1> DEFINE g == Awaiting(f.msg, call)
<1>5. g \in Frame /\ g.at = "await" /\ g.msg = f.msg
  <2>1. call \in CallId /\ f.msg \in Message /\ f.msg.id = f.id /\ f.id \in Id
    BY <1>3, <1>4, Frames DEF Placed, Structure, TypeOK
  <2>2. Awaiting(f.msg, call) \in Frame
    BY <2>1, MadeFrames
  <2> QED BY <2>2 DEF Awaiting
<1>6. g \in Works(c, x) <=> f \in Works(c, x)
    BY <1>3, <1>5, WorksRequests
<1>7. stack' = Append(Outer, g)
    BY <1>4
<1> HIDE DEF f, g
<1>8. /\ Has(stack, Works(c, x)) <=> f \in Works(c, x) \/ Has(Outer, Works(c, x))
      /\ Once(stack, Works(c, x)) <=> /\ Once(Outer, Works(c, x))
                                      /\ ~(f \in Works(c, x) /\ Has(Outer, Works(c, x)))
      /\ Outer \in Seq(Frame)
    BY <1>1, OfUnstacked, Unstacked DEF Outer, Structure, TypeOK, f
<1>9. /\ Has(stack', Works(c, x)) <=> Has(Outer, Works(c, x)) \/ g \in Works(c, x)
      /\ Once(stack', Works(c, x)) <=> /\ Once(Outer, Works(c, x))
                                       /\ ~(g \in Works(c, x) /\ Has(Outer, Works(c, x)))
    BY <1>5, <1>7, <1>8, OfPushed
<1>10. Has(queue', Of(c, x)) <=> Has(queue, Of(c, x))
    BY <1>1
<1>11. Once(queue', Of(c, x)) <=> Once(queue, Of(c, x))
    BY <1>1
<1> QED BY <1>1, <1>2, <1>6, <1>8, <1>9, <1>10, <1>11, RequestMoves DEF Kept

(* The pump puts back what must wait, and nothing is lost or doubled. *)
LEMMA RequeueKept ==
    ASSUME Structure, NEW c \in Caller, NEW x \in Context, Kept(c, x), Requeue
    PROVE  Kept(c, x)'
<1> DEFINE m == Head(queue)  rest == Tail(queue)
<1>1. /\ UNCHANGED <<server, stack, caller>> /\ queue # << >>
      /\ queue' = Append(rest, m)
    BY DEF Requeue, elixir, thread
<1>2. Alive
    BY BusyAlive DEF Requeue, Pumping, Innermost
<1>3. /\ m \in Message /\ rest \in Seq(Message)
      /\ Has(queue, Of(c, x)) <=> m \in Of(c, x) \/ Has(rest, Of(c, x))
      /\ Once(queue, Of(c, x)) <=> /\ Once(rest, Of(c, x))
                                   /\ ~(m \in Of(c, x) /\ Has(rest, Of(c, x)))
    BY <1>1, Popped, OfPopped DEF Structure, TypeOK
<1> HIDE DEF m, rest
<1>4. /\ Has(queue', Of(c, x)) <=> Has(rest, Of(c, x)) \/ m \in Of(c, x)
      /\ Once(queue', Of(c, x)) <=> /\ Once(rest, Of(c, x))
                                    /\ ~(m \in Of(c, x) /\ Has(rest, Of(c, x)))
    BY <1>1, <1>3, OfPushed
<1>5. Has(stack', Works(c, x)) <=> Has(stack, Works(c, x))
    BY <1>1
<1>6. Once(stack', Works(c, x)) <=> Once(stack, Works(c, x))
    BY <1>1
<1> QED BY <1>1, <1>2, <1>3, <1>4, <1>5, <1>6, RequestMoves DEF Kept

(* Answers of handlers wake frames that are no requests. *)
LEMMA AnswersKept ==
    ASSUME Structure, NEW c \in Caller, NEW x \in Context, Kept(c, x),
           NEW call \in BeamCallMsg, contextId[call.to] # 0, Answers(call),
           UNCHANGED <<server, caller, lifecycle>>
    PROVE  Kept(c, x)'
<1>1. /\ Has(stack, Works(c, x)) <=> Has(stack', Works(c, x))
      /\ Once(stack, Works(c, x)) <=> Once(stack', Works(c, x))
  <2>1. /\ DOMAIN stack' = DOMAIN stack
        /\ \A i \in DOMAIN stack :
              /\ stack[i] \in Frame /\ stack'[i] \in Frame
              /\ stack'[i].at = stack[i].at
              /\ stack[i].at # "parked" => stack'[i] = stack[i]
    BY AnswersFrames DEF Structure, TypeOK
  <2>2. \A i \in DOMAIN stack : stack'[i] \in Works(c, x) <=> stack[i] \in Works(c, x)
    BY <2>1, WorksRequests
  <2> QED BY <2>1, <2>2 DEF Has, Once
<1>2. /\ Has(queue, Of(c, x)) <=> Has(queue', Of(c, x))
      /\ Once(queue, Of(c, x)) <=> Once(queue', Of(c, x))
  <2>1. CASE UNCHANGED queue
    BY <2>1
  <2>2. CASE queue' = Append(queue, Resolve(call))
    <3>1. call.to \in Context /\ call.call \in CallId /\ contextId[call.to] \in Id
      BY DEF BeamCallMsg, Structure, TypeOK
    <3>2. Resolve(call) \in Message /\ Resolve(call).type = "resolve"
      BY <3>1 DEF Message, Resolve
    <3>3. Resolve(call) \notin Of(c, x)
      BY <3>2, OfRequests
    <3> DEFINE m == Resolve(call)
    <3> HIDE DEF m
    <3> QED BY <2>2, <3>2, <3>3, OfPushed DEF m, Structure, TypeOK
  <2> QED BY <2>1, <2>2 DEF Answers, ResolveCall, Enqueue
<1> QED BY <1>1, <1>2 DEF Kept, Alive

LEMMA HandlerKept ==
    ASSUME Structure, NEW c \in Caller, NEW x \in Context, Kept(c, x), NEW call,
           (call \in beamCalls /\ HandleBeamCall(call)) \/ (call \in tasks /\ TaskEnds(call))
    PROVE  Kept(c, x)'
<1>1. call \in BeamCallMsg /\ contextId[call.to] # 0
    BY DEF HandleBeamCall, TaskEnds, Structure, TypeOK, Owned, Numbered, BeamCallMsg
<1>2. Answers(call) /\ UNCHANGED <<server, caller, lifecycle>>
    BY DEF HandleBeamCall, TaskEnds, Answers, elixir
<1> QED BY <1>1, <1>2, AnswersKept

(* The pool and the servers: who waits for a context that ends stops waiting. *)
LEMMA ProcessKept ==
    ASSUME Structure, NEW c \in Caller, NEW x \in Context, Kept(c, x),
           UNCHANGED stack, Alive' => Alive,
           UNCHANGED queue \/ \E m \in Message : m.type # "request" /\ queue' = Append(queue, m),
           caller'[c] = x => caller[c] = x /\ server'[x] = "up",
           caller[c] = x => caller'[c] = x \/ server'[x] \in {"stopped", "killed"},
           server[x] \in {"stopped", "killed"} => server'[x] \in {"stopped", "killed"}
    PROVE  Kept(c, x)'
<1>1. /\ Has(queue, Of(c, x)) <=> Has(queue', Of(c, x))
      /\ Once(queue, Of(c, x)) <=> Once(queue', Of(c, x))
  <2>1. CASE UNCHANGED queue
    BY <2>1
  <2>2. ASSUME NEW m \in Message, m.type # "request", queue' = Append(queue, m)
        PROVE  /\ Has(queue, Of(c, x)) <=> Has(queue', Of(c, x))
               /\ Once(queue, Of(c, x)) <=> Once(queue', Of(c, x))
    BY <2>2, OfRequests, OfPushed DEF Structure, TypeOK
  <2> QED BY <2>1, <2>2
<1>2. Has(stack', Works(c, x)) <=> Has(stack, Works(c, x))
    OBVIOUS
<1>3. Once(stack', Works(c, x)) <=> Once(stack, Works(c, x))
    OBVIOUS
<1> QED BY <1>1, <1>2, <1>3 DEF Kept

LEMMA ContextKept ==
    ASSUME Structure, NEW c \in Caller, NEW x \in Context, Kept(c, x), NEW y \in Context,
           \/ StartContext(y) \/ ContextCreated(y) \/ CreateTimeout(y)
           \/ StopContext(y) \/ KillContext(y)
    PROVE  Kept(c, x)'
<1>1. UNCHANGED <<stack, lifecycle>>
    BY DEF StartContext, ContextCreated, CreateTimeout, StopContext, KillContext, thread
<1>2. caller[c] = x => server[x] = "up"
    BY DEF Kept
<1>3. UNCHANGED queue \/ \E m \in Message : m.type # "request" /\ queue' = Append(queue, m)
  <2>1. CASE StartContext(y)
    <3>1. queue' = Append(queue, Create(y)) /\ queue' \in Seq(Message)
      BY <2>1, StartContextStructure DEF StartContext, Enqueue, Structure, TypeOK
    <3>2. Create(y) \in Message
      <4>1. /\ Len(queue) \in Nat /\ DOMAIN queue = 1..Len(queue)
        BY LenProperties DEF Structure, TypeOK
      <4>2. DOMAIN queue' = 1..(Len(queue) + 1) /\ queue'[Len(queue) + 1] = Create(y)
        BY <3>1, <4>1 DEF Structure, TypeOK
      <4>3. \A i \in DOMAIN queue' : queue'[i] \in Message
        BY <3>1, ElementOfSeq, LenProperties
      <4> QED BY <4>1, <4>2, <4>3
    <3>3. Create(y).type # "request"
      BY DEF Create
    <3> QED BY <3>1, <3>2, <3>3
  <2>2. CASE StopContext(y)
    <3>1. queue' = Append(queue, Destroy(y)) /\ server[y] = "up"
      BY <2>2 DEF StopContext, Enqueue
    <3>2. contextId[y] \in Id
      BY <3>1 DEF Structure, TypeOK, Numbered
    <3>3. Destroy(y) \in Message /\ Destroy(y).type # "request"
      BY <3>2 DEF Destroy, Message
    <3> QED BY <3>1, <3>3
  <2> QED BY <2>1, <2>2 DEF ContextCreated, CreateTimeout, KillContext
<1>4. /\ caller'[c] = x => caller[c] = x /\ server'[x] = "up"
      /\ caller[c] = x => caller'[c] = x \/ server'[x] \in {"stopped", "killed"}
      /\ server[x] \in {"stopped", "killed"} => server'[x] \in {"stopped", "killed"}
  <2>1. /\ server \in [Context -> {"new", "creating", "up", "stopped", "killed"}]
        /\ None \notin Context
    BY PoolAssumption DEF Structure, TypeOK
  <2>2. CASE StartContext(y)
    BY <1>2, <2>1, <2>2 DEF StartContext
  <2>3. CASE ContextCreated(y)
    BY <1>2, <2>1, <2>3 DEF ContextCreated
  <2>4. CASE CreateTimeout(y)
    <3>1. server[y] # "up"
      BY <2>1, <2>4 DEF CreateTimeout, Structure, Starting
    <3> QED BY <1>2, <2>1, <2>4, <3>1 DEF CreateTimeout
  <2>5. CASE StopContext(y) \/ KillContext(y)
    <3>1. /\ caller'[c] = (IF caller[c] = y THEN None ELSE caller[c])
          /\ \A z \in Context : z # y => server'[z] = server[z]
          /\ server'[y] \in {"stopped", "killed"}
      BY <2>1, <2>5 DEF StopContext, KillContext, Gone
    <3> QED BY <1>2, <2>1, <3>1
  <2> QED BY <2>2, <2>3, <2>4, <2>5
<1>5. Alive' => Alive
    BY <1>1 DEF Alive
<1> QED BY <1>1, <1>3, <1>4, <1>5, ProcessKept

LEMMA PoolEndsKept ==
    ASSUME Structure, NEW c \in Caller, NEW x \in Context, Kept(c, x),
           StopPool \/ KillPool \/ Destructor \/ Join
    PROVE  Kept(c, x)'
<1>1. UNCHANGED <<stack, caller>>
    BY DEF StopPool, KillPool, Destructor, Join, thread
<1>2. Alive' => Alive
    BY DEF StopPool, KillPool, Destructor, Join, Shutdown, Alive
<1>3. UNCHANGED queue \/ \E m \in Message : m.type # "request" /\ queue' = Append(queue, m)
  <2>1. Stop \in Message /\ Stop.type # "request"
    BY DEF Message, Stop
  <2> QED BY <2>1 DEF StopPool, KillPool, Destructor, Join, Shutdown, Enqueue
<1>4. server[x] \in {"up", "stopped", "killed"} => server'[x] = server[x]
    BY DEF StopPool, KillPool, Destructor, Join, elixir
<1>5. caller[c] = x => server[x] = "up"
    BY DEF Kept
<1> QED BY <1>1, <1>2, <1>3, <1>4, <1>5, ProcessKept

(* A new request is the only one of its caller to its context. *)
LEMMA CallerKept ==
    ASSUME Structure, NEW c \in Caller, NEW x \in Context, Kept(c, x), NEW d \in Caller, Call(d)
    PROVE  Kept(c, x)'
<1>1. PICK y \in Context, kind \in Kind :
         /\ server[y] = "up" /\ caller' = [caller EXCEPT ![d] = y]
         /\ queue' = Append(queue, Request(d, y, kind))
    BY DEF Call, Enqueue
<1>2. UNCHANGED <<server, stack, lifecycle>> /\ caller[d] = None /\ None \notin Context
    BY PoolAssumption DEF Call, thread
<1> DEFINE m == Request(d, y, kind)
<1>3. m \in Message /\ (m \in Of(c, x) <=> c = d /\ x = y)
  <2>1. contextId[y] \in Id
    BY <1>1 DEF Structure, TypeOK, Numbered
  <2>2. m \in Message
    BY <2>1 DEF Message, Request
  <2> QED BY <2>2, OfRequests DEF Request
<1>4. queue' = Append(queue, m)
    BY <1>1
<1> HIDE DEF m
<1>5. /\ Has(queue', Of(c, x)) <=> Has(queue, Of(c, x)) \/ m \in Of(c, x)
      /\ Once(queue', Of(c, x)) <=> /\ Once(queue, Of(c, x))
                                    /\ ~(m \in Of(c, x) /\ Has(queue, Of(c, x)))
    BY <1>3, <1>4, OfPushed DEF Structure, TypeOK
<1>6. caller'[c] = IF c = d THEN y ELSE caller[c]
    BY <1>1 DEF Structure, TypeOK
<1>7. Has(stack', Works(c, x)) <=> Has(stack, Works(c, x))
    BY <1>2
<1>8. Once(stack', Works(c, x)) <=> Once(stack, Works(c, x))
    BY <1>2
<1> QED BY <1>1, <1>2, <1>3, <1>5, <1>6, <1>7, <1>8 DEF Kept, Alive

LEMMA KeptStep ==
    ASSUME Structure, [Next]_vars, NEW c \in Caller, NEW x \in Context, Kept(c, x)
    PROVE  Kept(c, x)'
<1>1. CASE Thread
  <2>1. CASE MainReset
    <3>1. Alive /\ UNCHANGED <<server, stack>> /\ Receive("request") /\ Answer(Head(queue))
      BY <2>1, BusyAlive DEF MainReset, elixir
    <3> QED BY <3>1, AnsweredAtOnce
  <2>2. CASE MainStop
    <3>1. UNCHANGED <<server, caller>> /\ lifecycle' = "stopped"
      BY <2>2 DEF MainStop, elixir
    <3> QED BY <3>1 DEF Kept, Alive
  <2> QED BY <1>1, <2>1, <2>2, OtherKept, EvalKept, GlobalKept, ResolveKept, RequeueKept,
             CallSyncKept, ReturnKept, AwaitsKept DEF Thread
<1>2. CASE StopPool \/ KillPool \/ Destructor \/ Join
    BY <1>2, PoolEndsKept
<1>3. ASSUME NEW y \in Context,
             \/ StartContext(y) \/ ContextCreated(y) \/ CreateTimeout(y)
             \/ StopContext(y) \/ KillContext(y)
      PROVE  Kept(c, x)'
    BY <1>3, ContextKept
<1>4. ASSUME NEW d \in Caller, Call(d) PROVE Kept(c, x)'
    BY <1>4, CallerKept
<1>5. ASSUME NEW call, \/ call \in beamCalls /\ HandleBeamCall(call)
                       \/ call \in tasks /\ TaskEnds(call)
      PROVE  Kept(c, x)'
    BY <1>5, HandlerKept
<1>6. CASE UNCHANGED vars
    BY <1>6 DEF vars, elixir, thread, Kept, Alive
<1> QED BY <1>1, <1>2, <1>3, <1>4, <1>5, <1>6 DEF Next
-----------------------------------------------------------------------------
LEMMA InitIInv == Init => IInv
<1> SUFFICES ASSUME Init PROVE IInv
    OBVIOUS
<1>1. Structure
    BY InitStructure
<1>2. ASSUME NEW c \in Caller, NEW x \in Context PROVE Kept(c, x)
  <2>1. caller[c] # x
    BY PoolAssumption DEF Init
  <2>2. queue = << >> /\ stack = << >>
    BY DEF Init
  <2> QED BY <2>1, <2>2, OfNone DEF Kept
<1> QED BY <1>1, <1>2 DEF IInv

LEMMA StepIInv == IInv /\ [Next]_vars => IInv'
<1> SUFFICES ASSUME IInv, [Next]_vars PROVE IInv'
    OBVIOUS
<1>1. Structure'
    BY StructureStep DEF IInv
<1>2. ASSUME NEW c \in Caller, NEW x \in Context PROVE Kept(c, x)'
    BY KeptStep DEF IInv
<1> QED BY <1>1, <1>2 DEF IInv

(* Frames are in contexts that are there, and a request's own. *)
LEMMA FramesAreAlive == Structure => FramesAlive
<1> SUFFICES ASSUME Structure, NEW i \in DOMAIN stack
             PROVE  /\ stack[i].id \in DOMAIN entries
                    /\ stack[i].at = "await" =>
                          entries[stack[i].id].owner = stack[i].msg.to \/ timeouts > 0
    BY DEF FramesAlive
<1> DEFINE f == stack[i]
<1>1. f \in Frame /\ Placed(f)
    BY ElementOfSeq, LenProperties DEF Structure, TypeOK, Framed
<1>2. ASSUME f.at = "await", timeouts = 0 PROVE entries[f.id].owner = f.msg.to
  <2>1. f.msg \in Message /\ f.msg.type = "request" /\ contextId[f.msg.to] = f.id
    BY <1>1, <1>2, Frames DEF Placed
  <2>2. f.msg.to \in Context /\ f.id \in DOMAIN entries /\ f.id \in Id /\ f.id < nextId
    BY <1>1, <2>1, Messages, Frames DEF Placed
  <2>3. entries[f.id].owner \in Context /\ Belongs(entries[f.id].owner, f.id)
    BY <2>2 DEF Structure, TypeOK, Owned
  <2>4. contextId[entries[f.id].owner] = f.id
    BY <1>2, <2>2, <2>3 DEF Belongs, Id
  <2> QED BY <2>1, <2>2, <2>3, <2>4 DEF Structure, Numbered, Id
<1>3. timeouts = 0 \/ timeouts > 0
    BY DEF Structure, TypeOK
<1> QED BY <1>1, <1>2, <1>3 DEF Placed

(* While no creation was given up, an entry is the owner's, and only its. *)
LEMMA EntriesAreOwn == Structure => OwnEntry
<1> SUFFICES ASSUME Structure, timeouts = 0, Alive
             PROVE  /\ \A x \in Context : server[x] = "up" =>
                          contextId[x] \in DOMAIN entries /\ entries[contextId[x]].owner = x
                    /\ \A call \in beamCalls : entries[contextId[call.to]].owner = call.to
    BY DEF OwnEntry, Alive
<1>1. ASSUME NEW x \in Context, server[x] = "up"
      PROVE  contextId[x] \in DOMAIN entries /\ entries[contextId[x]].owner = x
  <2> DEFINE i == contextId[x]  o == entries[i].owner
  <2>1. i \in DOMAIN entries /\ i \in Id /\ i < nextId
    BY <1>1 DEF Structure, Owned, Numbered, TypeOK
  <2>2. o \in Context /\ Belongs(o, i)
    BY <2>1 DEF Structure, Owned, TypeOK
  <2>3. contextId[o] = i
    BY <2>1, <2>2 DEF Belongs, Id
  <2> QED BY <2>1, <2>2, <2>3 DEF Structure, Numbered, Id
<1> QED BY <1>1 DEF Structure, Owned, TypeOK, BeamCallMsg

(* One place in the queue or one on the stack. *)
LEMMA RequestsAreKept == IInv => RequestsKept
<1> SUFFICES ASSUME IInv, Alive, NEW c \in Caller, caller[c] # None
             PROVE  Cardinality(InQueue(c)) + Cardinality(OnStack(c)) = 1
    BY DEF RequestsKept, Alive
<1> DEFINE x == caller[c]
<1>1. x \in Context /\ Kept(c, x)
    BY DEF IInv, Structure, TypeOK
<1>2. queue \in Seq(Message) /\ stack \in Seq(Frame)
    BY DEF IInv, Structure, TypeOK
<1>3. InQueue(c) = Positions(queue, Of(c, x))
  <2>1. \A i \in DOMAIN queue : queue[i] \in Message
    BY <1>2, ElementOfSeq, LenProperties
  <2> QED BY <1>1, <2>1, OfRequests DEF InQueue, Positions
<1>4. OnStack(c) = Positions(stack, Works(c, x))
  <2>1. \A i \in DOMAIN stack : stack[i] \in Frame
    BY <1>2, ElementOfSeq, LenProperties
  <2>2. ASSUME NEW i \in DOMAIN stack
        PROVE  stack[i] \in Works(c, x) <=>
                  /\ stack[i].at \in {"js", "await"}
                  /\ stack[i].msg.type = "request"
                  /\ stack[i].msg.from = c /\ stack[i].msg.to = x
    <3>1. stack[i] \in Frame
      BY <2>1
    <3>2. stack[i].at \in {"js", "await"} => stack[i].msg \in Message \/ stack[i].msg = Continuation
      BY <3>1, Frames
    <3>3. Continuation.type # "request"
      BY DEF Continuation
    <3>4. Continuation \notin Of(c, x)
      BY Messages DEF Of
    <3> QED BY <1>1, <3>1, <3>2, <3>3, <3>4, OfRequests DEF Works
  <2> HIDE DEF x
  <2> QED BY <2>2 DEF OnStack, Positions, x
<1> HIDE DEF x
<1>5. /\ Once(queue, Of(c, x)) /\ Once(stack, Works(c, x))
      /\ ~(Has(queue, Of(c, x)) /\ Has(stack, Works(c, x)))
      /\ Has(queue, Of(c, x)) \/ Has(stack, Works(c, x))
  <2>1. caller[c] = x
    BY DEF x
  <2> QED BY <1>1, <2>1 DEF Kept
<1>6. /\ Cardinality(Positions(queue, Of(c, x))) \in Nat
      /\ Cardinality(Positions(queue, Of(c, x))) = 0 <=> ~Has(queue, Of(c, x))
      /\ Cardinality(Positions(queue, Of(c, x))) \leq 1
    BY <1>2, <1>5, Counted
<1>7. /\ Cardinality(Positions(stack, Works(c, x))) \in Nat
      /\ Cardinality(Positions(stack, Works(c, x))) = 0 <=> ~Has(stack, Works(c, x))
      /\ Cardinality(Positions(stack, Works(c, x))) \leq 1
    BY <1>2, <1>5, Counted
<1> QED BY <1>3, <1>4, <1>5, <1>6, <1>7

(* However the pump serves one context in the middle of another's wait, each  *)
(* frame stays in a context that is there, a context is reached under its own *)
(* number only, and every request somebody waits for is in one place          *)
(* (context_worker.zig, pool_drain_callback; context_pool.ex, create_context).*)
THEOREM PumpIsSound == Spec => []PumpSound
<1>1. IInv => PumpSound
    BY FramesAreAlive, EntriesAreOwn, RequestsAreKept DEF IInv, Structure, PumpSound
<1> QED BY <1>1, InitIInv, StepIInv, PTL DEF Spec
=============================================================================
