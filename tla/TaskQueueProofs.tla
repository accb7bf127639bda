--------------------------- MODULE TaskQueueProofs --------------------------
(***************************************************************************)
(* What the Sequence of a node guarantees for any number of tasks, with    *)
(* proofs.  The invariant behind all of it: a task that has begun and has  *)
(* not called back is the one the queue waits for, so that what calls back *)
(* a second time, or late, cannot let another one in.                      *)
(***************************************************************************)
EXTENDS TaskQueue, TLAPS

USE TaskQueueAssumption

(* The queue holds a task once *)
QueueDistinct == \A i, j \in 1 .. Len(queue) : queue[i] = queue[j] => i = j

(* The queue waits for the task that did not call back *)
WorkerUncalled == \A t \in Tasks : Begun(t) /\ t \notin called => t = worker

(* Only the timer calls back for a body that goes on *)
GivenUp == \A t \in Tasks : Running(t) /\ t \in called => t \in timedOut

(* The callback of the queue is scheduled for its task, once *)
NextOfWorker ==
  \A i \in 1 .. Len(immediates) :
    /\ immediates[i].task \in called
    /\ immediates[i].run = "next" =>
         /\ immediates[i].task = worker
         /\ \A j \in 1 .. Len(immediates) : immediates[j].run = "next" => i = j

(* The callback of a sender is scheduled once, and then not called yet *)
AnswerPending ==
  /\ \A t \in Tasks : answers[t] \in {0, 1} /\ (answers[t] = 1 => t \in called)
  /\ \A i \in 1 .. Len(immediates) :
       immediates[i].run = "answer" =>
         /\ answers[immediates[i].task] = 0
         /\ \A j \in 1 .. Len(immediates) :
              immediates[j].run = "answer" /\ immediates[j].task = immediates[i].task => i = j

(* What a body works on shows all that was saved, until a task is given up *)
CopyKept ==
  /\ \A t \in Tasks : ~ Begun(t) => copy[t] = None
  /\ timedOut = {} =>
       \A t \in Tasks : Running(t) /\ copy[t] # None => saved \subseteq copy[t]

IInv ==
  /\ TypeOK /\ QueueDistinct /\ WorkerUncalled /\ GivenUp /\ NextOfWorker
  /\ AnswerPending /\ NothingLost /\ CopyKept /\ SyncingIsSync

-----------------------------------------------------------------------------
(* Sequences: a first element is taken, a few are added *)

LEMMA TailOf ==
  ASSUME NEW S, NEW s \in Seq(S), s # <<>>
  PROVE  /\ Head(s) = s[1] /\ Head(s) \in S /\ 1 \in 1 .. Len(s)
         /\ Tail(s) \in Seq(S)
         /\ Len(Tail(s)) = Len(s) - 1
         /\ \A i \in 1 .. Len(Tail(s)) : i + 1 \in 1 .. Len(s) /\ Tail(s)[i] = s[i + 1]
OBVIOUS

LEMMA CallbacksOf ==
  ASSUME NEW t \in Tasks
  PROVE  /\ Callbacks(t) \in Seq(Callback)
         /\ Len(Callbacks(t)) \in 1 .. 2
         /\ \A i \in 1 .. Len(Callbacks(t)) : Callbacks(t)[i].task = t
         /\ \A i, j \in 1 .. Len(Callbacks(t)) : Callbacks(t)[i].run = Callbacks(t)[j].run => i = j
<1> DEFINE answer == [run |-> "answer", task |-> t]
           next   == [run |-> "next", task |-> t]
<1>1. answer \in Callback /\ next \in Callback
  BY DEF Callback
<1>2. CASE HasCaller(t)
  <2>1. Callbacks(t) = <<answer, next>>
    BY <1>2 DEF Callbacks
  <2> HIDE DEF answer, next
  <2>2. /\ <<answer, next>> \in Seq(Callback) /\ Len(<<answer, next>>) = 2
        /\ <<answer, next>>[1] = answer /\ <<answer, next>>[2] = next
    BY <1>1
  <2> QED
    BY <2>1, <2>2 DEF answer, next
<1>3. CASE ~ HasCaller(t)
  <2>1. Callbacks(t) = <<next>>
    BY <1>3 DEF Callbacks
  <2> HIDE DEF answer, next
  <2>2. <<next>> \in Seq(Callback) /\ Len(<<next>>) = 1 /\ <<next>>[1] = next
    BY <1>1
  <2> QED
    BY <2>1, <2>2 DEF next
<1> QED
  BY <1>2, <1>3

LEMMA Appended ==
  ASSUME NEW S, NEW s \in Seq(S), NEW r \in Seq(S)
  PROVE  /\ s \o r \in Seq(S)
         /\ Len(s \o r) = Len(s) + Len(r)
         /\ \A i \in 1 .. Len(s) : (s \o r)[i] = s[i]
         /\ \A i \in 1 .. Len(s) + Len(r) : i > Len(s) => (s \o r)[i] = r[i - Len(s)] /\ i - Len(s) \in 1 .. Len(r)
OBVIOUS

LEMMA DoneEntries ==
  ASSUME immediates \in Seq(Callback), NEW t \in Tasks, Done(t)
  PROVE  /\ called' = called \cup {t}
         /\ immediates' \in Seq(Callback)
         /\ t \in called => immediates' = immediates
         /\ Len(immediates) \in Nat /\ Len(immediates') \in Nat /\ Len(immediates) <= Len(immediates')
         /\ \A i \in 1 .. Len(immediates) : immediates'[i] = immediates[i]
         /\ \A i \in 1 .. Len(immediates') :
              i > Len(immediates) => t \notin called /\ immediates'[i].task = t
         /\ \A i, j \in 1 .. Len(immediates') :
              /\ i > Len(immediates) /\ j > Len(immediates)
              /\ immediates'[i].run = immediates'[j].run
              => i = j
<1>1. CASE t \in called
  BY <1>1 DEF Done
<1>2. CASE t \notin called
  <2> DEFINE r == Callbacks(t)
             n == Len(immediates)
  <2>1. immediates' = immediates \o r /\ called' = called \cup {t}
    BY <1>2 DEF Done
  <2>2. /\ r \in Seq(Callback) /\ Len(r) \in Nat /\ n \in Nat
        /\ \A i \in 1 .. Len(r) : r[i].task = t
        /\ \A i, j \in 1 .. Len(r) : r[i].run = r[j].run => i = j
    BY CallbacksOf
  <2> HIDE DEF r
  <2>3. /\ immediates' \in Seq(Callback) /\ Len(immediates') = n + Len(r)
        /\ \A i \in 1 .. n : immediates'[i] = immediates[i]
        /\ \A i \in 1 .. n + Len(r) : i > n => immediates'[i] = r[i - n] /\ i - n \in 1 .. Len(r)
    BY <2>1, <2>2, Appended
  <2>4. ASSUME NEW i \in 1 .. Len(immediates'), NEW j \in 1 .. Len(immediates'),
               i > n, j > n, immediates'[i].run = immediates'[j].run
        PROVE  i = j
    <3>1. r[i - n].run = r[j - n].run /\ i - n \in 1 .. Len(r) /\ j - n \in 1 .. Len(r)
      BY <2>3, <2>4
    <3>2. i - n = j - n
      BY <2>2, <3>1
    <3> QED
      BY <2>2, <2>3, <3>2
  <2>5. \A i \in 1 .. Len(immediates') : i > n => immediates'[i].task = t
    BY <2>2, <2>3
  <2> QED
    BY <1>2, <2>1, <2>2, <2>3, <2>4, <2>5
<1> QED
  BY <1>1, <1>2

-----------------------------------------------------------------------------
(* What a step may do to the queue and to the callbacks *)
CallStep ==
  \/ UNCHANGED <<worker, called, immediates, answers>>
  \/ RunImmediate
  \/ \E t \in Tasks :
       /\ worker = None /\ worker' = t /\ ~ Begun(t)
       /\ UNCHANGED <<called, immediates>> \/ Done(t)
       /\ UNCHANGED answers
  \/ \E t \in Tasks : Begun(t) /\ Done(t) /\ UNCHANGED <<worker, answers>>

LEMMA HeadQueued ==
  ASSUME TypeOK, queue # <<>>
  PROVE  /\ Head(queue) \in Tasks /\ at[Head(queue)] = "queued" /\ ~ Begun(Head(queue))
         /\ Tail(queue) \in Seq(Tasks)
         /\ \A i \in 1 .. Len(Tail(queue)) :
              Tail(queue)[i] = queue[i + 1] /\ i + 1 \in 1 .. Len(queue)
<1>1. queue \in Seq(Tasks) /\ \A i \in 1 .. Len(queue) : at[queue[i]] = "queued"
  BY DEF TypeOK
<1>2. /\ Head(queue) = queue[1] /\ Head(queue) \in Tasks /\ 1 \in 1 .. Len(queue)
      /\ Tail(queue) \in Seq(Tasks)
      /\ \A i \in 1 .. Len(Tail(queue)) :
           Tail(queue)[i] = queue[i + 1] /\ i + 1 \in 1 .. Len(queue)
  BY <1>1, TailOf
<1> QED
  BY <1>1, <1>2 DEF Begun

LEMMA CallSteps ==
  ASSUME TypeOK, Next
  PROVE  CallStep
<1>1. CASE RunImmediate
  BY <1>1 DEF CallStep
<1>2. ASSUME NEW t \in Tasks,
             \/ BeginTask(t) \/ BeginTransaction(t) \/ BeginSync(t)
             \/ RefuseTransaction(t) \/ Throw(t)
      PROVE  CallStep
  <2>1. /\ worker = None /\ worker' = t /\ UNCHANGED answers
        /\ t = Head(queue) /\ queue # <<>>
    BY <1>2 DEF BeginTask, BeginTransaction, BeginSync, RefuseTransaction, Throw, Begin, Free
  <2>2. UNCHANGED <<called, immediates>> \/ Done(t)
    BY <1>2 DEF BeginTask, BeginTransaction, BeginSync, RefuseTransaction, Throw, callVars
  <2>3. ~ Begun(t)
    BY <2>1, HeadQueued
  <2> QED
    BY <2>1, <2>2, <2>3 DEF CallStep
<1>3. ASSUME NEW t \in Tasks,
             Timeout(t) \/ EndTask(t) \/ FailTask(t) \/ EndSync(t)
      PROVE  CallStep
  <2>1. Begun(t) /\ Done(t) /\ UNCHANGED <<worker, answers>>
    BY <1>3 DEF Timeout, EndTask, FailTask, EndSync, End, Begun
  <2> QED
    BY <2>1 DEF CallStep
<1>4. ASSUME NEW t \in Tasks,
             \/ Add(t) \/ RollbackFails(t) \/ RollbackSucceeds(t)
             \/ LoadBlock(t) \/ BlockLoaded(t)
      PROVE  UNCHANGED <<worker, called, immediates, answers>>
  BY <1>4 DEF Add, RollbackFails, RollbackSucceeds, LoadBlock, BlockLoaded, callVars
<1> QED
  BY <1>1, <1>2, <1>3, <1>4 DEF Next, CallStep

(* The callback of the queue stays that of its task *)
LEMMA NextOfWorkerStep ==
  ASSUME TypeOK, NextOfWorker, WorkerUncalled, Next
  PROVE  NextOfWorker'
<1> USE DEF NextOfWorker
<1>1. /\ immediates \in Seq(Callback) /\ called \subseteq Tasks
      /\ \A t \in called : Begun(t)
  BY DEF TypeOK
<1>2. CASE UNCHANGED <<worker, called, immediates, answers>>
  BY <1>2
<1>3. CASE RunImmediate
  <2>1. /\ immediates' = Tail(immediates) /\ immediates # <<>> /\ UNCHANGED called
        /\ Head(immediates).run # "next" => UNCHANGED worker
    BY <1>3 DEF RunImmediate
  <2>2. /\ Head(immediates) = immediates[1] /\ 1 \in 1 .. Len(immediates)
        /\ \A i \in 1 .. Len(immediates') :
             i + 1 \in 1 .. Len(immediates) /\ immediates'[i] = immediates[i + 1]
    BY <1>1, <2>1, TailOf
  <2>3. ASSUME NEW i \in 1 .. Len(immediates'), immediates'[i].run = "next"
        PROVE  Head(immediates).run # "next"
    <3>1. i + 1 \in 1 .. Len(immediates) /\ immediates[i + 1].run = "next" /\ i + 1 # 1
      BY <2>2, <2>3
    <3> QED
      BY <2>2, <3>1
  <2>4. ASSUME NEW i \in 1 .. Len(immediates'), NEW j \in 1 .. Len(immediates'),
               immediates'[i].run = "next", immediates'[j].run = "next"
        PROVE  i = j
    <3>1. i + 1 = j + 1
      BY <2>2, <2>4
    <3> QED
      BY <3>1
  <2> QED
    BY <2>1, <2>2, <2>3, <2>4
<1>4. ASSUME NEW t \in Tasks, worker = None, worker' = t,
             UNCHANGED <<called, immediates>> \/ Done(t), ~ Begun(t)
      PROVE  NextOfWorker'
  <2>1. \A i \in 1 .. Len(immediates) : immediates[i].run # "next"
    BY <1>1, <1>4
  <2>2. CASE UNCHANGED <<called, immediates>>
    BY <2>1, <2>2
  <2>3. CASE Done(t)
    BY <1>1, <1>4, <2>1, <2>3, DoneEntries
  <2> QED
    BY <1>4, <2>2, <2>3
<1>5. ASSUME NEW t \in Tasks, Begun(t), Done(t), UNCHANGED worker
      PROVE  NextOfWorker'
  <2>1. CASE t \in called
    BY <1>1, <1>5, <2>1, DoneEntries
  <2>2. CASE t \notin called
    <3>1. t = worker
      BY <1>5, <2>2 DEF WorkerUncalled
    <3>2. \A i \in 1 .. Len(immediates) : immediates[i].run # "next"
      BY <2>2, <3>1
    <3> QED
      BY <1>1, <1>5, <3>1, <3>2, DoneEntries
  <2> QED
    BY <2>1, <2>2
<1> QED
  BY <1>2, <1>3, <1>4, <1>5, CallSteps DEF CallStep

-----------------------------------------------------------------------------
(* Types *)

(* The parts of TypeOK that the queue, the callbacks and the state make up *)
QueueType ==
  /\ at \in [Tasks -> {"new", "queued", "rollback", "running", "ended"}]
  /\ queue \in Seq(Tasks) /\ \A i \in 1 .. Len(queue) : at[queue[i]] = "queued"
  /\ worker \in Tasks \cup {None} /\ (worker # None => Begun(worker))

CallType ==
  /\ timedOut \subseteq called /\ called \subseteq {t \in Tasks : Begun(t)}
  /\ immediates \in Seq(Callback)
  /\ answers \in [Tasks -> Nat]

StateType ==
  /\ state \subseteq Tasks /\ saved \subseteq Tasks
  /\ copy \in [Tasks -> (SUBSET Tasks) \cup {None}]
  /\ syncing \in BOOLEAN

LEMMA TypeParts == TypeOK <=> QueueType /\ CallType /\ StateType
BY DEF TypeOK, QueueType, CallType, StateType

LEMMA BeginSteps ==
  ASSUME TypeOK, QueueDistinct, NEW t \in Tasks,
         NEW place \in {"rollback", "running", "ended"}, Begin(t, place)
  PROVE  /\ QueueType' /\ QueueDistinct'
         /\ ~ Begun(t) /\ \A u \in Tasks : Begun(u)' <=> Begun(u) \/ u = t
<1>1. /\ t = Head(queue) /\ queue # <<>> /\ queue' = Tail(queue) /\ worker' = t
      /\ at' = [at EXCEPT ![t] = place]
  BY DEF Begin, Free
<1>2. /\ queue \in Seq(Tasks) /\ at \in [Tasks -> {"new", "queued", "rollback", "running", "ended"}]
      /\ \A i \in 1 .. Len(queue) : at[queue[i]] = "queued"
  BY DEF TypeOK
<1>3. /\ ~ Begun(t) /\ queue' \in Seq(Tasks)
      /\ \A i \in 1 .. Len(queue') : queue'[i] = queue[i + 1] /\ i + 1 \in 1 .. Len(queue)
      /\ queue[1] = t /\ 1 \in 1 .. Len(queue)
  BY <1>1, <1>2, HeadQueued, TailOf
<1>4. \A u \in Tasks : Begun(u)' <=> Begun(u) \/ u = t
  BY <1>1, <1>2 DEF Begun
<1>5. QueueDistinct'
  <2>1. ASSUME NEW i \in 1 .. Len(queue'), NEW j \in 1 .. Len(queue'), queue'[i] = queue'[j]
        PROVE  i = j
    <3>1. i + 1 = j + 1
      BY <1>3, <2>1 DEF QueueDistinct
    <3> QED
      BY <3>1
  <2> QED
    BY <2>1 DEF QueueDistinct
<1>6. ASSUME NEW i \in 1 .. Len(queue')
      PROVE  at'[queue'[i]] = "queued"
  <2>1. queue'[i] = queue[i + 1] /\ i + 1 \in 1 .. Len(queue) /\ i + 1 # 1
    BY <1>3
  <2>2. queue[i + 1] # t
    BY <1>3, <2>1 DEF QueueDistinct
  <2>3. at[queue[i + 1]] = "queued" /\ queue[i + 1] \in Tasks
    BY <1>2, <2>1
  <2> QED
    BY <1>1, <1>2, <2>1, <2>2, <2>3
<1> QED
  BY <1>1, <1>2, <1>3, <1>4, <1>5, <1>6 DEF QueueType, Begun

LEMMA QueueStep ==
  ASSUME TypeOK, QueueDistinct, Next
  PROVE  QueueType' /\ QueueDistinct' /\ \A u \in Tasks : Begun(u) => Begun(u)'
<1>1. QueueType
  BY TypeParts
<1>2. CASE RunImmediate
  BY <1>1, <1>2 DEF RunImmediate, QueueType, QueueDistinct, Begun
<1>3. ASSUME NEW t \in Tasks,
             \/ BeginTask(t) \/ BeginTransaction(t) \/ BeginSync(t)
             \/ RefuseTransaction(t) \/ Throw(t)
      PROVE  QueueType' /\ QueueDistinct' /\ \A u \in Tasks : Begun(u) => Begun(u)'
  <2>1. \E place \in {"rollback", "running", "ended"} : Begin(t, place)
    BY <1>3 DEF BeginTask, BeginTransaction, BeginSync, RefuseTransaction, Throw
  <2> QED
    BY <2>1, BeginSteps
<1>4. ASSUME NEW t \in Tasks, Add(t)
      PROVE  QueueType' /\ QueueDistinct' /\ \A u \in Tasks : Begun(u) => Begun(u)'
  <2>1. /\ queue' = Append(queue, t) /\ at[t] = "new" /\ at' = [at EXCEPT ![t] = "queued"]
        /\ UNCHANGED worker
    BY <1>4 DEF Add
  <2>2. /\ queue \in Seq(Tasks) /\ at \in [Tasks -> {"new", "queued", "rollback", "running", "ended"}]
        /\ \A i \in 1 .. Len(queue) : queue[i] \in Tasks /\ at[queue[i]] = "queued"
    BY <1>1 DEF QueueType
  <2>3. /\ queue' \in Seq(Tasks) /\ Len(queue') = Len(queue) + 1 /\ Len(queue) \in Nat
        /\ \A i \in 1 .. Len(queue) : queue'[i] = queue[i]
        /\ queue'[Len(queue) + 1] = t
    BY <2>1, <2>2
  <2>4. \A i \in 1 .. Len(queue') : at'[queue'[i]] = "queued"
    BY <2>1, <2>2, <2>3
  <2>5. QueueDistinct'
    <3>1. \A i \in 1 .. Len(queue) : queue[i] # t
      BY <2>1, <2>2
    <3> QED
      BY <2>3, <3>1 DEF QueueDistinct
  <2>6. \A u \in Tasks : Begun(u) => Begun(u)'
    BY <2>1, <2>2 DEF Begun
  <2> QED
    BY <1>1, <2>1, <2>2, <2>3, <2>4, <2>5, <2>6 DEF QueueType, Begun
<1>5. ASSUME NEW t \in Tasks,
             \/ EndTask(t) \/ FailTask(t) \/ EndSync(t)
             \/ RollbackFails(t) \/ RollbackSucceeds(t)
      PROVE  QueueType' /\ QueueDistinct' /\ \A u \in Tasks : Begun(u) => Begun(u)'
  <2>1. /\ at[t] \in {"rollback", "running"} /\ UNCHANGED <<queue, worker>>
        /\ at' = [at EXCEPT ![t] = "ended"] \/ at' = [at EXCEPT ![t] = "running"]
    BY <1>5 DEF EndTask, FailTask, EndSync, End, RollbackFails, RollbackSucceeds
  <2>2. /\ at \in [Tasks -> {"new", "queued", "rollback", "running", "ended"}]
        /\ queue \in Seq(Tasks)
        /\ \A i \in 1 .. Len(queue) : queue[i] \in Tasks /\ at[queue[i]] = "queued" /\ queue[i] # t
    BY <1>1, <2>1 DEF QueueType
  <2>3. \A u \in Tasks : u # t => at'[u] = at[u]
    BY <2>1, <2>2
  <2>4. /\ at' \in [Tasks -> {"new", "queued", "rollback", "running", "ended"}]
        /\ \A u \in Tasks : Begun(u) => Begun(u)'
    BY <2>1, <2>2, <2>3 DEF Begun
  <2>5. \A i \in 1 .. Len(queue) : at'[queue[i]] = "queued"
    BY <2>2, <2>3
  <2> QED
    BY <1>1, <2>1, <2>2, <2>4, <2>5 DEF QueueType, QueueDistinct
<1>6. ASSUME NEW t \in Tasks, Timeout(t) \/ LoadBlock(t) \/ BlockLoaded(t)
      PROVE  QueueType' /\ QueueDistinct' /\ \A u \in Tasks : Begun(u) => Begun(u)'
  <2>1. UNCHANGED <<at, queue, worker>>
    BY <1>6 DEF Timeout, LoadBlock, BlockLoaded
  <2> QED
    BY <1>1, <2>1 DEF QueueType, QueueDistinct, Begun
<1> QED
  BY <1>2, <1>3, <1>4, <1>5, <1>6 DEF Next

(* Only the timer gives a task up, and only begun ones call back *)
LEMMA CallTypeStep ==
  ASSUME TypeOK, QueueDistinct, Next
  PROVE  CallType'
<1>1. /\ CallType /\ \A u \in Tasks : Begun(u) => Begun(u)'
      /\ immediates \in Seq(Callback) /\ timedOut \subseteq called
      /\ called \subseteq Tasks /\ \A u \in called : Begun(u)
      /\ answers \in [Tasks -> Nat]
  BY TypeParts, QueueStep DEF CallType
<1>2. ASSUME NEW t \in Tasks, Done(t), Begun(t)', UNCHANGED answers,
             timedOut' = timedOut \/ timedOut' = timedOut \cup {t}
      PROVE  CallType'
  <2>1. called' = called \cup {t} /\ immediates' \in Seq(Callback)
    BY <1>1, <1>2, DoneEntries
  <2>2. timedOut' \subseteq called' /\ called' \subseteq Tasks /\ \A u \in called' : Begun(u)'
    BY <1>1, <1>2, <2>1
  <2> QED
    BY <1>1, <1>2, <2>1, <2>2 DEF CallType
<1>3. ASSUME UNCHANGED <<called, immediates, timedOut, answers>>
      PROVE  CallType'
  BY <1>1, <1>3 DEF CallType
<1>4. CASE RunImmediate
  <2>1. /\ immediates # <<>> /\ immediates' = Tail(immediates)
        /\ UNCHANGED <<called, timedOut>>
        /\ \/ UNCHANGED answers
           \/ answers' = [answers EXCEPT ![Head(immediates).task] = @ + 1]
    BY <1>4 DEF RunImmediate
  <2>2. immediates' \in Seq(Callback) /\ Head(immediates) \in Callback
    BY <1>1, <2>1, TailOf
  <2>3. answers' \in [Tasks -> Nat]
    BY <1>1, <2>1, <2>2 DEF Callback
  <2> QED
    BY <1>1, <2>1, <2>2, <2>3 DEF CallType
<1>5. ASSUME NEW t \in Tasks, BeginTask(t) \/ BeginTransaction(t) \/ BeginSync(t)
      PROVE  CallType'
  BY <1>3, <1>5 DEF BeginTask, BeginTransaction, BeginSync, Begin, callVars
<1>6. ASSUME NEW t \in Tasks, RefuseTransaction(t) \/ Throw(t)
      PROVE  CallType'
  <2>1. Begin(t, "ended") /\ Done(t) /\ UNCHANGED <<answers, timedOut>>
    BY <1>6 DEF RefuseTransaction, Throw, Begin
  <2>2. Begun(t)'
    BY <2>1, BeginSteps
  <2> QED
    BY <1>2, <2>1, <2>2
<1>7. ASSUME NEW t \in Tasks, Timeout(t)
      PROVE  CallType'
  BY <1>1, <1>2, <1>7 DEF Timeout
<1>8. ASSUME NEW t \in Tasks, EndTask(t) \/ FailTask(t) \/ EndSync(t)
      PROVE  CallType'
  <2>1. Begun(t) /\ Done(t) /\ UNCHANGED <<answers, timedOut>>
    BY <1>8 DEF EndTask, FailTask, EndSync, End, Begun
  <2> QED
    BY <1>1, <1>2, <2>1
<1>9. ASSUME NEW t \in Tasks,
             \/ Add(t) \/ RollbackFails(t) \/ RollbackSucceeds(t)
             \/ LoadBlock(t) \/ BlockLoaded(t)
      PROVE  CallType'
  BY <1>3, <1>9 DEF Add, RollbackFails, RollbackSucceeds, LoadBlock, BlockLoaded, callVars
<1> QED
  BY <1>4, <1>5, <1>6, <1>7, <1>8, <1>9 DEF Next

-----------------------------------------------------------------------------
(* What a step may do to the state and the copies *)
StateStep ==
  \/ UNCHANGED <<state, saved, copy>>
  \/ \E t \in Tasks : copy' = [copy EXCEPT ![t] = state] /\ UNCHANGED <<state, saved>>
  \/ \E t \in Tasks : Running(t) /\ SetState(t)

LEMMA StateSteps ==
  ASSUME Next
  PROVE  StateStep
<1>1. CASE RunImmediate
  BY <1>1 DEF RunImmediate, StateStep, stateVars
<1>2. ASSUME NEW t \in Tasks, BeginTask(t) \/ LoadBlock(t)
      PROVE  StateStep
  BY <1>2 DEF BeginTask, LoadBlock, Begin, StateStep
<1>3. ASSUME NEW t \in Tasks, EndTask(t) \/ BlockLoaded(t)
      PROVE  StateStep
  BY <1>3 DEF EndTask, BlockLoaded, End, Running, StateStep
<1>4. ASSUME NEW t \in Tasks,
             \/ Add(t) \/ Timeout(t) \/ RefuseTransaction(t) \/ BeginTransaction(t) \/ Throw(t)
             \/ BeginSync(t) \/ FailTask(t) \/ RollbackFails(t) \/ RollbackSucceeds(t) \/ EndSync(t)
      PROVE  UNCHANGED <<state, saved, copy>>
  <2>1. CASE Add(t) \/ Timeout(t) \/ FailTask(t) \/ RollbackFails(t) \/ RollbackSucceeds(t) \/ EndSync(t)
    BY <2>1 DEF Add, Timeout, FailTask, RollbackFails, RollbackSucceeds, EndSync, stateVars
  <2>2. CASE RefuseTransaction(t) \/ BeginTransaction(t) \/ Throw(t) \/ BeginSync(t)
    BY <2>2 DEF RefuseTransaction, BeginTransaction, Throw, BeginSync, Begin
  <2> QED
    BY <1>4, <2>1, <2>2
<1> QED
  BY <1>1, <1>2, <1>3, <1>4 DEF Next, StateStep

LEMMA StateTypeStep ==
  ASSUME TypeOK, Next
  PROVE  StateType'
<1>1. /\ state \subseteq Tasks /\ saved \subseteq Tasks /\ syncing \in BOOLEAN
      /\ copy \in [Tasks -> (SUBSET Tasks) \cup {None}]
  BY DEF TypeOK
<1>2. state' \subseteq Tasks /\ saved' \subseteq Tasks /\ copy' \in [Tasks -> (SUBSET Tasks) \cup {None}]
  <2>1. CASE UNCHANGED <<state, saved, copy>>
    BY <1>1, <2>1
  <2>2. ASSUME NEW t \in Tasks, copy' = [copy EXCEPT ![t] = state], UNCHANGED <<state, saved>>
        PROVE  state' \subseteq Tasks /\ saved' \subseteq Tasks /\ copy' \in [Tasks -> (SUBSET Tasks) \cup {None}]
    <3>1. state \in (SUBSET Tasks) \cup {None}
      BY <1>1
    <3> QED
      BY <1>1, <2>2, <3>1
  <2>3. ASSUME NEW t \in Tasks, SetState(t)
        PROVE  state' \subseteq Tasks /\ saved' \subseteq Tasks /\ copy' \in [Tasks -> (SUBSET Tasks) \cup {None}]
    <3>1. /\ copy[t] # None /\ state' = copy[t] \cup {t} /\ saved' = saved \cup {t}
          /\ copy' = [copy EXCEPT ![t] = None]
      BY <2>3 DEF SetState
    <3>2. copy[t] \in SUBSET Tasks
      BY <1>1, <3>1
    <3> QED
      BY <1>1, <3>1, <3>2
  <2> QED
    BY <2>1, <2>2, <2>3, StateSteps DEF StateStep
<1>3. syncing' \in BOOLEAN
  <2>1. syncing' \in {TRUE, FALSE, syncing}
    <3>1. ASSUME NEW t \in Tasks,
                 \/ Add(t) \/ Timeout(t) \/ BeginTask(t) \/ RefuseTransaction(t)
                 \/ BeginTransaction(t) \/ Throw(t) \/ EndTask(t) \/ FailTask(t)
                 \/ RollbackSucceeds(t) \/ LoadBlock(t) \/ BlockLoaded(t)
          PROVE  UNCHANGED syncing
      BY <3>1 DEF Add, Timeout, BeginTask, RefuseTransaction, BeginTransaction, Throw,
                  EndTask, FailTask, RollbackSucceeds, LoadBlock, BlockLoaded
    <3>2. ASSUME NEW t \in Tasks, BeginSync(t) \/ RollbackFails(t) \/ EndSync(t)
          PROVE  syncing' \in {TRUE, FALSE}
      BY <3>2 DEF BeginSync, RollbackFails, EndSync
    <3>3. CASE RunImmediate
      BY <3>3 DEF RunImmediate
    <3> QED
      BY <3>1, <3>2, <3>3 DEF Next
  <2> QED
    BY <1>1, <2>1
<1> QED
  BY <1>2, <1>3 DEF StateType

LEMMA TypeStep ==
  ASSUME TypeOK, QueueDistinct, Next
  PROVE  TypeOK' /\ QueueDistinct'
<1>1. QueueType' /\ CallType' /\ StateType' /\ QueueDistinct'
  BY QueueStep, CallTypeStep, StateTypeStep
<1> QED
  BY <1>1 DEF TypeOK, QueueType, CallType, StateType

-----------------------------------------------------------------------------
(* The queue waits for the task that did not call back *)
LEMMA WorkerUncalledStep ==
  ASSUME TypeOK, QueueDistinct, WorkerUncalled, NextOfWorker, Next
  PROVE  WorkerUncalled'
<1>1. /\ immediates \in Seq(Callback)
      /\ at \in [Tasks -> {"new", "queued", "rollback", "running", "ended"}]
  BY DEF TypeOK
<1>2. CASE RunImmediate
  <2>1. /\ UNCHANGED <<at, called>> /\ immediates # <<>>
        /\ Head(immediates).run = "next" \/ UNCHANGED worker
    BY <1>2 DEF RunImmediate
  <2>2. CASE UNCHANGED worker
    BY <2>1, <2>2 DEF WorkerUncalled, Begun
  <2>3. CASE Head(immediates).run = "next"
    <3>1. Head(immediates) = immediates[1] /\ 1 \in 1 .. Len(immediates)
      BY <1>1, <2>1, TailOf
    <3>2. worker \in called
      BY <2>3, <3>1 DEF NextOfWorker
    <3> QED
      BY <2>1, <3>2 DEF WorkerUncalled, Begun
  <2> QED
    BY <2>1, <2>2, <2>3
<1>3. ASSUME NEW t \in Tasks,
             \/ BeginTask(t) \/ BeginTransaction(t) \/ BeginSync(t)
             \/ RefuseTransaction(t) \/ Throw(t)
      PROVE  WorkerUncalled'
  <2>1. PICK place \in {"rollback", "running", "ended"} : Begin(t, place)
    BY <1>3 DEF BeginTask, BeginTransaction, BeginSync, RefuseTransaction, Throw
  <2>2. worker = None /\ worker' = t
    BY <2>1 DEF Begin, Free
  <2>3. called \subseteq called'
    BY <1>3 DEF BeginTask, BeginTransaction, BeginSync, RefuseTransaction, Throw, Done, callVars
  <2>4. \A u \in Tasks : Begun(u) => u \in called
    BY <2>2 DEF WorkerUncalled
  <2> QED
    BY <2>1, <2>2, <2>3, <2>4, BeginSteps DEF WorkerUncalled
<1>4. ASSUME NEW t \in Tasks,
             \/ EndTask(t) \/ FailTask(t) \/ EndSync(t)
             \/ RollbackFails(t) \/ RollbackSucceeds(t)
      PROVE  WorkerUncalled'
  <2>1. /\ at[t] \in {"rollback", "running"} /\ UNCHANGED worker /\ called \subseteq called'
        /\ \/ at' = [at EXCEPT ![t] = "ended"]
           \/ at' = [at EXCEPT ![t] = "running"]
    BY <1>4 DEF EndTask, FailTask, EndSync, End, Done, RollbackFails, RollbackSucceeds, callVars
  <2>2. \A u \in Tasks : Begun(u)' <=> Begun(u)
    BY <1>1, <2>1 DEF Begun
  <2> QED
    BY <2>1, <2>2 DEF WorkerUncalled
<1>5. ASSUME NEW t \in Tasks, Timeout(t) \/ LoadBlock(t) \/ BlockLoaded(t)
      PROVE  WorkerUncalled'
  <2>1. UNCHANGED <<at, worker>> /\ called \subseteq called'
    BY <1>5 DEF Timeout, LoadBlock, BlockLoaded, Done, callVars
  <2> QED
    BY <2>1 DEF WorkerUncalled, Begun
<1>6. ASSUME NEW t \in Tasks, Add(t)
      PROVE  WorkerUncalled'
  <2>1. at' = [at EXCEPT ![t] = "queued"] /\ UNCHANGED <<worker, called>>
    BY <1>6 DEF Add, callVars
  <2>2. \A u \in Tasks : Begun(u)' => Begun(u)
    BY <1>1, <2>1 DEF Begun
  <2> QED
    BY <2>1, <2>2 DEF WorkerUncalled
<1> QED
  BY <1>2, <1>3, <1>4, <1>5, <1>6 DEF Next

(* Only the timer calls back for a body that goes on *)
LEMMA GivenUpStep ==
  ASSUME TypeOK, GivenUp, Next
  PROVE  GivenUp'
<1>1. /\ at \in [Tasks -> {"new", "queued", "rollback", "running", "ended"}]
      /\ called \subseteq Tasks /\ \A u \in called : Begun(u)
  BY DEF TypeOK
<1>2. ASSUME UNCHANGED <<at, called, timedOut>>
      PROVE  GivenUp'
  BY <1>2 DEF GivenUp, Running
<1>3. ASSUME NEW t \in Tasks, NEW place \in {"queued", "ended"},
             at' = [at EXCEPT ![t] = place], UNCHANGED timedOut,
             called' \subseteq called \cup {t}
      PROVE  GivenUp'
  BY <1>1, <1>3 DEF GivenUp, Running
<1>4. ASSUME NEW t \in Tasks,
             BeginTask(t) \/ BeginTransaction(t) \/ BeginSync(t)
      PROVE  GivenUp'
  <2>1. PICK place \in {"rollback", "running"} : Begin(t, place) /\ UNCHANGED called
    BY <1>4 DEF BeginTask, BeginTransaction, BeginSync, callVars
  <2>2. /\ at' = [at EXCEPT ![t] = place] /\ UNCHANGED timedOut
        /\ t = Head(queue) /\ queue # <<>>
    BY <2>1 DEF Begin, Free
  <2>3. t \notin called
    BY <1>1, <2>2, HeadQueued
  <2> QED
    BY <1>1, <2>1, <2>2, <2>3 DEF GivenUp, Running
<1>5. ASSUME NEW t \in Tasks,
             \/ RefuseTransaction(t) \/ Throw(t) \/ Add(t)
             \/ EndTask(t) \/ FailTask(t) \/ EndSync(t) \/ RollbackFails(t)
      PROVE  GivenUp'
  <2>1. CASE RefuseTransaction(t) \/ Throw(t)
    BY <1>3, <2>1 DEF RefuseTransaction, Throw, Begin, Done
  <2>2. CASE Add(t) \/ RollbackFails(t)
    BY <1>3, <2>2 DEF Add, RollbackFails, callVars
  <2>3. CASE EndTask(t) \/ FailTask(t) \/ EndSync(t)
    BY <1>3, <2>3 DEF EndTask, FailTask, EndSync, End, Done
  <2> QED
    BY <1>5, <2>1, <2>2, <2>3
<1>6. ASSUME NEW t \in Tasks, RollbackSucceeds(t)
      PROVE  GivenUp'
  <2>1. /\ at[t] = "rollback" /\ at' = [at EXCEPT ![t] = "running"]
        /\ UNCHANGED <<called, timedOut>>
    BY <1>6 DEF RollbackSucceeds, callVars
  <2> QED
    BY <1>1, <2>1 DEF GivenUp, Running
<1>7. ASSUME NEW t \in Tasks, Timeout(t)
      PROVE  GivenUp'
  <2>1. /\ UNCHANGED at /\ called' = called \cup {t} /\ timedOut' = timedOut \cup {t}
    BY <1>7 DEF Timeout, Done
  <2> QED
    BY <2>1 DEF GivenUp, Running
<1>8. CASE RunImmediate
  BY <1>2, <1>8 DEF RunImmediate
<1>9. ASSUME NEW t \in Tasks, LoadBlock(t) \/ BlockLoaded(t)
      PROVE  GivenUp'
  BY <1>2, <1>9 DEF LoadBlock, BlockLoaded, callVars
<1> QED
  BY <1>4, <1>5, <1>6, <1>7, <1>8, <1>9 DEF Next

(* The callback of a sender is scheduled and called once *)
LEMMA AnswerPendingStep ==
  ASSUME TypeOK, NextOfWorker, AnswerPending, Next
  PROVE  AnswerPending'
<1> USE DEF AnswerPending
<1>1. /\ immediates \in Seq(Callback) /\ answers \in [Tasks -> Nat]
      /\ \A t \in called : Begun(t)
      /\ \A i \in 1 .. Len(immediates) : immediates[i].task \in called
      /\ \A i \in 1 .. Len(immediates) : immediates[i] \in Callback
  BY DEF TypeOK, NextOfWorker
<1>2. CASE UNCHANGED <<worker, called, immediates, answers>>
  BY <1>2
<1>3. CASE RunImmediate
  <2>1. /\ immediates' = Tail(immediates) /\ immediates # <<>> /\ UNCHANGED called
        /\ \/ /\ Head(immediates).run = "answer"
              /\ answers' = [answers EXCEPT ![Head(immediates).task] = @ + 1]
           \/ Head(immediates).run = "next" /\ UNCHANGED answers
    BY <1>3 DEF RunImmediate
  <2>2. /\ Head(immediates) = immediates[1] /\ 1 \in 1 .. Len(immediates)
        /\ \A i \in 1 .. Len(immediates') :
             i + 1 \in 1 .. Len(immediates) /\ immediates'[i] = immediates[i + 1] /\ i + 1 # 1
    BY <1>1, <2>1, TailOf
  <2>3. ASSUME NEW i \in 1 .. Len(immediates'), NEW j \in 1 .. Len(immediates'),
               immediates'[i].run = "answer", immediates'[j].run = "answer",
               immediates'[i].task = immediates'[j].task
        PROVE  i = j
    <3>1. i + 1 = j + 1
      BY <2>2, <2>3
    <3> QED
      BY <3>1
  <2>4. CASE Head(immediates).run = "next"
    <3>1. UNCHANGED answers
      BY <2>1, <2>4
    <3>2. \A i \in 1 .. Len(immediates') :
            immediates'[i].run = "answer" => answers[immediates'[i].task] = 0
      BY <2>2
    <3> QED
      BY <2>1, <2>3, <3>1, <3>2
  <2>5. CASE Head(immediates).run = "answer"
    <3> DEFINE s == Head(immediates).task
    <3>1. s \in Tasks /\ s \in called /\ answers[s] = 0
      BY <1>1, <2>2, <2>5 DEF Callback
    <3>2. answers' = [answers EXCEPT ![s] = 1]
      BY <1>1, <2>1, <2>5, <3>1
    <3>3. ASSUME NEW i \in 1 .. Len(immediates'), immediates'[i].run = "answer"
          PROVE  answers'[immediates'[i].task] = 0
      <4>1. i + 1 \in 1 .. Len(immediates) /\ immediates'[i] = immediates[i + 1] /\ i + 1 # 1
        BY <2>2
      <4>2. immediates[i + 1].task # s /\ answers[immediates[i + 1].task] = 0
        BY <2>2, <2>5, <3>3, <4>1
      <4>3. immediates[i + 1].task \in Tasks
        BY <1>1, <4>1 DEF Callback
      <4> QED
        BY <1>1, <3>2, <4>1, <4>2, <4>3
    <3>4. \A u \in Tasks : answers'[u] \in {0, 1} /\ (answers'[u] = 1 => u \in called)
      BY <1>1, <3>1, <3>2
    <3> QED
      BY <2>1, <2>3, <3>3, <3>4
  <2> QED
    BY <2>1, <2>4, <2>5
<1>4. ASSUME NEW t \in Tasks, Done(t), UNCHANGED answers
      PROVE  AnswerPending'
  <2>1. CASE t \in called
    BY <1>1, <1>4, <2>1, DoneEntries
  <2>2. CASE t \notin called
    <3>1. answers[t] = 0
      BY <2>2
    <3>2. /\ called' = called \cup {t}
          /\ Len(immediates) \in Nat /\ Len(immediates') \in Nat /\ Len(immediates) <= Len(immediates')
          /\ \A i \in 1 .. Len(immediates) : immediates'[i] = immediates[i] /\ immediates[i].task # t
          /\ \A i \in 1 .. Len(immediates') : i > Len(immediates) => immediates'[i].task = t
          /\ \A i, j \in 1 .. Len(immediates') :
               /\ i > Len(immediates) /\ j > Len(immediates)
               /\ immediates'[i].run = immediates'[j].run
               => i = j
      BY <1>1, <1>4, <2>2, DoneEntries
    <3>3. ASSUME NEW i \in 1 .. Len(immediates'), immediates'[i].run = "answer"
          PROVE  answers[immediates'[i].task] = 0
      BY <3>1, <3>2, <3>3
    <3>4. ASSUME NEW i \in 1 .. Len(immediates'), NEW j \in 1 .. Len(immediates'),
                 immediates'[i].run = "answer", immediates'[j].run = "answer",
                 immediates'[j].task = immediates'[i].task
          PROVE  i = j
      BY <3>2, <3>4
    <3> QED
      BY <1>4, <3>2, <3>3, <3>4
  <2> QED
    BY <2>1, <2>2
<1> QED
  BY <1>2, <1>3, <1>4, CallSteps DEF CallStep

(* Until a task is given up, one body runs *)
LEMMA OneRuns ==
  ASSUME WorkerUncalled, GivenUp, timedOut = {}, NEW t \in Tasks, NEW u \in Tasks,
         Running(t), Running(u)
  PROVE  t = u
BY DEF WorkerUncalled, GivenUp, Running, Begun

(* A body works on what was saved last, until a task is given up *)
LEMMA CopyStep ==
  ASSUME TypeOK, QueueDistinct, WorkerUncalled, GivenUp, NothingLost, CopyKept, Next
  PROVE  NothingLost' /\ CopyKept'
<1>1. /\ at \in [Tasks -> {"new", "queued", "rollback", "running", "ended"}]
      /\ copy \in [Tasks -> (SUBSET Tasks) \cup {None}]
      /\ \A u \in Tasks : Begun(u) => Begun(u)'
  BY QueueStep DEF TypeOK
<1>2. timedOut' = {} => timedOut = {}
  <2>1. timedOut \subseteq timedOut'
    <3>1. ASSUME NEW t \in Tasks,
                 \/ Add(t) \/ Timeout(t) \/ EndTask(t) \/ FailTask(t) \/ EndSync(t)
                 \/ RollbackFails(t) \/ RollbackSucceeds(t) \/ LoadBlock(t) \/ BlockLoaded(t)
          PROVE  timedOut \subseteq timedOut'
      BY <3>1 DEF Add, Timeout, EndTask, FailTask, EndSync, End,
                  RollbackFails, RollbackSucceeds, LoadBlock, BlockLoaded
    <3>2. ASSUME NEW t \in Tasks,
                 \/ BeginTask(t) \/ RefuseTransaction(t) \/ BeginTransaction(t)
                 \/ Throw(t) \/ BeginSync(t)
          PROVE  UNCHANGED timedOut
      BY <3>2 DEF BeginTask, RefuseTransaction, BeginTransaction, Throw, BeginSync, Begin
    <3>3. CASE RunImmediate
      BY <3>3 DEF RunImmediate
    <3> QED
      BY <3>1, <3>2, <3>3 DEF Next
  <2> QED
    BY <2>1
<1>3. ASSUME UNCHANGED <<state, saved, copy>>,
             \A u \in Tasks : Running(u)' => Running(u) \/ ~ Begun(u)
      PROVE  NothingLost' /\ CopyKept'
  BY <1>1, <1>2, <1>3 DEF NothingLost, CopyKept
<1>4. ASSUME NEW t \in Tasks, copy' = [copy EXCEPT ![t] = state], UNCHANGED <<state, saved>>,
             Begun(t)', \A u \in Tasks : Running(u)' => Running(u) \/ u = t
      PROVE  NothingLost' /\ CopyKept'
  <2>1. NothingLost'
    BY <1>2, <1>4 DEF NothingLost
  <2>2. copy'[t] = state /\ \A u \in Tasks : u # t => copy'[u] = copy[u]
    BY <1>1, <1>4
  <2>3. CopyKept'
    BY <1>1, <1>2, <1>4, <2>2 DEF NothingLost, CopyKept
  <2> QED
    BY <2>1, <2>3
<1>5. ASSUME NEW t \in Tasks, Running(t), SetState(t),
             \A u \in Tasks : Running(u)' => Running(u)
      PROVE  NothingLost' /\ CopyKept'
  <2>1. /\ copy[t] # None /\ state' = copy[t] \cup {t} /\ saved' = saved \cup {t}
        /\ copy' = [copy EXCEPT ![t] = None]
    BY <1>5 DEF SetState
  <2>2. copy'[t] = None /\ \A u \in Tasks : u # t => copy'[u] = copy[u]
    BY <1>1, <2>1
  <2>3. timedOut = {} => saved \subseteq copy[t] /\ \A u \in Tasks : Running(u) => u = t
    BY <1>5, <2>1, OneRuns DEF CopyKept
  <2>4. NothingLost'
    BY <1>2, <2>1, <2>3 DEF NothingLost
  <2>5. \A u \in Tasks : ~ Begun(u)' => copy'[u] = None
    BY <1>1, <2>2 DEF CopyKept
  <2>6. CopyKept'
    BY <1>2, <1>5, <2>2, <2>3, <2>5 DEF CopyKept
  <2> QED
    BY <2>4, <2>6
<1>6. CASE RunImmediate
  BY <1>3, <1>6 DEF RunImmediate, Running, stateVars
<1>7. ASSUME NEW t \in Tasks, BeginTask(t)
      PROVE  NothingLost' /\ CopyKept'
  <2>1. /\ Begin(t, "running") /\ copy' = [copy EXCEPT ![t] = state] /\ UNCHANGED <<state, saved>>
        /\ at' = [at EXCEPT ![t] = "running"]
    BY <1>7 DEF BeginTask, Begin
  <2>2. Begun(t)' /\ \A u \in Tasks : Running(u)' => Running(u) \/ u = t
    BY <1>1, <2>1 DEF Running, Begun
  <2> QED
    BY <1>4, <2>1, <2>2
<1>8. ASSUME NEW t \in Tasks,
             RefuseTransaction(t) \/ BeginTransaction(t) \/ Throw(t) \/ BeginSync(t)
      PROVE  NothingLost' /\ CopyKept'
  <2>1. PICK place \in {"rollback", "running", "ended"} : Begin(t, place)
    BY <1>8 DEF RefuseTransaction, BeginTransaction, Throw, BeginSync
  <2>2. UNCHANGED <<state, saved, copy>> /\ at' = [at EXCEPT ![t] = place]
    BY <1>8, <2>1 DEF RefuseTransaction, BeginTransaction, Throw, BeginSync, Begin
  <2>3. \A u \in Tasks : Running(u)' => Running(u) \/ ~ Begun(u)
    BY <1>1, <2>1, <2>2, BeginSteps DEF Running
  <2> QED
    BY <1>3, <2>2, <2>3
<1>9. ASSUME NEW t \in Tasks, EndTask(t) \/ BlockLoaded(t)
      PROVE  NothingLost' /\ CopyKept'
  <2>1. /\ Running(t) /\ SetState(t)
        /\ UNCHANGED at \/ at' = [at EXCEPT ![t] = "ended"]
    BY <1>9 DEF EndTask, BlockLoaded, End, Running
  <2>2. \A u \in Tasks : Running(u)' => Running(u)
    BY <1>1, <2>1 DEF Running
  <2> QED
    BY <1>5, <2>1, <2>2
<1>10. ASSUME NEW t \in Tasks, LoadBlock(t)
       PROVE  NothingLost' /\ CopyKept'
  <2>1. /\ at[t] = "running" /\ UNCHANGED <<at, state, saved>>
        /\ copy' = [copy EXCEPT ![t] = state]
    BY <1>10 DEF LoadBlock
  <2>2. Begun(t)' /\ \A u \in Tasks : Running(u)' => Running(u)
    BY <2>1 DEF Running, Begun
  <2> QED
    BY <1>4, <2>1, <2>2
<1>11. ASSUME NEW t \in Tasks,
              \/ Add(t) \/ Timeout(t) \/ FailTask(t) \/ EndSync(t)
              \/ RollbackFails(t) \/ RollbackSucceeds(t)
       PROVE  NothingLost' /\ CopyKept'
  <2>1. /\ UNCHANGED <<state, saved, copy>>
        /\ \/ UNCHANGED at
           \/ at' = [at EXCEPT ![t] = "queued"] \/ at' = [at EXCEPT ![t] = "ended"]
           \/ Running(t) /\ at' = [at EXCEPT ![t] = "running"]
    BY <1>11 DEF Add, Timeout, FailTask, EndSync, End, RollbackFails, RollbackSucceeds,
                 Running, stateVars
  <2>2. \A u \in Tasks : Running(u)' => Running(u)
    BY <1>1, <2>1 DEF Running
  <2> QED
    BY <1>3, <2>1, <2>2
<1> QED
  BY <1>6, <1>7, <1>8, <1>9, <1>10, <1>11 DEF Next

(* Whatever sets the flag runs, and clears it when it ends *)
LEMMA SyncingStep ==
  ASSUME TypeOK, SyncingIsSync, Next
  PROVE  SyncingIsSync'
<1>1. at \in [Tasks -> {"new", "queued", "rollback", "running", "ended"}]
  BY DEF TypeOK
<1>2. ASSUME UNCHANGED syncing,
             \A u \in Tasks : IsSync(u) /\ Running(u) => Running(u)'
      PROVE  SyncingIsSync'
  BY <1>2 DEF SyncingIsSync, IsSync
<1>3. ASSUME NEW t \in Tasks, BeginSync(t)
      PROVE  SyncingIsSync'
  <2>1. IsSync(t) /\ (at' = [at EXCEPT ![t] = "rollback"] \/ at' = [at EXCEPT ![t] = "running"])
    BY <1>3 DEF BeginSync, Begin
  <2>2. Running(t)'
    BY <1>1, <2>1 DEF Running
  <2> QED
    BY <2>1, <2>2 DEF SyncingIsSync, IsSync
<1>4. ASSUME NEW t \in Tasks, EndSync(t) \/ RollbackFails(t)
      PROVE  SyncingIsSync'
  BY <1>4 DEF EndSync, RollbackFails, SyncingIsSync
<1>5. ASSUME NEW t \in Tasks,
             BeginTask(t) \/ RefuseTransaction(t) \/ BeginTransaction(t) \/ Throw(t)
      PROVE  SyncingIsSync'
  <2>1. PICK place \in {"rollback", "running", "ended"} : Begin(t, place)
    BY <1>5 DEF BeginTask, RefuseTransaction, BeginTransaction, Throw
  <2>2. /\ UNCHANGED syncing /\ at' = [at EXCEPT ![t] = place]
        /\ t = Head(queue) /\ queue # <<>>
    BY <1>5, <2>1 DEF BeginTask, RefuseTransaction, BeginTransaction, Throw, Begin, Free
  <2>3. ~ Running(t)
    BY <2>2, HeadQueued DEF Running
  <2>4. \A u \in Tasks : Running(u) => Running(u)'
    BY <1>1, <2>2, <2>3 DEF Running
  <2> QED
    BY <1>2, <2>2, <2>4
<1>6. ASSUME NEW t \in Tasks, Add(t) \/ EndTask(t) \/ FailTask(t) \/ RollbackSucceeds(t)
      PROVE  SyncingIsSync'
  <2>1. /\ UNCHANGED syncing
        /\ \/ at[t] = "new" /\ at' = [at EXCEPT ![t] = "queued"]
           \/ ~ IsSync(t) /\ at' = [at EXCEPT ![t] = "ended"]
           \/ at' = [at EXCEPT ![t] = "running"]
    BY <1>6 DEF Add, EndTask, FailTask, End, RollbackSucceeds
  <2>2. \A u \in Tasks : IsSync(u) /\ Running(u) => Running(u)'
    BY <1>1, <2>1 DEF Running
  <2> QED
    BY <1>2, <2>1, <2>2
<1>7. ASSUME NEW t \in Tasks, Timeout(t) \/ LoadBlock(t) \/ BlockLoaded(t)
      PROVE  SyncingIsSync'
  <2>1. UNCHANGED <<at, syncing>>
    BY <1>7 DEF Timeout, LoadBlock, BlockLoaded
  <2> QED
    BY <1>2, <2>1 DEF Running
<1>8. CASE RunImmediate
  BY <1>2, <1>8 DEF RunImmediate, Running
<1> QED
  BY <1>3, <1>4, <1>5, <1>6, <1>7, <1>8 DEF Next

-----------------------------------------------------------------------------
(* The invariant is inductive *)

LEMMA Initially == Init => IInv
<1> SUFFICES ASSUME Init PROVE IInv
  OBVIOUS
<1>1. /\ at = [t \in Tasks |-> "new"] /\ queue = <<>> /\ worker = None /\ called = {}
      /\ timedOut = {} /\ immediates = <<>> /\ answers = [t \in Tasks |-> 0]
      /\ state = {} /\ saved = {} /\ copy = [t \in Tasks |-> None] /\ syncing = FALSE
  BY DEF Init
<1>2. TypeOK
  <2>1. QueueType
    BY <1>1 DEF QueueType
  <2>2. immediates \in Seq(Callback) /\ answers \in [Tasks -> Nat]
    BY <1>1
  <2>3. CallType
    BY <1>1, <2>2 DEF CallType
  <2>4. StateType
    BY <1>1 DEF StateType
  <2> QED
    BY <2>1, <2>3, <2>4, TypeParts
<1>3. QueueDistinct /\ NextOfWorker /\ NothingLost /\ SyncingIsSync
  BY <1>1 DEF QueueDistinct, NextOfWorker, NothingLost, SyncingIsSync
<1>4. WorkerUncalled /\ GivenUp
  BY <1>1 DEF WorkerUncalled, GivenUp, Begun
<1>5. AnswerPending
  BY <1>1 DEF AnswerPending
<1>6. CopyKept
  BY <1>1 DEF CopyKept
<1> QED
  BY <1>2, <1>3, <1>4, <1>5, <1>6 DEF IInv

LEMMA Stutter == IInv /\ UNCHANGED vars => IInv'
<1> SUFFICES ASSUME IInv, UNCHANGED vars PROVE IInv'
  OBVIOUS
<1>1. UNCHANGED <<at, queue, worker, called, timedOut, immediates, answers, state, copy, saved, syncing>>
  BY DEF vars
<1>2. TypeOK' /\ QueueDistinct' /\ NothingLost' /\ AnswerPending' /\ NextOfWorker'
  BY <1>1 DEF IInv, TypeOK, Begun, QueueDistinct, NothingLost, AnswerPending, NextOfWorker
<1>3. WorkerUncalled' /\ GivenUp' /\ CopyKept' /\ SyncingIsSync'
  BY <1>1 DEF IInv, WorkerUncalled, GivenUp, CopyKept, SyncingIsSync, Begun, Running
<1> QED
  BY <1>2, <1>3 DEF IInv

LEMMA Invariant == Spec => []IInv
<1>1. IInv /\ Next => IInv'
  <2> SUFFICES ASSUME IInv, Next PROVE IInv'
    OBVIOUS
  <2>1. /\ TypeOK /\ QueueDistinct /\ WorkerUncalled /\ GivenUp /\ NextOfWorker
        /\ AnswerPending /\ NothingLost /\ CopyKept /\ SyncingIsSync
    BY DEF IInv
  <2>2. TypeOK' /\ QueueDistinct' /\ WorkerUncalled' /\ GivenUp' /\ NextOfWorker'
    BY <2>1, TypeStep, WorkerUncalledStep, GivenUpStep, NextOfWorkerStep
  <2>3. AnswerPending' /\ NothingLost' /\ CopyKept' /\ SyncingIsSync'
    BY <2>1, AnswerPendingStep, CopyStep, SyncingStep
  <2> QED
    BY <2>2, <2>3 DEF IInv
<1> QED
  BY <1>1, Initially, Stutter, PTL DEF Spec

-----------------------------------------------------------------------------
(***************************************************************************)
(* The state has its shape, however many tasks there are: the queue holds  *)
(* those that wait and waits for one that has begun (Sequence).            *)
(***************************************************************************)
THEOREM TypeCorrect == Spec => []TypeOK
<1>1. IInv => TypeOK
  BY DEF IInv
<1> QED
  BY <1>1, Invariant, PTL

(***************************************************************************)
(* Of two bodies that run at once, one was given up by the timer: an       *)
(* answer that comes late, or twice, does not start a second task          *)
(* (Sequence.add and tick).                                                *)
(***************************************************************************)
THEOREM OneAtATimeCorrect == Spec => []OneAtATime
<1>1. IInv => OneAtATime
  BY DEF IInv, OneAtATime, WorkerUncalled, GivenUp, Running, Begun
<1> QED
  BY <1>1, Invariant, PTL

(***************************************************************************)
(* As long as every task calls back in time, no setState loses what an     *)
(* earlier one saved (StateHelper.getState and setState).                  *)
(***************************************************************************)
THEOREM NothingLostCorrect == Spec => []NothingLost
<1>1. IInv => NothingLost
  BY DEF IInv
<1> QED
  BY <1>1, Invariant, PTL

(***************************************************************************)
(* Whoever sent a transaction gets one answer at most, though the body,    *)
(* an exception and the timer may all call back (tick of sequence.ts).     *)
(***************************************************************************)
THEOREM AnsweredOnceCorrect == Spec => []AnsweredOnce
<1>1. IInv => AnsweredOnce
  <2> SUFFICES ASSUME IInv, NEW t \in Tasks PROVE answers[t] <= 1
    BY DEF AnsweredOnce
  <2>1. answers[t] \in {0, 1}
    BY DEF IInv, AnswerPending
  <2> QED
    BY <2>1
<1> QED
  BY <1>1, Invariant, PTL

(***************************************************************************)
(* Whenever privSyncing is set a sync is running, so that some step of it  *)
(* is left to clear the flag (Loader.startSyncBlocks, syncBlocksFromPeer). *)
(***************************************************************************)
THEOREM SyncingIsSyncCorrect == Spec => []SyncingIsSync
<1>1. IInv => SyncingIsSync
  BY DEF IInv
<1> QED
  BY <1>1, Invariant, PTL

=============================================================================
