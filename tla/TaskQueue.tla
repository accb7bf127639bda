----------------------------- MODULE TaskQueue ------------------------------
(***************************************************************************)
(* The Sequence of a node and the tasks that go through it.  All that      *)
(* changes global.state is a task; one task begins after the other has     *)
(* called back, which is why Consensus and Execution take a task for one   *)
(* step.  A task that does not call back in time is given up: the queue    *)
(* goes on, and so does its body.                                          *)
(*                                                                         *)
(* global.state is the set of tasks whose setState it shows.               *)
(***************************************************************************)
EXTENDS Naturals, Sequences, FiniteSets

CONSTANTS
  Tasks,
  Kind,       \* the handler a task runs
  None

Kinds == {"propose", "transaction", "block", "startSync", "peerSync"}

ASSUME TaskQueueAssumption ==
  /\ Kind \in [Tasks -> Kinds]
  /\ None \notin Tasks

VARIABLES
  at,           \* where the body of a task is
  queue,        \* tasks that wait
  worker,       \* the task the queue waits for
  called,       \* isCallbacked
  timedOut,     \* history: the tasks that were given up
  immediates,   \* callbacks of setImmediate, in order
  answers,      \* how often the callback of a task was called
  state,        \* global.state
  copy,         \* what getState returned to a body
  saved,        \* history: the tasks that called setState
  syncing       \* privSyncing

stateVars == <<state, copy, saved>>
callVars  == <<called, immediates>>
vars == <<at, queue, worker, called, timedOut, immediates, answers, state, copy, saved, syncing>>

IsSync(t) == Kind[t] \in {"startSync", "peerSync"}
Running(t) == at[t] \in {"rollback", "running"}
Begun(t) == at[t] \notin {"new", "queued"}

(* task.done: only the senders of transactions wait for an answer *)
HasCaller(t) == Kind[t] = "transaction"

-----------------------------------------------------------------------------
(* Sequence *)

(* add: all but transactions are dropped before the queue while a sync runs *)
Add(t) ==
  /\ at[t] = "new"
  /\ Kind[t] = "transaction" \/ ~ syncing
  /\ at' = [at EXCEPT ![t] = "queued"]
  /\ queue' = Append(queue, t)
  /\ UNCHANGED <<worker, callVars, timedOut, answers, stateVars, syncing>>

Callbacks(t) ==
  IF HasCaller(t) THEN <<[run |-> "answer", task |-> t], [run |-> "next", task |-> t]>>
                  ELSE <<[run |-> "next", task |-> t]>>

(* Mutant: isCallbacked is not set *)
DoneUnmarked(t) ==
  /\ called' = called
  /\ immediates' = IF t \in called THEN immediates ELSE immediates \o Callbacks(t)

(* done of tick *)
Done(t) ==
  /\ called' = called \cup {t}
  /\ immediates' = IF t \in called THEN immediates ELSE immediates \o Callbacks(t)

(* Mutant: a second task at once *)
FreeOfTwo(t) == queue # <<>> /\ t = Head(queue) /\ Cardinality({u \in Tasks : Running(u)}) <= 1

(* queue(tick, 1) *)
Free(t) == queue # <<>> /\ t = Head(queue) /\ worker = None

Begin(t, place) ==
  /\ Free(t)
  /\ queue' = Tail(queue)
  /\ worker' = t
  /\ at' = [at EXCEPT ![t] = place]
  /\ UNCHANGED <<timedOut, answers, state, saved>>

(* Mutant: a task may take as long as it takes *)
TimeoutNever(t) == FALSE

(* A body that is given up goes on *)
Timeout(t) ==
  /\ Begun(t) /\ t \notin called
  /\ timedOut' = timedOut \cup {t}
  /\ Done(t)
  /\ UNCHANGED <<at, queue, worker, answers, stateVars, syncing>>

RunImmediate ==
  /\ immediates # <<>>
  /\ immediates' = Tail(immediates)
  /\ \/ /\ Head(immediates).run = "answer"
        /\ answers' = [answers EXCEPT ![Head(immediates).task] = @ + 1]
        /\ UNCHANGED worker
     \/ /\ Head(immediates).run = "next"
        /\ worker' = None
        /\ UNCHANGED answers
  /\ UNCHANGED <<at, queue, called, timedOut, stateVars, syncing>>

-----------------------------------------------------------------------------
(* Bodies *)

(* onReceiveBlock, onReceiveVotes, onReceivePropose, loop: state = getState() *)
BeginTask(t) ==
  /\ Kind[t] \in {"block", "propose"}
  /\ Begin(t, "running")
  /\ copy' = [copy EXCEPT ![t] = state]
  /\ UNCHANGED <<callVars, syncing>>

(* onReceiveTransaction while a sync that was given up is running *)
RefuseTransaction(t) ==
  /\ Kind[t] = "transaction" /\ syncing
  /\ Begin(t, "ended")
  /\ Done(t)
  /\ UNCHANGED <<copy, syncing>>

(* It changes the pool and the session, never the state *)
BeginTransaction(t) ==
  /\ Kind[t] = "transaction" /\ ~ syncing
  /\ Begin(t, "running")
  /\ UNCHANGED <<callVars, copy, syncing>>

(* The bodies that are no async functions may throw into tick *)
Throw(t) ==
  /\ Kind[t] \in {"propose", "transaction"}
  /\ Begin(t, "ended")
  /\ Done(t)
  /\ UNCHANGED <<copy, syncing>>

BeginSync(t) ==
  /\ IsSync(t)
  /\ Begin(t, IF Kind[t] = "peerSync" THEN "rollback" ELSE "running")
  /\ syncing' = TRUE
  /\ UNCHANGED <<callVars, copy>>

End(t) ==
  /\ at[t] = "running"
  /\ at' = [at EXCEPT ![t] = "ended"]
  /\ Done(t)
  /\ UNCHANGED <<queue, worker, timedOut, answers>>

SetState(t) ==
  /\ copy[t] # None
  /\ state' = copy[t] \cup {t}
  /\ saved' = saved \cup {t}
  /\ copy' = [copy EXCEPT ![t] = None]

(* The task succeeds, and its copy becomes the state *)
EndTask(t) ==
  /\ ~ IsSync(t) /\ End(t)
  /\ SetState(t)
  /\ UNCHANGED syncing

(* It fails and calls back, without its copy; transactions end here as well *)
FailTask(t) ==
  /\ ~ IsSync(t) /\ End(t)
  /\ UNCHANGED <<stateVars, syncing>>

(* Mutant: the flag is left to the end of the requests *)
RollbackFailsSyncing(t) ==
  /\ at[t] = "rollback"
  /\ at' = [at EXCEPT ![t] = "ended"]
  /\ UNCHANGED <<queue, worker, callVars, timedOut, answers, stateVars, syncing>>

(* syncBlocksFromPeer throws without calling back: only the timer ends it *)
RollbackFails(t) ==
  /\ at[t] = "rollback"
  /\ at' = [at EXCEPT ![t] = "ended"]
  /\ syncing' = FALSE
  /\ UNCHANGED <<queue, worker, callVars, timedOut, answers, stateVars>>

RollbackSucceeds(t) ==
  /\ at[t] = "rollback"
  /\ at' = [at EXCEPT ![t] = "running"]
  /\ UNCHANGED <<queue, worker, callVars, timedOut, answers, stateVars, syncing>>

(* A sync gets the state before each block it processes, and sets it after *)
LoadBlock(t) ==
  /\ IsSync(t) /\ at[t] = "running"
  /\ copy' = [copy EXCEPT ![t] = state]
  /\ UNCHANGED <<at, queue, worker, callVars, timedOut, answers, state, saved, syncing>>

BlockLoaded(t) ==
  /\ IsSync(t) /\ at[t] = "running"
  /\ SetState(t)
  /\ UNCHANGED <<at, queue, worker, callVars, timedOut, answers, syncing>>

EndSync(t) ==
  /\ IsSync(t) /\ End(t)
  /\ syncing' = FALSE
  /\ UNCHANGED stateVars

-----------------------------------------------------------------------------
Init ==
  /\ at = [t \in Tasks |-> "new"]
  /\ queue = <<>> /\ worker = None
  /\ called = {} /\ timedOut = {} /\ immediates = <<>>
  /\ answers = [t \in Tasks |-> 0]
  /\ state = {} /\ saved = {} /\ copy = [t \in Tasks |-> None]
  /\ syncing = FALSE

BeginAny(t) == BeginTask(t) \/ RefuseTransaction(t) \/ BeginTransaction(t) \/ Throw(t) \/ BeginSync(t)

Next ==
  \/ RunImmediate
  \/ \E t \in Tasks :
       \/ Add(t) \/ Timeout(t)
       \/ BeginTask(t) \/ RefuseTransaction(t) \/ BeginTransaction(t) \/ Throw(t) \/ BeginSync(t)
       \/ EndTask(t) \/ FailTask(t)
       \/ RollbackFails(t) \/ RollbackSucceeds(t)
       \/ LoadBlock(t) \/ BlockLoaded(t) \/ EndSync(t)

(***************************************************************************)
(* Node.js runs what setImmediate and setTimeout were given, and the queue *)
(* begins the next task.  Nothing is assumed of bodies: they may wait for  *)
(* a peer for ever.                                                        *)
(***************************************************************************)
Fairness ==
  /\ WF_vars(RunImmediate)
  /\ \A t \in Tasks : WF_vars(Timeout(t)) /\ WF_vars(BeginAny(t))

Spec == Init /\ [][Next]_vars /\ Fairness

-----------------------------------------------------------------------------
Callback == [run : {"answer", "next"}, task : Tasks]

(***************************************************************************)
(* The shape of the state: the tasks that wait are those in the queue, and *)
(* the queue waits for one that has begun.                                 *)
(***************************************************************************)
TypeOK ==
  /\ at \in [Tasks -> {"new", "queued", "rollback", "running", "ended"}]
  /\ queue \in Seq(Tasks) /\ \A i \in 1 .. Len(queue) : at[queue[i]] = "queued"
  /\ worker \in Tasks \cup {None} /\ (worker # None => Begun(worker))
  /\ timedOut \subseteq called /\ called \subseteq {t \in Tasks : Begun(t)}
  /\ immediates \in Seq(Callback)
  /\ answers \in [Tasks -> Nat]
  /\ state \subseteq Tasks /\ saved \subseteq Tasks
  /\ copy \in [Tasks -> (SUBSET Tasks) \cup {None}]
  /\ syncing \in BOOLEAN

(***************************************************************************)
(* Two bodies run at once only after one of them was given up: this is     *)
(* what lets the other modules take a task for one step (sequence.ts:44).  *)
(***************************************************************************)
OneAtATime ==
  \A t, u \in Tasks : Running(t) /\ Running(u) /\ t # u => t \in timedOut \/ u \in timedOut

(***************************************************************************)
(* No setState is overwritten by a task that got the state before it, as   *)
(* long as no task takes too long (StateHelper.getState, setState).        *)
(***************************************************************************)
NothingLost == timedOut = {} => saved \subseteq state

(***************************************************************************)
(* Who sent a transaction is answered once, whatever comes first: the      *)
(* answer, an exception or the timer.                                      *)
(***************************************************************************)
AnsweredOnce == \A t \in Tasks : answers[t] <= 1

(***************************************************************************)
(* privSyncing does not stay when no sync is running, which would make the *)
(* node drop blocks, votes and proposes for ever (loader.ts:248).          *)
(***************************************************************************)
SyncingIsSync == syncing => \E t \in Tasks : IsSync(t) /\ Running(t)

(***************************************************************************)
(* Every task that was added begins, and its sender is answered, though    *)
(* the bodies before it may never call back.                               *)
(***************************************************************************)
Served ==
  \A t \in Tasks : at[t] = "queued" ~> Begun(t) /\ (HasCaller(t) => answers[t] > 0)

=============================================================================
