------------------------------- MODULE Workers -------------------------------
(* Waiting on workers (lib/wm.ts): the objects that stand for worker threads  *)
(* in one process, the waits and event streams on them, and the one poller    *)
(* that reads each awaited worker's log in bb (lib/thread/turn.ts) and then   *)
(* the list of threads.  Everything runs in one event loop, so what happens   *)
(* between two awaits is one step; bb, the workers and other callers go on    *)
(* whenever the poller awaits an answer.                                      *)
EXTENDS Naturals, Sequences, FiniteSets
LOCAL INSTANCE FiniteSetsExt
LOCAL INSTANCE Functions

CONSTANTS
  Worker,      \* handles
  Running,     \* those whose threads are there at first
  Streamed,    \* those whose events are listened to
  Waiter,      \* calls of wait()
  MaxLog,      \* bound: events in the threads' logs
  MaxMishaps  \* bound: answers and launches that fail, threads that end

VARIABLES
  thread,   \* each worker's thread in bb, with its log
  worker,   \* each worker's object
  call,     \* each call of wait()
  stream,   \* workers whose events are listened to
  poll,     \* the poller's tick
  timer,    \* a tick is scheduled
  had,      \* history: the last turn that a caller of each worker was told of
  last,     \* history: the last turn reported of each worker, and whether with a reason
  mishaps

vars == <<thread, worker, call, stream, poll, timer, had, last, mishaps>>
-------------------------------------------------------------------------------
Unset == MaxLog + 1
Off == [at |-> "off", done |-> {}, on |-> {}, turn |-> 0, seq |-> 0, why |-> FALSE, threads |-> {}, late |-> {}]
Exited == 0  \* among outcomes; the others are the numbers of turns
Over == [at |-> "none", on |-> {}, all |-> FALSE, got |-> {}]

Init ==
  /\ thread = [w \in Worker |-> [at |-> IF w \in Running THEN "live" ELSE "none", log |-> <<>>]]
  /\ worker = [w \in Worker |-> [at |-> "none", cursor |-> Unset, base |-> 0, ended |-> FALSE,
                                 unread |-> <<>>]]
  /\ call = [c \in Waiter |-> Over]
  /\ stream = {} /\ poll = Off /\ timer = FALSE
  /\ had = [w \in Worker |-> 0] /\ last = [w \in Worker |-> [turn |-> 0, why |-> FALSE]]
  /\ mishaps = 0

Mishap == mishaps < MaxMishaps /\ mishaps' = mishaps + 1

Pending(c, w) == call[c].at = "open" /\ w \in call[c].on \ call[c].got
awaited(w) == w \in stream \/ \E c \in Waiter : Pending(c, w)
Known == {w \in Worker : worker[w].at # "none" /\ ~worker[w].ended}
Awaited == {w \in Known : awaited(w)}

-------------------------------------------------------------------------------
(* A thread's log.                                                            *)
Turns(log, after) == {n \in DOMAIN log : n > after /\ log[n] \in {"said", "failed"}}
Errors(log, after) == {n \in DOMAIN log : n > after /\ log[n] = "error"}

(* A mutant: what was read is not read again.                                 *)
readOnce(log, after) ==
  LET turns == Turns(log, after)
      done == IF turns = {} THEN after ELSE Max(turns)
  IN  [turn |-> IF turns = {} THEN 0 ELSE done, seq |-> Len(log),
       why |-> \E n \in Errors(log, after) : n < done]

(* The newest turn since `after`, the reason that was logged before it, and   *)
(* where the next read begins: before an error whose turn is still to end.    *)
readTurn(log, after) ==
  LET turns == Turns(log, after)
      done == IF turns = {} THEN after ELSE Max(turns)
      pending == Errors(log, done)
  IN  [turn |-> IF turns = {} THEN 0 ELSE done,
       seq |-> IF pending = {} THEN Len(log) ELSE Min(pending) - 1,
       why |-> \E n \in Errors(log, after) : n < done]

-------------------------------------------------------------------------------
(* Outcomes.                                                                  *)

(* A call is over when it has what it waits for; its other waits are          *)
(* withdrawn.                                                                 *)
Told(c, w) ==
  LET got == c.got \cup {w}
  IN  IF ~c.all \/ got = c.on THEN Over ELSE [c EXCEPT !.got = got]

(* A mutant: only those who wait at that moment are told.                     *)
emitNow(w, outcome, objects) ==
  IF worker[w].ended THEN worker' = objects /\ UNCHANGED <<call, had>>
  ELSE /\ call' = [c \in Waiter |-> IF Pending(c, w) THEN Told(call[c], w) ELSE call[c]]
       /\ worker' = objects
       /\ had' = [had EXCEPT ![w] = IF awaited(w) THEN Max({@, outcome}) ELSE @]

(* All who wait are told; what nobody waits for is kept for the next who does.*)
emit(w, outcome, objects) ==
  IF worker[w].ended THEN worker' = objects /\ UNCHANGED <<call, had>>
  ELSE /\ call' = [c \in Waiter |-> IF Pending(c, w) THEN Told(call[c], w) ELSE call[c]]
       /\ worker' = [objects EXCEPT ![w].unread = IF awaited(w) THEN @ ELSE Append(@, outcome)]
       /\ had' = [had EXCEPT ![w] = IF awaited(w) THEN Max({@, outcome}) ELSE @]

(* After its exit the poller forgets a worker, and its timer with the last one.*)
Exit(w) ==
  /\ emit(w, Exited, [worker EXCEPT ![w].ended = TRUE])
  /\ timer' = (timer /\ Awaited \ {w} # {})

(* next() of each worker of a call: an unread outcome first, or the exit.     *)
At(w) == IF worker[w].unread # <<>> THEN {Head(worker[w].unread)}
         ELSE IF worker[w].ended THEN {Exited} ELSE {}

Wait(c, on, all) ==
  LET now == {w \in on : At(w) # {}}
      over == now = on \/ (~all /\ now # {})
  IN  /\ call[c].at = "none" /\ on # {} /\ \A w \in on : worker[w].at = "here"
      /\ call' = [call EXCEPT ![c] = IF over THEN Over ELSE [at |-> "open", on |-> on, all |-> all, got |-> now]]
      /\ worker' = [w \in Worker |-> IF w \in now /\ worker[w].unread # <<>>
                                     THEN [worker[w] EXCEPT !.unread = Tail(@)] ELSE worker[w]]
      /\ had' = [w \in Worker |-> Max({had[w]} \cup At(w))]
      /\ timer' = (timer \/ now # on)
      /\ UNCHANGED <<thread, stream, poll, last, mishaps>>

(* A timeout or the caller's signal.                                          *)
Abort(c) ==
  /\ call[c].at = "open"
  /\ call' = [call EXCEPT ![c] = Over]
  /\ UNCHANGED <<thread, worker, stream, poll, timer, had, last, mishaps>>

(* A stream of events begins with what happens next.                          *)
Listen(w) ==
  /\ w \in Streamed /\ worker[w].at = "here" /\ w \notin stream /\ ~worker[w].ended
  /\ stream' = stream \cup {w} /\ timer' = TRUE
  /\ UNCHANGED <<thread, worker, call, poll, had, last, mishaps>>

Unlisten(w) ==
  /\ w \in stream /\ stream' = stream \ {w}
  /\ UNCHANGED <<thread, worker, call, poll, timer, had, last, mishaps>>
-------------------------------------------------------------------------------
(* The poller.                                                                *)
Others == UNCHANGED <<thread, stream, mishaps>>
Silent == UNCHANGED <<worker, call, had, last>>
Visited(w) == poll' = [Off EXCEPT !.at = "turns", !.done = poll.done \cup {w}]

Fire ==
  /\ timer /\ poll.at = "off" /\ timer' = FALSE
  /\ poll' = IF Awaited = {} THEN Off ELSE [Off EXCEPT !.at = "turns"]
  /\ Silent /\ Others

(* A worker's turn is looked for if somebody waits for it by then.  A worker  *)
(* reattached reports what comes after the first look at its log.             *)
Passed(w) ==
  /\ poll.at = "turns" /\ w \in Known \ poll.done
  /\ w \notin Awaited \/ worker[w].at # "here"
  /\ Visited(w) /\ UNCHANGED timer /\ Silent /\ Others

Turn(w) ==
  LET first == worker[w].cursor = Unset
      read == readTurn(thread[w].log, IF first THEN 0 ELSE worker[w].cursor)
  IN  /\ poll.at = "turns" /\ w \in Awaited \ poll.done /\ worker[w].at = "here"
      /\ IF first \/ read.turn = 0
         THEN /\ worker' = [worker EXCEPT ![w].cursor = read.seq, ![w].base = IF first THEN read.seq ELSE @]
              /\ Visited(w)
         ELSE /\ poll' = [poll EXCEPT !.at = "outputs", !.on = {w}, !.turn = read.turn,
                                       !.seq = read.seq, !.why = read.why]
              /\ UNCHANGED worker
      /\ UNCHANGED <<timer, call, had, last>> /\ Others

(* The message is asked for too, then the turn is reported.                   *)
Output(w) ==
  /\ poll.at = "outputs" /\ w \in poll.on
  /\ emit(w, poll.turn, [worker EXCEPT ![w].cursor = poll.seq])
  /\ last' = [last EXCEPT ![w] = [turn |-> poll.turn, why |-> poll.why]]
  /\ Visited(w) /\ UNCHANGED timer /\ Others

AnswerFails(w) ==
  /\ Mishap
  /\ \/ poll.at = "turns" /\ w \in Awaited \ poll.done /\ worker[w].at = "here"
     \/ poll.at = "outputs" /\ w \in poll.on
  /\ Visited(w) /\ UNCHANGED <<thread, stream, timer>> /\ Silent

(* The threads are listed once, and every worker is looked up in that list.   *)
Listing == poll.at = "turns" /\ Known \subseteq poll.done

Threads ==
  /\ Listing
  /\ poll' = [Off EXCEPT !.at = "observes", !.threads = {w \in Worker : thread[w].at = "live"}]
  /\ UNCHANGED timer /\ Silent /\ Others

(* The tick ends, and another one is scheduled while anybody waits.           *)
ThreadsFail ==
  /\ Mishap /\ Listing
  /\ poll' = Off /\ timer' = (timer \/ Awaited # {})
  /\ Silent /\ UNCHANGED <<thread, stream>>

observe(w) ==
  /\ poll.at = "observes" /\ w \in Known \ poll.done
  /\ poll' = [poll EXCEPT !.done = @ \cup {w}]
  /\ IF w \in Awaited \ poll.threads /\ worker[w].at = "here"
     THEN Exit(w) /\ UNCHANGED last
     ELSE UNCHANGED timer /\ Silent
  /\ Others

(* A mutant: the next tick is left to the next who waits.                     *)
EndStill ==
  /\ poll.at = "observes" /\ Known \subseteq poll.done
  /\ poll' = Off /\ UNCHANGED timer
  /\ Silent /\ Others

End ==
  /\ poll.at = "observes" /\ Known \subseteq poll.done
  /\ poll' = Off /\ timer' = (timer \/ Awaited # {})
  /\ Silent /\ Others
-------------------------------------------------------------------------------
(* Workers come and go.                                                       *)
Quiet == UNCHANGED <<call, stream, timer, had, last>>

attach(w) ==
  /\ worker[w].at = "none" /\ thread[w].at # "none"
  /\ worker' = [worker EXCEPT ![w].at = "here"]
  /\ UNCHANGED <<thread, poll, mishaps>> /\ Quiet

spawn(w) ==
  /\ worker[w].at = "none" /\ thread[w].at = "none"
  /\ worker' = [worker EXCEPT ![w].at = "launching"]
  /\ UNCHANGED <<thread, poll, mishaps>> /\ Quiet

Created(w) ==
  /\ worker[w].at = "launching" /\ thread[w].at = "none"
  /\ thread' = [thread EXCEPT ![w].at = "live"]
  /\ UNCHANGED <<worker, poll, mishaps>> /\ Quiet

Spawned(w) ==
  /\ worker[w].at = "launching" /\ thread[w].at # "none"
  /\ worker' = [worker EXCEPT ![w].at = "here", ![w].cursor = 0]
  /\ poll' = [poll EXCEPT !.late = IF poll.at = "observes" THEN @ \cup {w} ELSE @]
  /\ UNCHANGED <<thread, mishaps>> /\ Quiet

(* A launch that fails takes its thread along.                                *)
SpawnFails(w) ==
  /\ Mishap /\ worker[w].at = "launching"
  /\ worker' = [worker EXCEPT ![w].at = "none"]
  /\ thread' = [thread EXCEPT ![w].at = IF @ = "live" THEN "gone" ELSE @]
  /\ UNCHANGED poll /\ Quiet

(* The thread's own events, a failed turn after its error; it may be archived *)
(* by anybody.                                                                *)
Log(w, event) ==
  /\ thread[w].at = "live" /\ MapThenSumSet(LAMBDA v : Len(thread[v].log), Worker) < MaxLog
  /\ event = "failed" => thread[w].log # <<>> /\ thread[w].log[Len(thread[w].log)] = "error"
  /\ thread' = [thread EXCEPT ![w].log = Append(@, event)]
  /\ UNCHANGED <<worker, poll, mishaps>> /\ Quiet

Archive(w) ==
  /\ Mishap /\ thread[w].at = "live"
  /\ thread' = [thread EXCEPT ![w].at = "gone"]
  /\ UNCHANGED <<worker, poll>> /\ Quiet

(* close(): the thread is abandoned, then whoever waits is told.              *)
close(w) ==
  /\ worker[w].at = "here" /\ thread[w].at = "gone" /\ ~worker[w].ended
  /\ Exit(w) /\ UNCHANGED <<thread, stream, poll, last, mishaps>>
-------------------------------------------------------------------------------
Poll ==
  \/ Fire \/ Threads \/ End
  \/ \E w \in Worker : Passed(w) \/ Turn(w) \/ Output(w) \/ observe(w)

Next ==
  \/ Poll \/ ThreadsFail
  \/ \E c \in Waiter : \/ Abort(c)
                     \/ \E on \in SUBSET Worker, all \in BOOLEAN : (all => on = Worker) /\ Wait(c, on, all)
  \/ \E w \in Worker : \/ Listen(w) \/ Unlisten(w) \/ AnswerFails(w)
                      \/ attach(w) \/ spawn(w) \/ Created(w) \/ Spawned(w) \/ SpawnFails(w)
                      \/ Archive(w) \/ close(w)
                      \/ \E event \in {"said", "failed", "error"} : Log(w, event)

Spec == Init /\ [][Next]_vars
-------------------------------------------------------------------------------
TypeOK ==
  /\ \A w \in Worker : worker[w].cursor \in 0..Unset /\ worker[w].base <= worker[w].cursor
  /\ \A c \in Waiter : call[c].got \subseteq call[c].on
  /\ stream \subseteq Worker /\ poll.on \subseteq Worker

(* No turn is swallowed: the last of those that the poller has read past is   *)
(* with a caller or kept for the next one, whoever stopped waiting while bb   *)
(* was asked and however many waited.                                         *)
NothingSwallowed ==
  \A w \in Worker :
    LET read == {n \in Turns(thread[w].log, worker[w].base) : n <= worker[w].cursor}
        kept == {had[w]} \cup {worker[w].unread[i] : i \in DOMAIN worker[w].unread}
    IN  worker[w].cursor # Unset /\ ~worker[w].ended /\ read # {} => Max(read) \in kept

(* What is said of a worker is so: turns are reported in order and once, one  *)
(* that failed with the reason logged before it, and an exit is announced of  *)
(* a thread that is gone (or was launched while the list was on its way).     *)
SaidIsSo ==
  [][\A w \in Worker :
       LET n == last'[w].turn
           log == thread[w].log
       IN  /\ last'[w] # last[w] =>
                /\ n > last[w].turn
                /\ log[n] = "failed" => last'[w].why
           /\ worker'[w].ended /\ ~worker[w].ended => thread[w].at # "live" \/ w \in poll.late]_vars

(* No wake-up is lost: while anybody waits for a worker that has not ended, a *)
(* tick runs or is scheduled, whichever order launches, exits, answers that   *)
(* fail and waiters that leave come in.                                       *)
NobodySleeps == Awaited # {} => timer \/ poll.at # "off"
=============================================================================
