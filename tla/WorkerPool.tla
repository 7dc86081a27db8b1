---- MODULE WorkerPool ----
\* The request inspection pool (internal/inspection/requestworker): callers of
\* Inspect, a fixed set of workers, each with a private Suricata process driven
\* over its command socket (internal/inspection/suricata_socket), and Close.
\* The process itself is external: it takes a submitted file, writes its EVE
\* output while it reads it and ends it with the terminal flow record.
EXTENDS Naturals, Sequences, FiniteSets, FiniteSetsExt

CONSTANTS
  Client,      \* calls of Inspect
  Worker,      \* Config.WorkerCount workers
  None,        \* no job
  QueueItems, QueueBytes,
  Size,        \* bytes of each call's PCAP
  MaxFlowID    \* the last flow id

VARIABLES
  pool,        \* the pool's own fields
  jobs,        \* the queue
  call,        \* callers: where they are, their flow id and their answer
  worker,      \* workers: where they are, their job, what they polled, its outcome
  session      \* Suricata sessions: closed, alive, and the file in the process

vars == <<pool, jobs, call, worker, session>>

Slots == QueueItems + Cardinality(Worker)
Builders == Cardinality(Worker)

IdleCall == [pc |-> "idle", flow |-> 0, expired |-> FALSE, result |-> "none", answer |-> "none"]
IdleWorker == [pc |-> "idle", job |-> None, seen |-> {}, out |-> "none"]
NoFile == [job |-> None, at |-> "none", eve |-> "none"]
Stopped == [closed |-> TRUE, alive |-> FALSE, file |-> NoFile]
Ready == [closed |-> FALSE, alive |-> TRUE, file |-> NoFile]

\* A pool that starts, and one of which all but one of the flow ids are used.
Init ==
  /\ \E used \in {0, MaxFlowID - 1} :
       pool = [phase |-> "starting", cancelled |-> FALSE, failed |-> FALSE, slots |-> 0,
               builders |-> 0, inFlight |-> 0, bytes |-> 0, flowID |-> used]
  /\ jobs = <<>>
  /\ call = [c \in Client |-> IdleCall]
  /\ worker = [w \in Worker |-> [IdleWorker EXCEPT !.pc = "none"]]
  /\ session = [w \in Worker |-> Stopped]

Closed == pool.phase \in {"closing", "stopping", "waiting", "closed"}

----
\* New, with ProductionFactory for each session.
StartSession(w) ==
  /\ pool.phase = "starting" /\ session[w] = Stopped
  /\ session' = [session EXCEPT ![w] = Ready]
  /\ UNCHANGED <<pool, jobs, call, worker>>

\* One session that does not start closes those that did.
StartFails ==
  /\ pool.phase = "starting"
  /\ \E w \in Worker : session[w] = Stopped
  /\ pool' = [pool EXCEPT !.phase = "refused", !.cancelled = TRUE]
  /\ session' = [w \in Worker |-> Stopped]
  /\ UNCHANGED <<jobs, call, worker>>

Started ==
  /\ pool.phase = "starting"
  /\ \A w \in Worker : session[w] # Stopped
  /\ pool' = [pool EXCEPT !.phase = "open"]
  /\ worker' = [w \in Worker |-> IdleWorker]
  /\ UNCHANGED <<jobs, call, session>>

----
\* Inspect.

Answer(c, a) == call' = [call EXCEPT ![c].pc = "done", ![c].answer = a]

\* Leave before the job is queued: the slot and the builder are given back.
Abandon(c, a) ==
  /\ pool' = [pool EXCEPT !.slots = @ - 1, !.builders = @ - 1]
  /\ Answer(c, a)

Inspect(c) ==
  /\ call[c].pc = "idle" /\ pool.phase # "starting" /\ pool.phase # "refused"
  /\ IF Closed \/ pool.cancelled \/ pool.failed THEN Answer(c, "unavailable")
     ELSE call' = [call EXCEPT ![c].pc = "slot"]
  /\ UNCHANGED <<pool, jobs, worker, session>>

TakeSlot(c) ==
  /\ call[c].pc = "slot"
  /\ IF pool.slots < Slots
     THEN pool' = [pool EXCEPT !.slots = @ + 1] /\ call' = [call EXCEPT ![c].pc = "builder"]
     ELSE Answer(c, "full") /\ UNCHANGED pool
  /\ UNCHANGED <<jobs, worker, session>>

TakeBuilder(c) ==
  /\ call[c].pc = "builder"
  /\ IF pool.builders < Builders
     THEN pool' = [pool EXCEPT !.builders = @ + 1] /\ call' = [call EXCEPT ![c].pc = "build"]
     ELSE pool' = [pool EXCEPT !.slots = @ - 1] /\ Answer(c, "full")
  /\ UNCHANGED <<jobs, worker, session>>

\* The flow id is drawn and the PCAP is built for it.
Build(c) ==
  /\ call[c].pc = "build"
  /\ \/ /\ pool.flowID = MaxFlowID
        /\ Abandon(c, "flows")
     \/ /\ pool.flowID < MaxFlowID
        /\ pool' = [pool EXCEPT !.flowID = @ + 1]
        /\ call' = [call EXCEPT ![c].pc = "enqueue", ![c].flow = pool.flowID + 1]
  /\ UNCHANGED <<jobs, worker, session>>


\* requestpcap.Build refuses the request.
BuildFails(c) ==
  /\ call[c].pc = "enqueue"
  /\ Abandon(c, "invalid")
  /\ UNCHANGED <<jobs, worker, session>>

Queued(c) ==
  /\ jobs' = Append(jobs, c)
  /\ pool' = [pool EXCEPT !.builders = @ - 1, !.inFlight = @ + 1, !.bytes = @ + Size[c]]
  /\ call' = [call EXCEPT ![c].pc = "wait"]

\* The critical section that queues the job, which looks at everything again.
Enqueue(c) ==
  /\ call[c].pc = "enqueue"
  /\ CASE Closed \/ pool.cancelled -> Abandon(c, "unavailable") /\ UNCHANGED jobs
       [] ~(Closed \/ pool.cancelled) /\ call[c].expired ->
            Abandon(c, "deadline") /\ UNCHANGED jobs
       [] ~(Closed \/ pool.cancelled) /\ ~call[c].expired
            /\ (pool.bytes + Size[c] > QueueBytes \/ Len(jobs) >= QueueItems) ->
            Abandon(c, "full") /\ UNCHANGED jobs
       [] OTHER -> Queued(c)
  /\ UNCHANGED <<worker, session>>

\* The deadline of the call passes; it includes the wait in the queue.
DeadlinePasses(c) ==
  /\ call[c].pc \in {"build", "enqueue", "wait"} /\ ~call[c].expired
  /\ call' = [call EXCEPT ![c].expired = TRUE]
  /\ UNCHANGED <<pool, jobs, worker, session>>

AwaitResult(c) ==
  /\ call[c].pc = "wait"
  /\ \/ call[c].result # "none" /\ Answer(c, IF call[c].expired THEN "deadline" ELSE call[c].result)
     \/ call[c].expired /\ Answer(c, "deadline")
     \/ pool.cancelled /\ Answer(c, "unavailable")
  /\ UNCHANGED <<pool, jobs, worker, session>>

----
\* worker and run.

Step(w, pc) == worker' = [worker EXCEPT ![w].pc = pc]
End(w, out) == worker' = [worker EXCEPT ![w].pc = "finish", ![w].out = out]

WorkerTakes(w) ==
  /\ worker[w].pc = "idle" /\ jobs # <<>>
  /\ worker' = [worker EXCEPT ![w] =
                  [pc |-> IF call[Head(jobs)].expired THEN "finish" ELSE "run", job |-> Head(jobs),
                   seen |-> {}, out |-> "deadline"]]
  /\ jobs' = Tail(jobs)
  /\ UNCHANGED <<pool, call, session>>

WorkerExits(w) ==
  /\ worker[w].pc = "idle" /\ pool.cancelled
  /\ Step(w, "exit")
  /\ UNCHANGED <<pool, jobs, call, session>>

\* run up to the submission; the job's files may fail to be written.
Prepare(w) ==
  /\ worker[w].pc = "run"
  /\ \/ pool.failed /\ End(w, "unavailable")
     \/ ~pool.failed /\ Step(w, "submit")
     \/ End(w, "unavailable")
  /\ UNCHANGED <<pool, jobs, call, session>>

Interrupted(w) == call[worker[w].job].expired \/ pool.cancelled

\* suricataSession.Run: Submit. The socket and the process may fail at any call.
Submit(w) ==
  /\ worker[w].pc = "submit"
  /\ \/ /\ ~session[w].closed /\ session[w].alive
        /\ session' = [session EXCEPT ![w].file = [job |-> worker[w].job, at |-> "queued", eve |-> "none"]]
        /\ Step(w, "current")
     \/ Step(w, "retire") /\ UNCHANGED session
  /\ UNCHANGED <<pool, jobs, call>>

\* The loop of Run asks for the current file, the queued ones and their number,
\* one exchange each. Another file than the job's is a failure.
PollOrder == [current |-> "queued", queued |-> "depth", depth |-> "read"]

Poll(w) ==
  /\ worker[w].pc \in DOMAIN PollOrder
  /\ LET asked == worker[w].pc
         file == session[w].file
         busy == \/ asked = "current" /\ file.at = "current"
                 \/ asked # "current" /\ file.at = "queued"
     IN  \/ /\ ~session[w].closed /\ session[w].alive
            /\ busy => file.job = worker[w].job
            /\ worker' = [worker EXCEPT ![w].pc = PollOrder[asked],
                                        ![w].seen = @ \cup (IF busy THEN {asked} ELSE {})]
         \/ Step(w, "retire")
  /\ UNCHANGED <<pool, jobs, call, session>>


\* NormalizeEVE: only output with the terminal flow record is complete.
NormalizeEVE(eve) == IF eve = "whole" THEN "clean" ELSE "incomplete"

\* readBoundedEVE, when all three answers were empty; else the next round, unless
\* the call or the pool ended. Missing or empty output is asked for again.
ReadOutput(w) ==
  /\ worker[w].pc = "read"
  /\ \/ /\ worker[w].seen = {} /\ session[w].file.eve # "none"
        /\ End(w, NormalizeEVE(session[w].file.eve))
     \/ /\ worker[w].seen # {} \/ session[w].file.eve = "none"
        /\ ~Interrupted(w)
        /\ worker' = [worker EXCEPT ![w].pc = "current", ![w].seen = {}]
     \/ (Interrupted(w) \/ session[w].closed \/ ~session[w].alive) /\ Step(w, "retire")
  /\ UNCHANGED <<pool, jobs, call, session>>

\* A failed job retires its detector, and with it the pool, before the job ends.
RetirePool(w) ==
  /\ worker[w].pc = "retire"
  /\ pool' = [pool EXCEPT !.failed = TRUE]
  /\ Step(w, "kill")
  /\ UNCHANGED <<jobs, call, session>>

RetireSession(w) ==
  /\ worker[w].pc = "kill"
  /\ session' = [session EXCEPT ![w] = Stopped]
  /\ End(w, "unavailable")
  /\ UNCHANGED <<pool, jobs, call>>

Settled(c) == [pool EXCEPT !.inFlight = @ - 1, !.bytes = @ - Size[c], !.slots = @ - 1]

\* finish
Finish(w) ==
  /\ worker[w].pc = "finish"
  /\ pool' = Settled(worker[w].job)
  /\ call' = [call EXCEPT ![worker[w].job].result = worker[w].out]
  /\ worker' = [worker EXCEPT ![w] = IdleWorker]
  /\ UNCHANGED <<jobs, session>>

----
\* Close, and the cancellation of the context the pool was made with.

ParentCancelled ==
  /\ pool.phase = "open" /\ ~pool.cancelled
  /\ pool' = [pool EXCEPT !.cancelled = TRUE]
  /\ UNCHANGED <<jobs, call, worker, session>>

Close ==
  /\ pool.phase = "open"
  /\ pool' = [pool EXCEPT !.phase = "closing"]
  /\ UNCHANGED <<jobs, call, worker, session>>

CloseCancels ==
  /\ pool.phase = "closing"
  /\ pool' = [pool EXCEPT !.phase = "stopping", !.cancelled = TRUE]
  /\ UNCHANGED <<jobs, call, worker, session>>

CloseSession(w) ==
  /\ pool.phase = "stopping" /\ session[w] # Stopped
  /\ session' = [session EXCEPT ![w] = Stopped]
  /\ UNCHANGED <<pool, jobs, call, worker>>

\* All sessions are closed; the workers are waited for.
CloseWaits ==
  /\ pool.phase = "stopping" /\ \A w \in Worker : session[w] = Stopped
  /\ \A w \in Worker : worker[w].pc = "exit"
  /\ pool' = [pool EXCEPT !.phase = "waiting"]
  /\ UNCHANGED <<jobs, call, worker, session>>

\* What is left in the queue is answered.
CloseDrains ==
  /\ pool.phase = "waiting"
  /\ IF jobs = <<>>
     THEN pool' = [pool EXCEPT !.phase = "closed"] /\ UNCHANGED <<jobs, call>>
     ELSE /\ pool' = Settled(Head(jobs))
          /\ call' = [call EXCEPT ![Head(jobs)].result = "unavailable"]
          /\ jobs' = Tail(jobs)
  /\ UNCHANGED <<worker, session>>

----
\* The Suricata process (external).

FileStarts(w) ==
  /\ session[w].alive /\ session[w].file.at = "queued"
  /\ session' = [session EXCEPT ![w].file.at = "current"]
  /\ UNCHANGED <<pool, jobs, call, worker>>

FileWritten(w) ==
  /\ session[w].alive /\ session[w].file.at = "current" /\ session[w].file.eve = "none"
  /\ session' = [session EXCEPT ![w].file.eve = "partial"]
  /\ UNCHANGED <<pool, jobs, call, worker>>

FileEnds(w) ==
  /\ session[w].alive /\ session[w].file.at = "current"
  /\ session' = [session EXCEPT ![w].file.at = "ended", ![w].file.eve = "whole"]
  /\ UNCHANGED <<pool, jobs, call, worker>>

ProcessDies(w) ==
  /\ pool.phase = "open" /\ session[w].alive
  /\ session' = [session EXCEPT ![w].alive = FALSE]
  /\ UNCHANGED <<pool, jobs, call, worker>>

----
Serve(c) ==
  Inspect(c) \/ TakeSlot(c) \/ TakeBuilder(c) \/ Build(c) \/ BuildFails(c) \/ Enqueue(c)
    \/ DeadlinePasses(c) \/ AwaitResult(c)

Work(w) ==
  WorkerTakes(w) \/ WorkerExits(w) \/ Prepare(w) \/ Submit(w) \/ Poll(w) \/ ReadOutput(w)
    \/ RetirePool(w) \/ RetireSession(w) \/ Finish(w)

Process(w) == FileStarts(w) \/ FileWritten(w) \/ FileEnds(w) \/ ProcessDies(w)

Closing == CloseCancels \/ (\E w \in Worker : CloseSession(w)) \/ CloseWaits \/ CloseDrains

Next ==
  \/ StartFails \/ Started \/ ParentCancelled \/ Close \/ Closing
  \/ \E c \in Client : Serve(c)
  \/ \E w \in Worker : StartSession(w) \/ Work(w) \/ Process(w)

Spec == Init /\ [][Next]_vars

\* The goroutines run, deadlines pass. Nothing is assumed of the process, of
\* failures or of the callers.
Fairness ==
  /\ WF_vars(Closing)
  /\ \A w \in Worker : WF_vars(Work(w))
  /\ \A c \in Client : WF_vars(AwaitResult(c)) /\ WF_vars(DeadlinePasses(c))

----
\* Properties.

Jobs == {jobs[i] : i \in DOMAIN jobs}
Running == {w \in Worker : worker[w].job # None}
SizeOf(C) == FoldSet(LAMBDA c, n : n + Size[c], 0, C)

\* The counters are exactly what is in progress: a slot for every call between
\* its admission and the end of its job (though the caller may have left long
\* before), a builder for every call that builds, and the bytes and number of the
\* queued and running jobs. No path of Inspect, run, finish or Close leaks or
\* returns one twice, so Inspect's bounds hold and never tighten.
Accounted ==
  LET held == {c \in Client : call[c].pc \in {"builder", "build", "enqueue"}}
      mine == Jobs \cup {worker[w].job : w \in Running}
  IN  /\ pool.slots = Cardinality(held) + Cardinality(mine)
      /\ pool.builders = Cardinality(held \ {c \in Client : call[c].pc = "builder"})
      /\ pool.inFlight = Cardinality(mine)
      /\ pool.bytes = SizeOf(mine)
      /\ pool.slots <= Slots /\ pool.bytes <= QueueBytes /\ Len(jobs) <= QueueItems

\* Once Close has returned no job is queued, running or counted, though calls may
\* have been on their way to the queue when it began.
ClosedIsEmpty ==
  pool.phase = "closed" => jobs = <<>> /\ Running = {} /\ pool.inFlight = 0 /\ pool.bytes = 0


\* Close returns: it waits for the workers, which are in the middle of jobs, in
\* exchanges with processes that may answer or not, or waiting for work.
CloseReturns == (pool.phase = "closing") ~> (pool.phase = "closed")

====
