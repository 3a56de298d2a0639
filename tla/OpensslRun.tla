------------------------------ MODULE OpensslRun ------------------------------
(***************************************************************************)
(* How a request runs its openssl commands (openssl.rs): a private work    *)
(* directory, and in it one child process after the other, polled until it *)
(* ends or its time is over, its output drained by two threads.  Time is   *)
(* in ticks; threads are fast, processes need not be.                      *)
(***************************************************************************)
EXTENDS Naturals

CONSTANTS
  Requests,
  MaxCommands,  \* commands of a request
  Timeout,      \* openssl.timeout_seconds, in ticks
  Grace,        \* between SIGTERM and SIGKILL
  ReapAfter,    \* openssl.reap_after_hours
  KeepFailed,   \* openssl.keep_failed_workdirs
  PipeSize,     \* what a pipe holds
  Output        \* the most a command writes to a pipe

(* "abandoned" directories are older than any request may become.           *)
ASSUME RunAssumption ==
  /\ {MaxCommands, Timeout, Grace, ReapAfter, Output} \subseteq Nat
  /\ PipeSize \in Nat \ {0}
  /\ KeepFailed \in BOOLEAN
  /\ MaxCommands * (Timeout + Grace + 1) <= ReapAfter

VARIABLES
  pc,      \* where the thread of each request is
  left,    \* commands it may still run
  age,     \* how long the present one has run
  child,   \* its process
  pipe,    \* what it has written and nobody has read
  got,     \* what the drain threads have read
  drained, \* how far they are with each pipe
  result,  \* what run_in has returned
  dir      \* the work directory

vars == <<pc, left, age, child, pipe, got, drained, result, dir>>

process == <<child, pipe, got, drained>>

Pipes == {"stdout", "stderr"}

(* A drain thread has read to the end, or had an error, or panicked.        *)
Drain == {"reading", "whole", "failed", "panicked"}

Polling == {"polling", "checking"}
Ending == {"terminating", "killing", "guarding"}
Running == Polling \union Ending \union {"joining"}
Live == Running \union {"between", "returned", "dropping"}
Pc == Live \union {"idle", "done", "dead"}

(* A quick process does its work in far less than a tick, a slow one may    *)
(* take any time, a hung one does not end by itself.                        *)
Kinds == {"quick", "slow", "hung"}

Exists == [there : {TRUE}, idle : 0 .. ReapAfter + 1, failed : BOOLEAN]
Modified(failed) == [there |-> TRUE, idle |-> 0, failed |-> failed]
NoDir == [there |-> FALSE]
NoChild == [state |-> "none"]
NoResult == "none"
Nothing == [p \in Pipes |-> 0]
Unread == [p \in Pipes |-> "reading"]

Init ==
  /\ pc = [r \in Requests |-> "idle"]
  /\ left = [r \in Requests |-> MaxCommands]
  /\ age = [r \in Requests |-> 0]
  /\ child = [r \in Requests |-> NoChild]
  /\ pipe = [r \in Requests |-> Nothing]
  /\ got = [r \in Requests |-> Nothing]
  /\ drained = [r \in Requests |-> Unread]
  /\ result = [r \in Requests |-> NoResult]
  /\ dir = [r \in Requests |-> NoDir]

Goto(r, to) == pc' = [pc EXCEPT ![r] = to]

Move(r, from, to) == pc[r] = from /\ Goto(r, to)

Become(r, state) == child' = [child EXCEPT ![r].state = state]

Signal(r, sig) == child' = [child EXCEPT ![r].signal = sig]

Zombie(r) == child[r].state = "zombie"

----------------------------------------------------------------------------
(* workdir                                                                  *)
Begin(r) ==
  /\ Move(r, "idle", "between")
  /\ dir' = [dir EXCEPT ![r] = Modified(FALSE)]
  /\ UNCHANGED <<left, age, result, process>>

(* run_in: the child is under its guard and its pipes are drained at once.  *)
Spawn(r) ==
  /\ Move(r, "between", "polling")
  /\ left[r] > 0
  /\ left' = [left EXCEPT ![r] = @ - 1]
  /\ age' = [age EXCEPT ![r] = 0]
  /\ \E kind \in Kinds, out \in [Pipes -> {0, Output}] :
       child' = [child EXCEPT ![r] = [state |-> "running", kind |-> kind, signal |-> "none",
                                      code |-> 0, out |-> out, todo |-> out]]
  /\ pipe' = [pipe EXCEPT ![r] = Nothing]
  /\ got' = [got EXCEPT ![r] = Nothing]
  /\ drained' = [drained EXCEPT ![r] = Unread]
  /\ result' = [result EXCEPT ![r] = NoResult]
  /\ UNCHANGED dir

(* The request has all it needs, openssl did not start, or a step of the    *)
(* request between two commands failed.                                     *)
Stop(r) ==
  /\ Move(r, "between", "dropping")
  /\ UNCHANGED <<left, age, result, dir, process>>

(* try_wait: the child has ended and is reaped.                             *)
PollExited(r) ==
  /\ Move(r, "polling", "joining")
  /\ Zombie(r)
  /\ Become(r, "reaped")
  /\ UNCHANGED <<left, age, pipe, got, drained, result, dir>>

PollRunning(r) ==
  /\ Move(r, "polling", "checking")
  /\ ~Zombie(r)
  /\ UNCHANGED <<left, age, result, dir, process>>

(* try_wait fails, or no drain thread can be started and run_in panics: the *)
(* guard's drop kills and reaps.                                            *)
PollFails(r) ==
  /\ Move(r, "polling", "guarding")
  /\ Signal(r, "kill")
  /\ UNCHANGED <<left, age, pipe, got, drained, result, dir>>

PollAgain(r) ==
  /\ Move(r, "checking", "polling")
  /\ age[r] <= Timeout
  /\ UNCHANGED <<left, age, result, dir, process>>

(* The child may have ended since it was polled.                            *)
TimeOut(r) ==
  /\ Move(r, "checking", "terminating")
  /\ age[r] > Timeout
  /\ Signal(r, "term")
  /\ UNCHANGED <<left, age, pipe, got, drained, result, dir>>

(* terminate                                                                *)
GraceExited(r) ==
  /\ Move(r, "terminating", "joining")
  /\ Zombie(r)
  /\ Become(r, "reaped")
  /\ UNCHANGED <<left, age, pipe, got, drained, result, dir>>

TermAgain(r) ==   \* mutant: SIGTERM is all there is
  /\ Move(r, "terminating", "killing")
  /\ age[r] > Timeout + Grace
  /\ Signal(r, "term")
  /\ UNCHANGED <<left, age, pipe, got, drained, result, dir>>

GraceOver(r) ==
  /\ Move(r, "terminating", "killing")
  /\ age[r] > Timeout + Grace
  /\ Signal(r, "kill")
  /\ UNCHANGED <<left, age, pipe, got, drained, result, dir>>

(* try_wait fails in terminate.                                             *)
GraceFails(r) ==
  /\ Move(r, "terminating", "killing")
  /\ Signal(r, "kill")
  /\ UNCHANGED <<left, age, pipe, got, drained, result, dir>>

NoWait(r) ==   \* mutant: killed and not waited for
  /\ Move(r, "killing", "joining")
  /\ UNCHANGED <<left, age, result, dir, process>>

Wait(r) ==
  /\ Move(r, "killing", "joining")
  /\ Zombie(r)
  /\ Become(r, "reaped")
  /\ UNCHANGED <<left, age, pipe, got, drained, result, dir>>

GuardDrops(r) ==
  /\ Move(r, "guarding", "dropping")
  /\ Zombie(r)
  /\ Become(r, "reaped")
  /\ UNCHANGED <<left, age, pipe, got, drained, result, dir>>

(* The drain threads are joined, and how they ended is not asked.  A        *)
(* timeout counts as -1, whatever the child made of the signal.             *)
TimedOut(r) == child[r].signal # "none"

JoinNothing(r) ==   \* mutant: the drain threads are not waited for
  /\ Move(r, "joining", "returned")
  /\ result' = [result EXCEPT ![r] = IF TimedOut(r) THEN "timeout"
                                     ELSE IF child[r].code = 0 THEN "ok" ELSE "failed"]
  /\ UNCHANGED <<left, age, dir, process>>

Join(r) ==
  /\ Move(r, "joining", "returned")
  /\ \A p \in Pipes : drained[r][p] # "reading"
  /\ result' = [result EXCEPT ![r] = IF TimedOut(r) THEN "timeout"
                                     ELSE IF child[r].code = 0 THEN "ok" ELSE "failed"]
  /\ UNCHANGED <<left, age, dir, process>>

(* The next command; some commands may fail (run_in without run_ok).        *)
Continue(r) ==
  /\ Move(r, "returned", "between")
  /\ UNCHANGED <<left, age, result, dir, process>>

(* run_ok marks the directory; others just give up.                         *)
GiveUp(r) ==
  /\ Move(r, "returned", "dropping")
  /\ result[r] # "ok"
  /\ dir' \in {[dir EXCEPT ![r] = Modified(TRUE)], dir}
  /\ UNCHANGED <<left, age, result, process>>

(* Drop of WorkDir                                                          *)
Kept(r) == KeepFailed /\ dir[r].failed

Drop(r) ==
  /\ Move(r, "dropping", "done")
  /\ dir' = [dir EXCEPT ![r] = IF Kept(r) THEN @ ELSE NoDir]
  /\ UNCHANGED <<left, age, result, process>>

----------------------------------------------------------------------------
(* The child and the threads that drain its pipes.                          *)
Broken(r, p) == drained[r][p] \in {"failed", "panicked"}

Write(r) ==
  /\ child[r].state = "running"
  /\ \E p \in Pipes :
       /\ child[r].todo[p] > 0
       /\ ~Broken(r, p)
       /\ pipe[r][p] < PipeSize
       /\ child' = [child EXCEPT ![r].todo[p] = @ - 1]
       /\ pipe' = [pipe EXCEPT ![r][p] = @ + 1]
  /\ UNCHANGED <<pc, left, age, got, drained, result, dir>>

(* SIGPIPE, as nobody reads any more.                                       *)
BreakPipe(r) ==
  /\ child[r].state = "running"
  /\ \E p \in Pipes : child[r].todo[p] > 0 /\ Broken(r, p)
  /\ child' = [child EXCEPT ![r].state = "zombie", ![r].code = 1]
  /\ UNCHANGED <<pc, left, age, pipe, got, drained, result, dir>>

(* It ends by itself: an error may come before all is written.              *)
Exit(r) ==
  /\ child[r].state = "running"
  /\ child[r].kind # "hung"
  /\ \E code \in {0, 1} :
       /\ code = 0 => child[r].todo = Nothing
       /\ child' = [child EXCEPT ![r].state = "zombie", ![r].code = code]
  /\ UNCHANGED <<pc, left, age, pipe, got, drained, result, dir>>

(* It ends by a signal; it may ignore SIGTERM, not SIGKILL.                 *)
Die(r) ==
  /\ child[r].state = "running"
  /\ child[r].signal # "none"
  /\ child' = [child EXCEPT ![r].state = "zombie", ![r].code = 1]
  /\ UNCHANGED <<pc, left, age, pipe, got, drained, result, dir>>

Killed(r) == child[r].state = "running" /\ child[r].signal = "kill" /\ Die(r)

QuickWork(r) ==
  child[r].state = "running" /\ child[r].kind = "quick" /\ (Write(r) \/ BreakPipe(r) \/ Exit(r))

Ended(r) == child[r].state \in {"zombie", "reaped"}

CanReadLate(r, p) ==   \* mutant: read only once the child has ended
  Ended(r) /\ drained[r][p] = "reading"

(* A drain thread reads what there is, until the end of the child closes    *)
(* the pipe.                                                                *)
CanRead(r, p) ==
  /\ child[r].state # "none"
  /\ drained[r][p] = "reading"
  /\ pipe[r][p] > 0 \/ Ended(r)

Read(r) ==
  /\ \E p \in Pipes :
       /\ CanRead(r, p)
       /\ \/ /\ pipe[r][p] > 0
             /\ pipe' = [pipe EXCEPT ![r][p] = @ - 1]
             /\ got' = [got EXCEPT ![r][p] = @ + 1]
             /\ drained' = drained
          \/ /\ pipe[r][p] = 0
             /\ drained' = [drained EXCEPT ![r][p] = "whole"]
             /\ UNCHANGED <<pipe, got>>
  /\ UNCHANGED <<pc, left, age, child, result, dir>>

(* read_to_end fails, and what it has read counts; or the thread panics, and *)
(* nothing does.  The pipe is closed, with what is in it.                   *)
ReadFails(r) ==
  /\ child[r].state # "none"
  /\ \E p \in Pipes :
       /\ drained[r][p] = "reading"
       /\ \/ drained' = [drained EXCEPT ![r][p] = "failed"] /\ got' = got
          \/ /\ drained' = [drained EXCEPT ![r][p] = "panicked"]
             /\ got' = [got EXCEPT ![r][p] = 0]
  /\ UNCHANGED <<pc, left, age, child, pipe, result, dir>>

----------------------------------------------------------------------------
(* A thread does not let a tick pass, unless it waits for a process that is *)
(* not quick and has time left.                                             *)
Busy(r) ==   \* a quick process, its drain or its poll can move
  /\ child[r].kind = "quick"
  /\ \/ Zombie(r) \/ child[r].todo = Nothing
     \/ \E p \in Pipes :
          CanRead(r, p) \/ (child[r].todo[p] > 0 /\ (Broken(r, p) \/ pipe[r][p] < PipeSize))

Patient(r) ==
  \/ pc[r] \in {"idle", "done", "dead"}
  \/ pc[r] \in Polling /\ age[r] <= Timeout /\ ~Busy(r)
  \/ pc[r] = "terminating" /\ age[r] <= Timeout + Grace

Tick ==
  /\ \A r \in Requests : Patient(r)
  /\ age' = [r \in Requests |-> IF pc[r] \in Running THEN age[r] + 1 ELSE age[r]]
  /\ dir' = [r \in Requests |-> IF dir[r].there /\ dir[r].idle <= ReapAfter
                                THEN [dir[r] EXCEPT !.idle = @ + 1] ELSE dir[r]]
  /\ UNCHANGED <<pc, left, result, process>>

ReapEvery(r) == dir[r].there   \* mutant: the age is not looked at

(* reap_workdirs: whatever has not changed for long is abandoned.           *)
Stale(r) == dir[r].there /\ dir[r].idle > ReapAfter

(* A process starts: the server again, or an import beside it.              *)
Start ==
  /\ dir' = [r \in Requests |-> IF Stale(r) THEN NoDir ELSE dir[r]]
  /\ UNCHANGED <<pc, left, age, result, process>>

(* The server dies; its children, if any live on, end on their own.         *)
Crash ==
  /\ pc' = [r \in Requests |-> IF pc[r] \in Live THEN "dead" ELSE pc[r]]
  /\ child' = [r \in Requests |-> IF pc[r] \in Live THEN NoChild ELSE child[r]]
  /\ UNCHANGED <<left, age, pipe, got, drained, result, dir>>

Call(r) ==
  \/ Spawn(r) \/ PollExited(r) \/ PollRunning(r) \/ PollFails(r) \/ PollAgain(r)
  \/ TimeOut(r) \/ GraceExited(r) \/ GraceOver(r) \/ GraceFails(r) \/ Wait(r)
  \/ GuardDrops(r) \/ Join(r)

Thread(r) == Call(r) \/ Stop(r) \/ Continue(r) \/ GiveUp(r) \/ Drop(r)

Process(r) == Write(r) \/ BreakPipe(r) \/ Exit(r) \/ Die(r) \/ Read(r) \/ ReadFails(r)

Next ==
  \/ \E r \in Requests : Begin(r) \/ Thread(r) \/ Process(r)
  \/ Tick \/ Start \/ Crash

Spec == Init /\ [][Next]_vars

(* Threads run, pipes are drained, a killed process dies, a quick one works, *)
(* time passes.                                                             *)
Fairness ==
  /\ \A r \in Requests :
       /\ WF_vars(Thread(r))
       /\ WF_vars(Read(r))
       /\ WF_vars(Killed(r))
       /\ WF_vars(QuickWork(r))
  /\ WF_vars(Tick)

FairSpec == Spec /\ Fairness
----------------------------------------------------------------------------
Child ==
  [state : {"running", "zombie", "reaped"}, kind : Kinds, signal : {"none", "term", "kill"},
   code : {0, 1}, out : [Pipes -> 0 .. Output], todo : [Pipes -> 0 .. Output]]

(* Every variable has its type; a command does not outlive its time.        *)
TypeOK ==
  /\ pc \in [Requests -> Pc]
  /\ left \in [Requests -> 0 .. MaxCommands]
  /\ age \in [Requests -> 0 .. Timeout + Grace + 1]
  /\ child \in [Requests -> Child \union {NoChild}]
  /\ pipe \in [Requests -> [Pipes -> 0 .. PipeSize]]
  /\ got \in [Requests -> [Pipes -> 0 .. Output]]
  /\ drained \in [Requests -> [Pipes -> Drain]]
  /\ result \in [Requests -> {NoResult, "ok", "failed", "timeout"}]
  /\ dir \in [Requests -> Exists \union {NoDir}]

(* "the child must never escape": whenever run_in has returned, with a      *)
(* result or an error, its process is dead and reaped.                      *)
ChildReaped ==
  \A r \in Requests : pc[r] \notin Running => child[r].state \in {"none", "reaped"}

(* A success is one: the process ended by itself, unsignalled, with exit    *)
(* code 0.  The caller has all of its output, unless a drain thread ended   *)
(* early, of which it is told nothing (drain, unwrap_or_default): then what *)
(* a pipe holds may be missing, or all when the thread panicked.            *)
MayMiss(d) == IF d = "failed" THEN PipeSize ELSE 0

SuccessIsWhole ==
  \A r \in Requests :
    (pc[r] = "returned" /\ result[r] = "ok") =>
      /\ child[r].code = 0 /\ child[r].signal = "none"
      /\ \A p \in Pipes :
           drained[r][p] # "panicked" =>
             /\ got[r][p] <= child[r].out[p]
             /\ child[r].out[p] <= got[r][p] + MayMiss(drained[r][p])

(* No deadlock "would masquerade as a timeout": a process that only had to  *)
(* be read does not time out, however much it writes.                       *)
TimeoutIsReal ==
  \A r \in Requests :
    (pc[r] = "returned" /\ result[r] = "timeout") => child[r].kind # "quick"

(* A request has its directory, whichever other process starts and reaps.   *)
DirNotPulled == \A r \in Requests : pc[r] \in Live => dir[r].there

(* "successful workdirs are always removed", failed ones unless they are to *)
(* be kept: key material is left only on request.                           *)
DirsCleared ==
  \A r \in Requests :
    (pc[r] = "done" /\ dir[r].there) => KeepFailed /\ dir[r].failed

(* Every request ends, whatever its processes do.                           *)
RequestEnds == \A r \in Requests : pc[r] \in Live ~> pc[r] \in {"done", "dead"}

(* "Reads a child pipe to completion" (drain): a success has all that was   *)
(* written.  TLC refutes it: errors and panics of the drain threads are     *)
(* dropped (README).                                                        *)
ReadToCompletion ==
  \A r \in Requests :
    (pc[r] = "returned" /\ result[r] = "ok") => got[r] = child[r].out
=============================================================================
