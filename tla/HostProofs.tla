------------------------------ MODULE HostProofs ------------------------------
(***************************************************************************)
(* What the program does with processes and files of its host.             *)
(*                                                                         *)
(* Running openssl is safe for all requests, numbers of commands, timeouts *)
(* and sizes.  The invariant is one of each request by itself: requests    *)
(* share the clock, the reaper and the crash, nothing else.                *)
(*                                                                         *)
(* The log loses at most one generation to each failure, for all numbers   *)
(* of backups, lines, failures and ends of the process.  The invariant     *)
(* says so of every smaller number of backups as well: a shift makes one   *)
(* of k - 1 backups one of k.                                              *)
(***************************************************************************)
EXTENDS OpensslRun, LogRotation, FiniteSetTheorems, TLAPS

Span == Timeout + Grace + 1

Shape ==
  /\ pc \in [Requests -> Pc]
  /\ left \in [Requests -> 0 .. MaxCommands]
  /\ age \in [Requests -> Nat]
  /\ child \in [Requests -> Child \union {NoChild}]
  /\ pipe \in [Requests -> [Pipes -> 0 .. PipeSize]]
  /\ got \in [Requests -> [Pipes -> Nat]]
  /\ drained \in [Requests -> [Pipes -> Drain]]
  /\ result \in [Requests -> {NoResult, "ok", "failed", "timeout"}]
  /\ dir \in [Requests -> Exists \union {NoDir}]

(* The process lives in run_in only, and is signalled only there.           *)
ChildOK(r) ==
  /\ pc[r] \in Running \union {"returned"} => child[r] \in Child
  /\ pc[r] \in {"joining", "returned"} => child[r].state = "reaped"
  /\ pc[r] \notin Running => child[r].state \in {"none", "reaped"}
  /\ pc[r] \in Polling => child[r].signal = "none"

(* Its output is in the pipe or read, and lost nowhere but in a thread that *)
(* panicked; a pipe ends when it has ended.                                 *)
OutputOK(r) ==
  /\ \A p \in Pipes : drained[r][p] = "whole" => child[r].state # "running" /\ pipe[r][p] = 0
  /\ \A p \in Pipes : got[r][p] <= Output
  /\ child[r] \in Child =>
       /\ \A p \in Pipes : drained[r][p] # "panicked" =>
            child[r].todo[p] + pipe[r][p] + got[r][p] = child[r].out[p]
       /\ (child[r].state # "running" /\ child[r].code = 0) => child[r].todo = Nothing
  /\ pc[r] = "returned" =>
       /\ \A p \in Pipes : drained[r][p] # "reading"
       /\ result[r] = "timeout" => child[r].signal # "none"
       /\ result[r] = "ok" => child[r].signal = "none" /\ child[r].code = 0

(* No tick passes while a quick process is polled.                          *)
TimeOK(r) ==
  /\ pc[r] \in Polling => age[r] <= Timeout + 1
  /\ age[r] <= Span
  /\ (child[r] \in Child /\ child[r].kind = "quick") =>
       /\ pc[r] \in Polling => age[r] = 0
       /\ pc[r] \notin {"terminating", "killing"}
       /\ pc[r] \in {"joining", "returned"} => child[r].signal = "none"

(* The directory is no older than the commands so far have taken.           *)
DirOK(r) ==
  /\ pc[r] \in Live => dir[r] \in Exists
  /\ pc[r] \in Running =>
       left[r] < MaxCommands /\ dir[r].idle <= (MaxCommands - left[r] - 1) * Span + age[r]
  /\ pc[r] \in Live \ Running => dir[r].idle <= (MaxCommands - left[r]) * Span
  /\ (pc[r] = "done" /\ dir[r].there) => KeepFailed /\ dir[r].failed
  /\ pc[r] = "idle" => dir[r] = NoDir

ReqOK(r) == ChildOK(r) /\ OutputOK(r) /\ TimeOK(r) /\ DirOK(r)

IInv == Shape /\ \A r \in Requests : ReqOK(r)

(* What a tick makes of a directory.                                        *)
Aged(d) ==
  LET e == [d EXCEPT !.idle = @ + 1]
  IN  e \in Exists /\ e.there /\ e.idle = d.idle + 1 /\ e.failed = d.failed

LEMMA Records ==
  /\ NoChild \notin Child
  /\ \A d \in Exists : d.there /\ d.idle \in Nat
  /\ \A d \in Exists : Modified(TRUE) \in Exists
  /\ ~NoDir.there
  /\ NoChild.state = "none"
  /\ \A d \in Exists : d.idle <= ReapAfter => Aged(d)
<1>1. ASSUME NEW c \in Child, c = NoChild PROVE FALSE
  <2>1. "kind" \in DOMAIN c
    BY DEF Child
  <2>2. "kind" \notin DOMAIN NoChild
    BY DEF NoChild
  <2> QED BY <1>1, <2>1, <2>2
<1>2. ASSUME NEW d \in Exists
      PROVE  /\ d.there /\ d.idle \in Nat
             /\ Modified(TRUE) \in Exists
  <2>1. d.there
    BY DEF Exists
  <2>2. d.idle \in Nat
    BY RunAssumption DEF Exists
  <2>3. Modified(TRUE) \in Exists
    BY RunAssumption DEF Exists, Modified
  <2> QED BY <2>1, <2>2, <2>3
<1>3. ~NoDir.there /\ NoChild.state = "none"
  BY DEF NoDir, NoChild
<1>4. ASSUME NEW d \in Exists, d.idle <= ReapAfter PROVE Aged(d)
  <2> DEFINE e == [d EXCEPT !.idle = @ + 1]
  <2>1. d.idle + 1 \in 0 .. ReapAfter + 1
    BY <1>4, RunAssumption DEF Exists
  <2>2. e \in Exists
    BY <2>1 DEF Exists
  <2>3. e.there /\ e.idle = d.idle + 1 /\ e.failed = d.failed
    BY DEF Exists
  <2> QED BY <2>2, <2>3 DEF Aged
<1> QED BY <1>1, <1>2, <1>3, <1>4

(* A step of one request, or of its process, leaves the others alone.       *)
Local(r) ==
  /\ pc' = [pc EXCEPT ![r] = pc'[r]]
  /\ left' = [left EXCEPT ![r] = left'[r]]
  /\ age' = [age EXCEPT ![r] = age'[r]]
  /\ child' = [child EXCEPT ![r] = child'[r]]
  /\ pipe' = [pipe EXCEPT ![r] = pipe'[r]]
  /\ got' = [got EXCEPT ![r] = got'[r]]
  /\ drained' = [drained EXCEPT ![r] = drained'[r]]
  /\ result' = [result EXCEPT ![r] = result'[r]]
  /\ dir' = [dir EXCEPT ![r] = dir'[r]]

Typed(r) ==
  /\ pc[r] \in Pc
  /\ left[r] \in 0 .. MaxCommands
  /\ age[r] \in Nat
  /\ child[r] \in Child \union {NoChild}
  /\ pipe[r] \in [Pipes -> 0 .. PipeSize]
  /\ got[r] \in [Pipes -> Nat]
  /\ drained[r] \in [Pipes -> Drain]
  /\ result[r] \in {NoResult, "ok", "failed", "timeout"}
  /\ dir[r] \in Exists \union {NoDir}

LEMMA TypedShape ==
  ASSUME Shape, NEW r \in Requests
  PROVE  Typed(r)
BY DEF Shape, Typed

LEMMA Frame ==
  ASSUME IInv, NEW r \in Requests, Local(r), Typed(r)', ReqOK(r)'
  PROVE  IInv'
<1>1. Shape'
  BY DEF IInv, Shape, Local, Typed
<1>2. ASSUME NEW q \in Requests PROVE ReqOK(q)'
  <2>1. CASE q = r
    BY <2>1
  <2>2. CASE q # r
    <3>1. /\ pc'[q] = pc[q] /\ left'[q] = left[q] /\ age'[q] = age[q]
          /\ child'[q] = child[q] /\ pipe'[q] = pipe[q] /\ got'[q] = got[q]
          /\ drained'[q] = drained[q] /\ result'[q] = result[q] /\ dir'[q] = dir[q]
      BY <2>2 DEF IInv, Shape, Local
    <3>2. ReqOK(q)
      BY DEF IInv
    <3> QED BY <3>1, <3>2 DEF ReqOK, ChildOK, OutputOK, TimeOK, DirOK
  <2> QED BY <2>1, <2>2
<1> QED BY <1>1, <1>2 DEF IInv

(* The sum of the times of the commands.                                    *)
LEMMA SpanSum ==
  ASSUME NEW n \in Nat
  PROVE  /\ Span \in Nat
         /\ (n + 1) * Span = n * Span + Span
         /\ n <= MaxCommands => n * Span <= ReapAfter
<1>1. Span \in Nat
  BY RunAssumption DEF Span
<1>2. (n + 1) * Span = n * Span + Span
  BY <1>1
<1>3. ASSUME n <= MaxCommands PROVE n * Span <= ReapAfter
  <2>1. MaxCommands \in Nat /\ MaxCommands * Span <= ReapAfter /\ ReapAfter \in Nat
    BY RunAssumption DEF Span
  <2>2. PICK m \in Nat : MaxCommands = n + m
    BY <1>3, <2>1
  <2>3. MaxCommands * Span = n * Span + m * Span
    BY <1>1, <2>2
  <2>4. m * Span \in Nat /\ n * Span \in Nat
    BY <1>1
  <2> QED BY <2>1, <2>3, <2>4
<1> QED BY <1>1, <1>2, <1>3

LEMMA Initially == Init => IInv
<1> SUFFICES ASSUME Init PROVE IInv
  OBVIOUS
<1>1. Shape
  BY RunAssumption DEF Init, Shape, Pc, Nothing, Unread, Drain
<1>2. ASSUME NEW r \in Requests PROVE ReqOK(r)
  <2>1. pc[r] = "idle" /\ age[r] = 0 /\ child[r] = NoChild /\ drained[r] = Unread /\ dir[r] = NoDir
        /\ \A p \in Pipes : got[r][p] = 0 /\ drained[r][p] = "reading"
    BY DEF Init, Nothing, Unread
  <2>2. OutputOK(r) /\ TimeOK(r)
    BY <2>1, SpanSum, Records, RunAssumption DEF OutputOK, TimeOK, Polling
  <2>3. ChildOK(r) /\ DirOK(r)
    BY <2>1, Records DEF ChildOK, DirOK, Running, Polling, Ending, Live
  <2> QED BY <2>2, <2>3 DEF ReqOK
<1> QED BY <1>1, <1>2 DEF IInv

(* What most steps of the thread leave alone.                               *)
Rest(r) ==
  /\ left'[r] = left[r] /\ age'[r] = age[r] /\ pipe'[r] = pipe[r]
  /\ got'[r] = got[r] /\ drained'[r] = drained[r] /\ dir'[r] = dir[r]

(* The thread of a request.                                                 *)
LEMMA BeginStep == ASSUME IInv, NEW r \in Requests, Begin(r) PROVE IInv'
<1>1. /\ pc[r] = "idle" /\ pc'[r] = "between" /\ child'[r] = child[r] /\ left'[r] = left[r]
      /\ age'[r] = age[r] /\ pipe'[r] = pipe[r] /\ got'[r] = got[r] /\ drained'[r] = drained[r]
      /\ result'[r] = result[r]
      /\ dir'[r] = [there |-> TRUE, idle |-> 0, failed |-> FALSE]
      /\ Local(r)
  BY DEF IInv, Begin, Modified, Move, Goto, process, Local, Shape
<1>2. dir'[r] \in Exists
  BY <1>1, RunAssumption DEF Exists
<1>3. Typed(r)'
  BY <1>1, <1>2, TypedShape DEF IInv, Typed, Pc, Live
<1>4. DirOK(r)'
  <2>1. MaxCommands - left[r] \in Nat
    BY TypedShape, RunAssumption DEF IInv, Typed
  <2>2. (MaxCommands - left[r]) * Span \in Nat
    BY <2>1, SpanSum
  <2> QED BY <1>1, <1>2, <2>2 DEF DirOK, Live, Running, Polling, Ending
<1>5. ChildOK(r)' /\ OutputOK(r)' /\ TimeOK(r)'
  BY <1>1 DEF IInv, ReqOK, ChildOK, OutputOK, TimeOK, Running, Polling, Ending
<1> QED BY <1>1, <1>3, <1>4, <1>5, Frame DEF ReqOK

LEMMA SpawnStep == ASSUME IInv, NEW r \in Requests, Spawn(r) PROVE IInv'
<1> PICK kind \in Kinds, out \in [Pipes -> {0, Output}] :
      child' = [child EXCEPT ![r] = [state |-> "running", kind |-> kind, signal |-> "none",
                                     code |-> 0, out |-> out, todo |-> out]]
  BY DEF Spawn
<1>1. /\ pc[r] = "between" /\ pc'[r] = "polling" /\ left'[r] = left[r] - 1 /\ left[r] > 0
      /\ age'[r] = 0 /\ pipe'[r] = Nothing /\ got'[r] = Nothing /\ drained'[r] = Unread
      /\ result'[r] = NoResult /\ dir'[r] = dir[r]
      /\ child'[r] = [state |-> "running", kind |-> kind, signal |-> "none",
                      code |-> 0, out |-> out, todo |-> out]
      /\ Local(r)
  BY DEF IInv, Shape, Spawn, Move, Goto, Local
<1>2. out \in [Pipes -> 0 .. Output]
  BY RunAssumption
<1>3. child'[r] \in Child
  BY <1>1, <1>2 DEF Child
<1>4. Typed(r)'
  BY <1>1, <1>3, TypedShape, RunAssumption DEF IInv, Typed, Pc, Live, Running, Polling, Nothing, Unread, Drain
<1>5. ChildOK(r)' /\ TimeOK(r)'
  <2>1. child'[r].signal = "none" /\ child'[r].state = "running"
    BY <1>1
  <2> QED BY <1>1, <1>3, <2>1, RunAssumption DEF ChildOK, TimeOK, Running, Polling, Ending, Span
<1>6. OutputOK(r)'
  BY <1>1, <1>2, RunAssumption DEF OutputOK, Nothing, Unread
<1>7. DirOK(r)'
  <2>1. dir[r] \in Exists /\ dir[r].idle <= (MaxCommands - left[r]) * Span
    BY <1>1 DEF IInv, ReqOK, DirOK, Live, Running, Polling, Ending
  <2>2. MaxCommands - left'[r] - 1 = MaxCommands - left[r] /\ left'[r] < MaxCommands
    BY <1>1, TypedShape, RunAssumption DEF IInv, Typed
  <2>3. (MaxCommands - left[r]) * Span \in Nat
    BY TypedShape, RunAssumption, SpanSum DEF IInv, Typed
  <2> QED BY <1>1, <2>1, <2>2, <2>3 DEF DirOK, Live, Running, Polling, Ending
<1> QED BY <1>1, <1>4, <1>5, <1>6, <1>7, Frame DEF ReqOK

(* The directory of a request that goes on in or out of run_in, or ends the  *)
(* command within its time.                                                 *)
LEMMA DirGoesOn ==
  ASSUME IInv, NEW r \in Requests, left'[r] = left[r], age'[r] = age[r], dir'[r] = dir[r],
         pc[r] \in Live, pc'[r] \in Live,
         pc'[r] \in Running => pc[r] \in Running
  PROVE  DirOK(r)'
<1>1. DirOK(r) /\ TimeOK(r) /\ Typed(r)
  BY TypedShape DEF IInv, ReqOK
<1>2. pc[r] \notin {"done", "idle"} /\ pc'[r] \notin {"done", "idle"}
  BY DEF Live, Running, Polling, Ending
<1>3. CASE pc'[r] \in Running
  BY <1>1, <1>2, <1>3 DEF DirOK
<1>4. CASE pc[r] \notin Running
  BY <1>1, <1>2, <1>4 DEF DirOK
<1>5. CASE pc[r] \in Running /\ pc'[r] \notin Running
  <2> DEFINE n == MaxCommands - left[r] - 1
  <2>1. n \in Nat /\ dir[r].idle <= n * Span + age[r] /\ age[r] <= Span
    BY <1>1, <1>5, RunAssumption DEF DirOK, TimeOK, Typed
  <2>2. (n + 1) * Span = n * Span + Span /\ n * Span \in Nat /\ Span \in Nat
    BY <2>1, SpanSum
  <2>3. n + 1 = MaxCommands - left[r] /\ age[r] \in Nat
    BY <1>1, RunAssumption DEF Typed
  <2>4. dir[r].idle \in Nat
    BY <1>1, Records DEF DirOK
  <2>5. dir[r].idle <= (n + 1) * Span
    <3> HIDE DEF n
    <3> QED BY <2>1, <2>2, <2>3, <2>4
  <2> QED BY <1>1, <1>2, <1>5, <2>3, <2>5 DEF DirOK
<1> QED BY <1>3, <1>4, <1>5

(* A step that changes nothing but where the thread is.                     *)
LEMMA PlainStep ==
  ASSUME IInv, NEW r \in Requests,
         PollRunning(r) \/ PollAgain(r) \/ Stop(r) \/ Continue(r)
  PROVE  IInv'
<1>1. /\ Rest(r) /\ child'[r] = child[r] /\ result'[r] = result[r] /\ Local(r)
      /\ \/ pc[r] \in Polling /\ pc'[r] \in Polling
         \/ pc[r] \in {"between", "returned"} /\ pc'[r] \in {"between", "dropping"}
  BY DEF IInv, Shape, PollRunning, PollAgain, Stop, Continue, Move, Goto, process, Rest,
     Local, Polling
<1>2. Typed(r)'
  BY <1>1, TypedShape DEF IInv, Typed, Rest, Pc, Live, Running
<1>3. DirOK(r)'
  BY <1>1, DirGoesOn DEF Rest, Live, Running, Polling, Ending
<1>4. ReqOK(r)
  BY DEF IInv
<1>5. ChildOK(r)' /\ OutputOK(r)' /\ TimeOK(r)'
  BY <1>1, <1>4 DEF ReqOK, ChildOK, OutputOK, TimeOK, Rest, Running, Polling, Ending
<1> QED BY <1>1, <1>2, <1>3, <1>5, Frame DEF ReqOK

(* A step that reaps the child, which has ended.                            *)
LEMMA ReapStep ==
  ASSUME IInv, NEW r \in Requests,
         PollExited(r) \/ GraceExited(r) \/ Wait(r) \/ GuardDrops(r)
  PROVE  IInv'
<1>1. /\ Rest(r) /\ result'[r] = result[r] /\ Local(r)
      /\ child[r].state = "zombie" /\ child'[r] = [child[r] EXCEPT !.state = "reaped"]
      /\ \/ pc[r] \in {"polling", "terminating", "killing"} /\ pc'[r] = "joining"
         \/ pc[r] = "guarding" /\ pc'[r] = "dropping"
  <2>1. CASE PollExited(r)
    BY <2>1 DEF IInv, Shape, PollExited, Move, Goto, Become, Zombie, Rest, Local
  <2>2. CASE GraceExited(r)
    BY <2>2 DEF IInv, Shape, GraceExited, Move, Goto, Become, Zombie, Rest, Local
  <2>3. CASE Wait(r)
    BY <2>3 DEF IInv, Shape, Wait, Move, Goto, Become, Zombie, Rest, Local
  <2>4. CASE GuardDrops(r)
    BY <2>4 DEF IInv, Shape, GuardDrops, Move, Goto, Become, Zombie, Rest, Local
  <2> QED BY <2>1, <2>2, <2>3, <2>4
<1>2. ReqOK(r) /\ Typed(r)
  BY TypedShape DEF IInv
<1>3. child[r] \in Child
  BY <1>1, <1>2 DEF ReqOK, ChildOK, Running, Polling, Ending
<1>4. /\ child'[r] \in Child /\ child'[r].state = "reaped" /\ child'[r].code = child[r].code
      /\ child'[r].signal = child[r].signal /\ child'[r].kind = child[r].kind
      /\ child'[r].todo = child[r].todo /\ child'[r].out = child[r].out
  BY <1>1, <1>3 DEF Child
<1>5. Typed(r)'
  BY <1>1, <1>2, <1>4 DEF Typed, Rest, Pc, Live, Running
<1>6. DirOK(r)'
  BY <1>1, DirGoesOn DEF Rest, Live, Running, Polling, Ending
<1>7. ChildOK(r)'
  BY <1>1, <1>4 DEF ChildOK, Running, Polling, Ending
<1>8. OutputOK(r)'
  BY <1>1, <1>2, <1>3, <1>4 DEF ReqOK, OutputOK, Rest
<1>9. TimeOK(r)'
  BY <1>1, <1>2, <1>3, <1>4 DEF ReqOK, TimeOK, ChildOK, Rest, Running, Polling, Ending
<1> QED BY <1>1, <1>5, <1>6, <1>7, <1>8, <1>9, Frame DEF ReqOK

(* A step that signals the child.  A quick one is not signalled for its     *)
(* time: it is polled before a tick passes.                                 *)
LEMMA SignalStep ==
  ASSUME IInv, NEW r \in Requests, PollFails(r) \/ TimeOut(r) \/ GraceOver(r) \/ GraceFails(r)
  PROVE  IInv'
<1>1. PICK sig \in {"term", "kill"} :
        /\ Rest(r) /\ result'[r] = result[r] /\ Local(r)
        /\ child'[r] = [child[r] EXCEPT !.signal = sig]
        /\ \/ pc[r] = "polling" /\ pc'[r] = "guarding"
           \/ pc[r] = "checking" /\ pc'[r] = "terminating" /\ age[r] > Timeout
           \/ pc[r] = "terminating" /\ pc'[r] = "killing"
  <2>1. CASE PollFails(r)
    BY <2>1 DEF IInv, Shape, PollFails, Move, Goto, Signal, Rest, Local
  <2>2. CASE TimeOut(r)
    BY <2>2 DEF IInv, Shape, TimeOut, Move, Goto, Signal, Rest, Local
  <2>3. CASE GraceOver(r) \/ GraceFails(r)
    BY <2>3 DEF IInv, Shape, GraceOver, GraceFails, Move, Goto, Signal, Rest, Local
  <2> QED BY <2>1, <2>2, <2>3
<1>2. ReqOK(r) /\ Typed(r)
  BY TypedShape DEF IInv
<1>3. child[r] \in Child
  BY <1>1, <1>2 DEF ReqOK, ChildOK, Running, Polling, Ending
<1>4. /\ child'[r] \in Child /\ child'[r].state = child[r].state
      /\ child'[r].code = child[r].code /\ child'[r].kind = child[r].kind
      /\ child'[r].todo = child[r].todo /\ child'[r].out = child[r].out
  BY <1>1, <1>3 DEF Child
<1>5. Typed(r)'
  BY <1>1, <1>2, <1>4 DEF Typed, Rest, Pc, Live, Running, Polling, Ending
<1>6. DirOK(r)'
  BY <1>1, DirGoesOn DEF Rest, Live, Running, Polling, Ending
<1>7. ChildOK(r)'
  BY <1>1, <1>4 DEF ChildOK, Running, Polling, Ending
<1>8. OutputOK(r)'
  BY <1>1, <1>2, <1>3, <1>4 DEF ReqOK, OutputOK, Rest
<1>9. TimeOK(r)'
  <2>1. pc[r] \in {"checking", "terminating"} /\ pc'[r] # "guarding" => child[r].kind # "quick"
    BY <1>1, <1>2, <1>3, RunAssumption DEF ReqOK, TimeOK, Typed, Polling
  <2> QED BY <1>1, <1>2, <1>3, <1>4, <2>1 DEF ReqOK, TimeOK, Rest, Running, Polling, Ending
<1> QED BY <1>1, <1>5, <1>6, <1>7, <1>8, <1>9, Frame DEF ReqOK

(* run_in returns, and what the request makes of it.                        *)
LEMMA JoinStep == ASSUME IInv, NEW r \in Requests, Join(r) PROVE IInv'
<1>1. /\ Rest(r) /\ child'[r] = child[r] /\ Local(r)
      /\ \A p \in Pipes : drained[r][p] # "reading"
      /\ pc[r] = "joining" /\ pc'[r] = "returned"
      /\ result'[r] = IF child[r].signal # "none" THEN "timeout"
                      ELSE IF child[r].code = 0 THEN "ok" ELSE "failed"
  BY DEF IInv, Shape, Join, TimedOut, Move, Goto, process, Rest, Local
<1>2. ReqOK(r) /\ Typed(r)
  BY TypedShape DEF IInv
<1>3. Typed(r)'
  BY <1>1, <1>2 DEF Typed, Rest, Pc, Live
<1>4. DirOK(r)'
  BY <1>1, DirGoesOn DEF Rest, Live, Running, Polling, Ending
<1>5. ChildOK(r)' /\ TimeOK(r)'
  BY <1>1, <1>2 DEF ReqOK, ChildOK, TimeOK, Rest, Running, Polling, Ending
<1>6. OutputOK(r)'
  BY <1>1, <1>2 DEF ReqOK, OutputOK, Rest
<1> QED BY <1>1, <1>3, <1>4, <1>5, <1>6, Frame DEF ReqOK

LEMMA GiveUpStep == ASSUME IInv, NEW r \in Requests, GiveUp(r) PROVE IInv'
<1>1. /\ left'[r] = left[r] /\ age'[r] = age[r] /\ pipe'[r] = pipe[r] /\ got'[r] = got[r]
      /\ drained'[r] = drained[r] /\ child'[r] = child[r] /\ result'[r] = result[r] /\ Local(r)
      /\ pc[r] = "returned" /\ pc'[r] = "dropping"
      /\ dir'[r] = Modified(TRUE) \/ dir'[r] = dir[r]
  BY DEF IInv, Shape, GiveUp, Move, Goto, process, Local
<1>2. ReqOK(r) /\ Typed(r)
  BY TypedShape DEF IInv
<1>3. dir[r] \in Exists
  BY <1>1, <1>2 DEF ReqOK, DirOK, Live
<1>4. dir'[r] \in Exists /\ (dir'[r].idle = 0 \/ dir'[r] = dir[r])
  <2>1. dir'[r] \in Exists
    BY <1>1, <1>3, Records
  <2>2. dir'[r].idle = 0 \/ dir'[r] = dir[r]
    BY <1>1 DEF Modified
  <2> QED BY <2>1, <2>2
<1>5. Typed(r)'
  BY <1>1, <1>2, <1>4 DEF Typed, Pc, Live
<1>6. DirOK(r)'
  <2>1. (MaxCommands - left[r]) * Span \in Nat
    BY <1>2, RunAssumption, SpanSum DEF Typed
  <2>2. dir[r].idle <= (MaxCommands - left[r]) * Span
    BY <1>1, <1>2 DEF ReqOK, DirOK, Live, Running, Polling, Ending
  <2>3. dir'[r].idle <= (MaxCommands - left[r]) * Span
    BY <1>4, <2>1, <2>2
  <2> QED BY <1>1, <1>4, <2>3 DEF DirOK, Live, Running, Polling, Ending
<1>7. ChildOK(r)' /\ OutputOK(r)' /\ TimeOK(r)'
  BY <1>1, <1>2 DEF ReqOK, ChildOK, OutputOK, TimeOK, Running, Polling, Ending
<1> QED BY <1>1, <1>5, <1>6, <1>7, Frame DEF ReqOK

LEMMA DropStep == ASSUME IInv, NEW r \in Requests, Drop(r) PROVE IInv'
<1>1. /\ left'[r] = left[r] /\ age'[r] = age[r] /\ pipe'[r] = pipe[r] /\ got'[r] = got[r]
      /\ drained'[r] = drained[r] /\ child'[r] = child[r] /\ result'[r] = result[r] /\ Local(r)
      /\ pc[r] = "dropping" /\ pc'[r] = "done"
      /\ dir'[r] = IF KeepFailed /\ dir[r].failed THEN dir[r] ELSE NoDir
  BY DEF IInv, Shape, Drop, Kept, Move, Goto, process, Local
<1>2. ReqOK(r) /\ Typed(r)
  BY TypedShape DEF IInv
<1>3. Typed(r)'
  BY <1>1, <1>2 DEF Typed, Pc
<1>4. DirOK(r)'
  BY <1>1, Records DEF DirOK, Live, Running, Polling, Ending
<1>5. ChildOK(r)' /\ OutputOK(r)' /\ TimeOK(r)'
  BY <1>1, <1>2 DEF ReqOK, ChildOK, OutputOK, TimeOK, Running, Polling, Ending
<1> QED BY <1>1, <1>3, <1>4, <1>5, Frame DEF ReqOK

(* The process and the threads that drain its pipes.                        *)
Alone(r) ==
  /\ pc'[r] = pc[r] /\ left'[r] = left[r] /\ age'[r] = age[r] /\ dir'[r] = dir[r]
  /\ result'[r] = result[r] /\ Local(r)

LEMMA AloneKeeps ==
  ASSUME IInv, NEW r \in Requests, Alone(r)
  PROVE  DirOK(r)'
BY DEF IInv, ReqOK, DirOK, Alone

LEMMA WriteStep == ASSUME IInv, NEW r \in Requests, Write(r) PROVE IInv'
<1>1. PICK p \in Pipes :
        /\ child[r].state = "running" /\ child[r].todo[p] > 0 /\ pipe[r][p] < PipeSize
        /\ ~Broken(r, p)
        /\ child' = [child EXCEPT ![r].todo[p] = @ - 1]
        /\ pipe' = [pipe EXCEPT ![r][p] = @ + 1]
  BY DEF Write
<1>2. ReqOK(r) /\ Typed(r)
  BY TypedShape DEF IInv
<1>3. child[r] \in Child
  BY <1>1, <1>2, Records DEF Typed
<1>4. /\ child'[r] = [child[r] EXCEPT !.todo = [child[r].todo EXCEPT ![p] = @ - 1]]
      /\ pipe'[r] = [pipe[r] EXCEPT ![p] = @ + 1]
      /\ got'[r] = got[r] /\ drained'[r] = drained[r] /\ Alone(r)
  BY <1>1 DEF IInv, Shape, Write, Alone, Local
<1>5. [child[r].todo EXCEPT ![p] = @ - 1] \in [Pipes -> 0 .. Output]
  <2>1. child[r].todo \in [Pipes -> 0 .. Output]
    BY <1>3 DEF Child
  <2> QED BY <1>1, <2>1, RunAssumption
<1>6. /\ child'[r] \in Child /\ child'[r].state = "running" /\ child'[r].kind = child[r].kind
      /\ child'[r].signal = child[r].signal /\ child'[r].out = child[r].out
      /\ child'[r].todo = [child[r].todo EXCEPT ![p] = @ - 1]
  BY <1>1, <1>3, <1>4, <1>5 DEF Child
<1>7. pipe'[r] \in [Pipes -> 0 .. PipeSize]
  BY <1>1, <1>2, <1>4, RunAssumption DEF Typed
<1>8. Typed(r)'
  BY <1>2, <1>4, <1>6, <1>7 DEF Typed, Alone
<1>9. ChildOK(r)' /\ TimeOK(r)'
  BY <1>1, <1>2, <1>3, <1>4, <1>6 DEF ReqOK, ChildOK, TimeOK, Alone
<1>10. OutputOK(r)'
  <2>1. \A q \in Pipes : drained[r][q] # "whole"
    BY <1>1, <1>2 DEF ReqOK, OutputOK
  <2>2. pc[r] # "returned"
    BY <1>1, <1>2 DEF ReqOK, ChildOK
  <2>3. ASSUME NEW q \in Pipes, drained[r][q] # "panicked"
        PROVE  child'[r].todo[q] + pipe'[r][q] + got'[r][q] = child'[r].out[q]
    <3>1. child[r].todo[q] + pipe[r][q] + got[r][q] = child[r].out[q]
      BY <1>2, <1>3, <2>3 DEF ReqOK, OutputOK
    <3>2. child[r].todo \in [Pipes -> 0 .. Output] /\ pipe[r] \in [Pipes -> 0 .. PipeSize]
          /\ got[r] \in [Pipes -> Nat]
      BY <1>2, <1>3 DEF Typed, Child
    <3>3. CASE q = p
      BY <1>4, <1>6, <3>1, <3>2, <3>3, RunAssumption
    <3>4. CASE q # p
      BY <1>4, <1>6, <3>1, <3>2, <3>4
    <3> QED BY <3>3, <3>4
  <2>4. \A q \in Pipes : got[r][q] <= Output
    BY <1>2 DEF ReqOK, OutputOK
  <2> QED BY <1>4, <1>6, <2>1, <2>2, <2>3, <2>4 DEF OutputOK, Alone
<1> QED BY <1>4, <1>8, <1>9, <1>10, AloneKeeps, Frame DEF ReqOK, Alone

LEMMA EndStep == ASSUME IInv, NEW r \in Requests, Exit(r) \/ Die(r) \/ BreakPipe(r) PROVE IInv'
<1>1. PICK code \in {0, 1} :
        /\ child[r].state = "running" /\ (code = 0 => child[r].todo = Nothing)
        /\ child' = [child EXCEPT ![r].state = "zombie", ![r].code = code]
  BY DEF Exit, Die, BreakPipe
<1>2. ReqOK(r) /\ Typed(r)
  BY TypedShape DEF IInv
<1>3. child[r] \in Child
  BY <1>1, <1>2, Records DEF Typed
<1>4. /\ child'[r] = [child[r] EXCEPT !.state = "zombie", !.code = code]
      /\ pipe'[r] = pipe[r] /\ got'[r] = got[r] /\ drained'[r] = drained[r] /\ Alone(r)
  <2>1. child'[r] = [child[r] EXCEPT !.state = "zombie", !.code = code]
    BY <1>1 DEF IInv, Shape
  <2>2. CASE Exit(r)
    BY <1>1, <2>2, <2>1 DEF IInv, Shape, Exit, Alone, Local
  <2>3. CASE Die(r)
    BY <1>1, <2>3, <2>1 DEF IInv, Shape, Die, Alone, Local
  <2>4. CASE BreakPipe(r)
    BY <1>1, <2>4, <2>1 DEF IInv, Shape, BreakPipe, Alone, Local
  <2> QED BY <2>1, <2>2, <2>3, <2>4
<1>5. /\ child'[r] \in Child /\ child'[r].state = "zombie" /\ child'[r].kind = child[r].kind
      /\ child'[r].signal = child[r].signal /\ child'[r].out = child[r].out
      /\ child'[r].todo = child[r].todo /\ child'[r].code = code
  BY <1>3, <1>4 DEF Child
<1>6. Typed(r)'
  BY <1>2, <1>4, <1>5 DEF Typed, Alone
<1>7. ChildOK(r)' /\ TimeOK(r)'
  BY <1>1, <1>2, <1>3, <1>4, <1>5 DEF ReqOK, ChildOK, TimeOK, Alone
<1>8. OutputOK(r)'
  BY <1>1, <1>2, <1>3, <1>4, <1>5 DEF ReqOK, ChildOK, OutputOK, Alone
<1> QED BY <1>4, <1>6, <1>7, <1>8, AloneKeeps, Frame DEF ReqOK, Alone

LEMMA ReadStep == ASSUME IInv, NEW r \in Requests, Read(r) PROVE IInv'
<1>1. PICK p \in Pipes :
        /\ CanRead(r, p)
        /\ \/ /\ pipe[r][p] > 0
              /\ pipe' = [pipe EXCEPT ![r][p] = @ - 1]
              /\ got' = [got EXCEPT ![r][p] = @ + 1]
              /\ drained' = drained
           \/ /\ pipe[r][p] = 0
              /\ drained' = [drained EXCEPT ![r][p] = "whole"]
              /\ UNCHANGED <<pipe, got>>
  BY DEF Read
<1>2. ReqOK(r) /\ Typed(r)
  BY TypedShape DEF IInv
<1>3. child'[r] = child[r] /\ Alone(r)
  BY <1>1 DEF IInv, Shape, Read, Alone, Local
<1>4. ChildOK(r)' /\ TimeOK(r)'
  BY <1>2, <1>3 DEF ReqOK, ChildOK, TimeOK, Alone
<1>5. drained[r][p] = "reading" /\ pc[r] # "returned"
  BY <1>1, <1>2 DEF CanRead, ReqOK, OutputOK
<1>6. CASE pipe[r][p] > 0
  <2>1. /\ pipe'[r] = [pipe[r] EXCEPT ![p] = @ - 1] /\ got'[r] = [got[r] EXCEPT ![p] = @ + 1]
        /\ drained'[r] = drained[r]
    <3>1. /\ pipe' = [pipe EXCEPT ![r][p] = @ - 1]
          /\ got' = [got EXCEPT ![r][p] = @ + 1]
          /\ drained' = drained
      BY <1>1, <1>6
    <3>2. pipe'[r] = [pipe[r] EXCEPT ![p] = @ - 1]
      BY <3>1 DEF IInv, Shape
    <3>3. got'[r] = [got[r] EXCEPT ![p] = @ + 1]
      BY <3>1 DEF IInv, Shape
    <3> QED BY <3>1, <3>2, <3>3
  <2>2. Typed(r)'
    BY <1>2, <1>3, <1>6, <2>1, RunAssumption DEF Typed, Alone
  <2>3. ASSUME child[r] \in Child, NEW q \in Pipes, drained[r][q] # "panicked"
        PROVE  child[r].todo[q] + pipe'[r][q] + got'[r][q] = child[r].out[q]
    <3>1. child[r].todo[q] + pipe[r][q] + got[r][q] = child[r].out[q]
      BY <1>2, <2>3 DEF ReqOK, OutputOK
    <3>2. child[r].todo \in [Pipes -> 0 .. Output] /\ pipe[r] \in [Pipes -> 0 .. PipeSize]
          /\ got[r] \in [Pipes -> Nat]
      BY <1>2, <2>3 DEF Typed, Child
    <3>3. CASE q = p
      BY <2>1, <3>1, <3>2, <3>3, RunAssumption
    <3>4. CASE q # p
      BY <2>1, <3>1, <3>2, <3>4
    <3> QED BY <3>3, <3>4
  <2>4. child[r] \in Child
    BY <1>1, <1>2, Records DEF CanRead, Typed
  <2>5. ASSUME NEW q \in Pipes PROVE got'[r][q] <= Output
    <3>2. CASE q # p
      BY <1>2, <2>1, <3>2 DEF ReqOK, OutputOK, Typed
    <3>1. child[r].todo[q] \in Nat /\ pipe'[r][q] \in Nat /\ got'[r][q] \in Nat
          /\ child[r].out[q] \in 0 .. Output
      BY <2>2, <2>4, RunAssumption DEF Typed, Child
    <3>3. CASE q = p
      BY <1>5, <2>3, <2>4, <3>1, <3>3, RunAssumption
    <3> QED BY <3>2, <3>3
  <2>6. \A q \in Pipes : drained[r][q] = "whole" => pipe'[r][q] = 0
    BY <1>2, <1>5, <2>1 DEF ReqOK, OutputOK, Typed
  <2>7. OutputOK(r)'
    BY <1>2, <1>3, <1>5, <2>1, <2>3, <2>5, <2>6 DEF ReqOK, OutputOK, Alone
  <2> QED BY <1>3, <1>4, <2>2, <2>7, AloneKeeps, Frame DEF ReqOK, Alone
<1>7. CASE pipe[r][p] = 0
  <2>1. pipe'[r] = pipe[r] /\ got'[r] = got[r]
        /\ drained'[r] = [drained[r] EXCEPT ![p] = "whole"]
    BY <1>1, <1>7 DEF IInv, Shape
  <2>2. Typed(r)'
    BY <1>2, <1>3, <2>1 DEF Typed, Alone, Drain
  <2>3. child[r].state # "running"
    BY <1>1, <1>7 DEF CanRead, Ended
  <2>4. OutputOK(r)'
    BY <1>2, <1>3, <1>5, <1>7, <2>1, <2>3 DEF ReqOK, OutputOK, Alone
  <2> QED BY <1>3, <1>4, <2>2, <2>4, AloneKeeps, Frame DEF ReqOK, Alone
<1> QED BY <1>1, <1>6, <1>7

LEMMA ReadFailsStep == ASSUME IInv, NEW r \in Requests, ReadFails(r) PROVE IInv'
<1>1. PICK p \in Pipes, d \in {"failed", "panicked"} :
        /\ drained[r][p] = "reading"
        /\ drained'[r] = [drained[r] EXCEPT ![p] = d]
        /\ got'[r] = IF d = "failed" THEN got[r] ELSE [got[r] EXCEPT ![p] = 0]
        /\ drained' = [drained EXCEPT ![r] = drained'[r]]
        /\ got' = [got EXCEPT ![r] = got'[r]]
  BY DEF ReadFails, IInv, Shape
<1>2. ReqOK(r) /\ Typed(r)
  BY TypedShape DEF IInv
<1>3. child'[r] = child[r] /\ pipe'[r] = pipe[r] /\ Alone(r)
  BY <1>1 DEF IInv, Shape, ReadFails, Alone, Local
<1>4. ChildOK(r)' /\ TimeOK(r)'
  BY <1>2, <1>3 DEF ReqOK, ChildOK, TimeOK, Alone
<1>5. Typed(r)'
  BY <1>1, <1>2, <1>3 DEF Typed, Alone, Drain
<1>6. OutputOK(r)'
  <2>1. \A q \in Pipes :
          /\ drained'[r][q] = IF q = p THEN d ELSE drained[r][q]
          /\ q # p \/ d = "failed" => got'[r][q] = got[r][q]
          /\ got'[r][q] = got[r][q] \/ got'[r][q] = 0
    BY <1>1, <1>2 DEF Typed
  <2>2. \A q \in Pipes : got'[r][q] <= Output
    BY <1>2, <2>1, RunAssumption DEF ReqOK, OutputOK
  <2>3. pc[r] # "returned"
    BY <1>1, <1>2 DEF ReqOK, OutputOK
  <2>4. ASSUME child[r] \in Child, NEW q \in Pipes, drained'[r][q] # "panicked"
        PROVE  child[r].todo[q] + pipe[r][q] + got'[r][q] = child[r].out[q]
    <3>1. drained[r][q] # "panicked" /\ got'[r][q] = got[r][q]
      BY <1>1, <2>1, <2>4
    <3> QED BY <1>2, <2>4, <3>1 DEF ReqOK, OutputOK
  <2>5. \A q \in Pipes : drained'[r][q] = "whole" => drained[r][q] = "whole"
    BY <2>1
  <2> QED BY <1>2, <1>3, <2>2, <2>3, <2>4, <2>5 DEF ReqOK, OutputOK, Alone
<1> QED BY <1>3, <1>4, <1>5, <1>6, AloneKeeps, Frame DEF ReqOK, Alone

(* Time, starts and crashes touch every request.                            *)
LEMMA TickStep == ASSUME IInv, Tick PROVE IInv'
<1>1. ASSUME NEW r \in Requests
      PROVE  /\ pc'[r] = pc[r] /\ left'[r] = left[r] /\ child'[r] = child[r]
             /\ pipe'[r] = pipe[r] /\ got'[r] = got[r] /\ drained'[r] = drained[r]
             /\ result'[r] = result[r] /\ Patient(r)
             /\ age'[r] = (IF pc[r] \in Running THEN age[r] + 1 ELSE age[r])
             /\ dir'[r] = (IF dir[r].there /\ dir[r].idle <= ReapAfter
                          THEN [dir[r] EXCEPT !.idle = @ + 1] ELSE dir[r])
  BY DEF Tick, process
<1>2. ASSUME NEW r \in Requests
      PROVE  \/ dir[r] = NoDir /\ dir'[r] = NoDir
             \/ /\ dir[r] \in Exists /\ dir'[r] \in Exists
                /\ dir'[r].idle <= dir[r].idle + 1 /\ dir'[r].failed = dir[r].failed
  <2>1. CASE dir[r] = NoDir
    BY <1>1, <2>1, Records
  <2>2. CASE dir[r] \in Exists /\ dir[r].idle <= ReapAfter
    <3>1. dir'[r] = [dir[r] EXCEPT !.idle = @ + 1] /\ Aged(dir[r])
      BY <1>1, <2>2, Records
    <3>2. /\ dir'[r] \in Exists /\ dir'[r].idle = dir[r].idle + 1
          /\ dir'[r].failed = dir[r].failed
      BY <3>1 DEF Aged
    <3> QED BY <2>2, <3>2, Records
  <2>3. CASE dir[r] \in Exists /\ ~(dir[r].idle <= ReapAfter)
    <3>1. dir'[r] = dir[r]
      BY <1>1, <2>3
    <3>2. dir[r].idle \in Nat
      BY <2>3, Records
    <3>3. dir'[r].idle <= dir[r].idle + 1
      BY <3>1, <3>2
    <3> QED BY <2>3, <3>1, <3>3
  <2> QED BY <2>1, <2>2, <2>3 DEF IInv, Shape
<1>3. Shape'
  BY <1>1, <1>2 DEF Tick, process, IInv, Shape
<1>4. ASSUME NEW r \in Requests PROVE ReqOK(r)'
  <2>1. ReqOK(r) /\ Typed(r)
    BY TypedShape DEF IInv
  <2>2. ChildOK(r)' /\ OutputOK(r)'
    BY <1>1, <2>1 DEF ReqOK, ChildOK, OutputOK
  <2>3. pc[r] \in Running => pc[r] \in Polling \union {"terminating"}
    BY <1>1 DEF Patient, Running, Polling, Ending
  <2>4. TimeOK(r)'
    <3>1. CASE pc[r] \notin Running
      BY <1>1, <2>1, <3>1 DEF ReqOK, TimeOK, Running, Ending
    <3>2. CASE pc[r] = "terminating"
      <4>1. age[r] <= Timeout + Grace /\ age[r] \in Nat /\ age'[r] = age[r] + 1
        BY <1>1, <2>1, <3>2 DEF Typed, Patient, Polling, Running, Ending
      <4>2. age'[r] <= Span
        BY <4>1, RunAssumption DEF Span
      <4>3. child[r] \in Child => child[r].kind # "quick"
        BY <2>1, <3>2 DEF ReqOK, TimeOK
      <4> QED BY <1>1, <3>2, <4>2, <4>3 DEF TimeOK, Polling
    <3>3. CASE pc[r] \in Polling
      <4>1. child[r] \in Child /\ child[r].state \in {"running", "zombie", "reaped"}
        BY <2>1, <3>3 DEF ReqOK, ChildOK, Running, Child
      <4>2. ~Busy(r) /\ age[r] <= Timeout
        BY <1>1, <3>3 DEF Patient, Polling
      <4>3. child[r].kind # "quick"
        <5> SUFFICES ASSUME child[r].kind = "quick" PROVE FALSE
          OBVIOUS
        <5>1. child[r].state # "zombie" /\ child[r].todo # Nothing
          BY <4>2 DEF Busy, Zombie
        <5>2. child[r].todo \in [Pipes -> 0 .. Output] /\ pipe[r] \in [Pipes -> 0 .. PipeSize]
          BY <2>1, <4>1 DEF Typed, Child
        <5>3. PICK p \in Pipes : child[r].todo[p] # 0
          BY <5>1, <5>2 DEF Nothing
        <5>4. child[r].todo[p] > 0
          BY <5>2, <5>3, RunAssumption
        <5>5. ~CanRead(r, p) /\ ~Broken(r, p) /\ pipe[r][p] >= PipeSize
          BY <4>2, <5>2, <5>4, RunAssumption DEF Busy
        <5>6. pipe[r][p] > 0
          BY <5>2, <5>5, RunAssumption
        <5>7. drained[r][p] = "whole"
          BY <2>1, <4>1, <5>5, <5>6 DEF CanRead, Broken, Typed, Drain
        <5> QED BY <2>1, <5>6, <5>7 DEF ReqOK, OutputOK
      <4>4. age[r] \in Nat /\ age'[r] = age[r] + 1
        BY <1>1, <2>1, <3>3 DEF Typed, Running
      <4>5. age'[r] <= Timeout + 1 /\ age'[r] <= Span
        BY <4>2, <4>4, RunAssumption DEF Span
      <4> QED BY <1>1, <4>3, <4>5 DEF TimeOK
    <3> QED BY <2>3, <3>1, <3>2, <3>3
  <2>5. DirOK(r)'
    <3>1. CASE pc[r] \in Running
      <4>1. /\ dir[r] \in Exists /\ dir'[r] \in Exists /\ dir'[r].idle <= dir[r].idle + 1
            /\ left[r] < MaxCommands
            /\ dir[r].idle <= (MaxCommands - left[r] - 1) * Span + age[r]
        BY <1>2, <2>1, <3>1, Records DEF ReqOK, DirOK, Live
      <4>2. (MaxCommands - left[r] - 1) * Span \in Nat
        <5>1. MaxCommands - left[r] - 1 \in Nat
          BY <2>1, <4>1, RunAssumption DEF Typed
        <5> QED BY <5>1, SpanSum
      <4>3. dir'[r].idle \in Nat /\ dir[r].idle \in Nat /\ age[r] \in Nat
        BY <2>1, <4>1, Records DEF Typed
      <4>4. dir'[r].idle <= (MaxCommands - left[r] - 1) * Span + (age[r] + 1)
        BY <4>1, <4>2, <4>3
      <4>5. pc[r] \in Live /\ pc[r] \notin {"done", "idle"}
        BY <3>1 DEF Live, Running, Polling, Ending
      <4> QED BY <1>1, <3>1, <4>1, <4>4, <4>5 DEF DirOK
    <3>2. CASE pc[r] \notin Running
      <4>1. pc[r] \in {"idle", "done", "dead"} /\ pc[r] \notin Live
        BY <1>1, <3>2 DEF Patient, Live, Running, Polling, Ending
      <4>2. pc[r] = "idle" => dir'[r] = NoDir
        BY <1>2, <2>1, Records DEF ReqOK, DirOK
      <4>3. dir'[r].there => dir'[r].failed = dir[r].failed /\ dir[r].there
        BY <1>2, Records
      <4> QED BY <1>1, <2>1, <3>2, <4>1, <4>2, <4>3 DEF ReqOK, DirOK
    <3> QED BY <3>1, <3>2
  <2> QED BY <2>2, <2>4, <2>5 DEF ReqOK
<1> QED BY <1>3, <1>4 DEF IInv

(* What the reaper takes is no live request's: a request is never as old.   *)
LEMMA YoungWhileLive ==
  ASSUME IInv, NEW r \in Requests, pc[r] \in Live
  PROVE  dir[r] \in Exists /\ dir[r].idle <= ReapAfter
<1>1. ReqOK(r) /\ Typed(r)
  BY TypedShape DEF IInv
<1>2. dir[r] \in Exists /\ dir[r].idle \in Nat
  BY <1>1, Records DEF ReqOK, DirOK
<1>3. PICK n \in Nat : n <= MaxCommands /\ dir[r].idle <= n * Span
  <2>1. CASE pc[r] \notin Running
    <3>1. dir[r].idle <= (MaxCommands - left[r]) * Span
      BY <1>1, <2>1 DEF ReqOK, DirOK
    <3>2. MaxCommands - left[r] \in Nat /\ MaxCommands - left[r] <= MaxCommands
      BY <1>1, RunAssumption DEF Typed
    <3> QED BY <3>1, <3>2
  <2>2. CASE pc[r] \in Running
    <3> DEFINE n == MaxCommands - left[r] - 1
    <3>1. n \in Nat /\ n + 1 <= MaxCommands
      BY <1>1, <2>2, RunAssumption DEF ReqOK, DirOK, Typed
    <3>2. dir[r].idle <= n * Span + age[r] /\ age[r] <= Span /\ age[r] \in Nat
      BY <1>1, <2>2 DEF ReqOK, DirOK, TimeOK, Typed
    <3> HIDE DEF n
    <3>3. (n + 1) * Span = n * Span + Span /\ Span \in Nat /\ n * Span \in Nat
      BY <3>1, SpanSum
    <3>4. dir[r].idle <= (n + 1) * Span
      BY <1>2, <3>2, <3>3
    <3> QED BY <3>1, <3>4
  <2> QED BY <2>1, <2>2
<1>4. n * Span <= ReapAfter /\ n * Span \in Nat
  BY <1>3, SpanSum
<1> QED BY <1>2, <1>3, <1>4, RunAssumption

LEMMA StartStep == ASSUME IInv, Start PROVE IInv'
<1>1. ASSUME NEW r \in Requests
      PROVE  /\ pc'[r] = pc[r] /\ left'[r] = left[r] /\ child'[r] = child[r]
             /\ pipe'[r] = pipe[r] /\ got'[r] = got[r] /\ drained'[r] = drained[r]
             /\ result'[r] = result[r] /\ age'[r] = age[r]
             /\ dir'[r] = dir[r] \/ (dir'[r] = NoDir /\ pc[r] \notin Live)
  <2>1. pc[r] \in Live => ~Stale(r)
    <3> SUFFICES ASSUME pc[r] \in Live, Stale(r) PROVE FALSE
      OBVIOUS
    <3>1. dir[r].idle \in Nat /\ dir[r].idle <= ReapAfter /\ dir[r].idle > ReapAfter
      BY YoungWhileLive, Records DEF Stale
    <3> QED BY <3>1, RunAssumption
  <2> QED BY <2>1 DEF Start, process
<1>2. Shape'
  BY <1>1 DEF Start, process, IInv, Shape
<1>3. ASSUME NEW r \in Requests PROVE ReqOK(r)'
  <2>1. ReqOK(r)
    BY DEF IInv
  <2>2. ChildOK(r)' /\ OutputOK(r)' /\ TimeOK(r)'
    BY <1>1, <2>1 DEF ReqOK, ChildOK, OutputOK, TimeOK
  <2>3. DirOK(r)'
    <3>1. CASE dir'[r] = dir[r]
      BY <1>1, <2>1, <3>1 DEF ReqOK, DirOK
    <3>2. CASE dir'[r] = NoDir /\ pc[r] \notin Live
      BY <1>1, <3>2, Records DEF DirOK, Live
    <3> QED BY <1>1, <3>1, <3>2
  <2> QED BY <2>2, <2>3 DEF ReqOK
<1> QED BY <1>2, <1>3 DEF IInv

LEMMA CrashStep == ASSUME IInv, Crash PROVE IInv'
<1>1. ASSUME NEW r \in Requests
      PROVE  /\ left'[r] = left[r] /\ pipe'[r] = pipe[r] /\ got'[r] = got[r]
             /\ drained'[r] = drained[r] /\ result'[r] = result[r] /\ age'[r] = age[r]
             /\ dir'[r] = dir[r]
             /\ \/ pc[r] \in Live /\ pc'[r] = "dead" /\ child'[r] = NoChild
                \/ pc[r] \notin Live /\ pc'[r] = pc[r] /\ child'[r] = child[r]
  BY DEF Crash
<1>2. Shape'
  BY <1>1 DEF Crash, IInv, Shape, Pc
<1>3. ASSUME NEW r \in Requests PROVE ReqOK(r)'
  <2>1. ReqOK(r)
    BY DEF IInv
  <2>2. CASE pc[r] \notin Live
    BY <1>1, <2>1, <2>2 DEF ReqOK, ChildOK, OutputOK, TimeOK, DirOK
  <2>3. CASE pc[r] \in Live
    <3>1. pc'[r] = "dead" /\ child'[r] = NoChild
      BY <1>1, <2>3
    <3>2. ChildOK(r)'
      BY <3>1, Records DEF ChildOK, Running, Polling, Ending
    <3>3. OutputOK(r)' /\ TimeOK(r)'
      BY <1>1, <2>1, <3>1, Records DEF ReqOK, OutputOK, TimeOK, Polling
    <3>4. DirOK(r)'
      BY <1>1, <3>1 DEF DirOK, Live, Running, Polling, Ending
    <3> QED BY <3>2, <3>3, <3>4 DEF ReqOK
  <2> QED BY <2>2, <2>3
<1> QED BY <1>2, <1>3 DEF IInv

LEMMA Step == IInv /\ [Next]_vars => IInv'
<1> SUFFICES ASSUME IInv, [Next]_vars PROVE IInv'
  OBVIOUS
<1>1. CASE UNCHANGED vars
  BY <1>1 DEF vars, process, IInv, Shape, ReqOK, ChildOK, OutputOK, TimeOK, DirOK
<1>2. ASSUME NEW r \in Requests, Begin(r) PROVE IInv'
  BY <1>2, BeginStep
<1>3. ASSUME NEW r \in Requests, Call(r) PROVE IInv'
  BY <1>3, SpawnStep, PlainStep, ReapStep, SignalStep, JoinStep DEF Call
<1>4. ASSUME NEW r \in Requests, Stop(r) \/ Continue(r) \/ GiveUp(r) \/ Drop(r) PROVE IInv'
  BY <1>4, PlainStep, GiveUpStep, DropStep
<1>5. ASSUME NEW r \in Requests, Process(r) PROVE IInv'
  BY <1>5, WriteStep, EndStep, ReadStep, ReadFailsStep DEF Process
<1> QED BY <1>1, <1>2, <1>3, <1>4, <1>5, TickStep, StartStep, CrashStep DEF Next, Thread

(* The inductive invariant of all that is said below.                       *)
THEOREM Invariance == Spec => []IInv
BY Initially, Step, PTL DEF Spec

(* Every variable has its type: no command runs on beyond its time and the  *)
(* grace of terminate, no reader has more than was written.                 *)
THEOREM Typing == Spec => []TypeOK
<1>1. IInv => TypeOK
  <2> SUFFICES ASSUME IInv PROVE TypeOK
    OBVIOUS
  <2>1. ASSUME NEW r \in Requests
        PROVE  age[r] \in 0 .. Timeout + Grace + 1 /\ got[r] \in [Pipes -> 0 .. Output]
    <3>1. ReqOK(r) /\ Typed(r)
      BY TypedShape DEF IInv
    <3>2. age[r] \in 0 .. Timeout + Grace + 1
      BY <3>1, RunAssumption DEF ReqOK, TimeOK, Typed, Span
    <3>3. got[r] \in [Pipes -> 0 .. Output]
      BY <3>1, RunAssumption DEF ReqOK, OutputOK, Typed
    <3> QED BY <3>2, <3>3
  <2>2. /\ age \in [Requests -> 0 .. Timeout + Grace + 1]
        /\ got \in [Requests -> [Pipes -> 0 .. Output]]
    BY <2>1 DEF IInv, Shape
  <2> QED BY <2>2 DEF IInv, Shape, TypeOK
<1> QED BY <1>1, Invariance, PTL

(* run_in returns, in whichever way, after its process is dead and reaped   *)
(* (terminate, ChildGuard).                                                 *)
THEOREM NoChildEscapes == Spec => []ChildReaped
<1>1. IInv => ChildReaped
  BY DEF IInv, ReqOK, ChildOK, ChildReaped
<1> QED BY <1>1, Invariance, PTL

(* A success of run_in is one.  It has all of the output that drain threads *)
(* read to the end; where a read failed it misses no more than a pipe holds *)
(* (run_in, drain): the process could not go on writing and succeed.        *)
THEOREM WholeSuccess == Spec => []SuccessIsWhole
<1>1. IInv => SuccessIsWhole
  <2> SUFFICES ASSUME IInv, NEW r \in Requests, pc[r] = "returned", result[r] = "ok"
               PROVE  /\ child[r].code = 0 /\ child[r].signal = "none"
                      /\ \A p \in Pipes :
                           drained[r][p] # "panicked" =>
                             /\ got[r][p] <= child[r].out[p]
                             /\ child[r].out[p] <= got[r][p] + MayMiss(drained[r][p])
    BY DEF SuccessIsWhole
  <2>1. ReqOK(r) /\ Typed(r)
    BY TypedShape DEF IInv
  <2>2. child[r] \in Child /\ child[r].state = "reaped"
    BY <2>1 DEF ReqOK, ChildOK
  <2>3. child[r].signal = "none" /\ child[r].code = 0
    BY <2>1 DEF ReqOK, OutputOK
  <2>4. child[r].todo = Nothing
    BY <2>1, <2>2, <2>3 DEF ReqOK, OutputOK
  <2>5. ASSUME NEW p \in Pipes, drained[r][p] # "panicked"
        PROVE  /\ got[r][p] <= child[r].out[p]
               /\ child[r].out[p] <= got[r][p] + MayMiss(drained[r][p])
    <3>1. child[r].todo[p] + pipe[r][p] + got[r][p] = child[r].out[p] /\ child[r].todo[p] = 0
      BY <2>1, <2>2, <2>4, <2>5 DEF ReqOK, OutputOK, Nothing
    <3>2. drained[r][p] = "failed" \/ pipe[r][p] = 0
      BY <2>1, <2>5 DEF ReqOK, OutputOK, Typed, Drain
    <3>3. pipe[r][p] \in 0 .. PipeSize /\ got[r][p] \in Nat /\ PipeSize \in Nat
      BY <2>1, RunAssumption DEF Typed
    <3>4. pipe[r][p] <= MayMiss(drained[r][p]) /\ MayMiss(drained[r][p]) \in Nat
      BY <3>2, <3>3 DEF MayMiss
    <3>5. child[r].out[p] = pipe[r][p] + got[r][p]
      BY <3>1, <3>3
    <3> QED BY <3>3, <3>4, <3>5
  <2> QED BY <2>3, <2>5
<1> QED BY <1>1, Invariance, PTL

(* A process that works and only has to be read never times out (drain).    *)
THEOREM RealTimeouts == Spec => []TimeoutIsReal
<1>1. IInv => TimeoutIsReal
  BY DEF IInv, ReqOK, ChildOK, OutputOK, TimeOK, TimeoutIsReal
<1> QED BY <1>1, Invariance, PTL

(* No reaper takes the directory of a running request (reap_workdirs).      *)
THEOREM DirsKept == Spec => []DirNotPulled
<1>1. IInv => DirNotPulled
  BY Records DEF IInv, ReqOK, DirOK, DirNotPulled
<1> QED BY <1>1, Invariance, PTL

(* Only a failed directory is left behind, and only on request (WorkDir).   *)
THEOREM Cleared == Spec => []DirsCleared
<1>1. IInv => DirsCleared
  BY DEF IInv, ReqOK, DirOK, DirsCleared
<1> QED BY <1>1, Invariance, PTL

----------------------------------------------------------------------------
(* The log.                                                                 *)

(* Sizes, and which file there is when.                                     *)
FilesOK ==
  /\ \A p \in Paths : There(p) => Len(files[p]) <= Len(genOf)
  /\ \A p \in Paths : Lines(p) \subseteq DOMAIN genOf
  /\ size <= Len(genOf)
  /\ writer \notin {"down", "idle"} => Len(genOf) < MaxLines
  /\ hand # Unlinked => There(hand)

(* Only a compression has a staging file; the writer waits for its end      *)
(* before it touches the backups.                                           *)
GzipOK ==
  /\ There(Staging) \/ gzip # "none" => cfg.gz /\ cfg.max > 0
  /\ gzip \in {"started", "writing", "written"} => There(Staging)
  /\ poisoned => writer \in {"idle", "down"} /\ gzip = "none"
  /\ writer \in {"down", "removing", "shifting"} => gzip = "none"
  /\ writer = "shifting" => index < cfg.max

LogShape == LogTypeOK /\ FilesOK /\ GzipOK

LEMMA PathsFacts ==
  /\ Active \in Paths /\ Staging \in Paths /\ Unlinked \notin Paths
  /\ Active = -1 /\ Staging = 0 /\ Unlinked = -2
  /\ MaxSlot \in Nat /\ MaxLines \in Nat /\ MaxFailures \in Nat /\ MaxStops \in Nat
  /\ RotateSize \in Nat
  /\ \A i \in 1..MaxSlot : i \in Paths
  /\ \A p \in Paths : p = -1 \/ p = 0 \/ p \in 1..MaxSlot
  /\ Absent \notin Seq(1..MaxLines) /\ Absent # <<>>
<1>1. <<>> \in Seq(1..MaxLines)
  OBVIOUS
<1>2. /\ MaxSlot \in Nat /\ MaxLines \in Nat /\ MaxFailures \in Nat /\ MaxStops \in Nat
      /\ RotateSize \in Nat /\ Absent \notin Seq(1..MaxLines)
  BY LogAssumption DEF LogAssumption
<1>3. /\ Active = -1 /\ Staging = 0 /\ Unlinked = -2
      /\ Active \in Paths /\ Staging \in Paths
      /\ \A i \in 1..MaxSlot : i \in Paths
  BY DEF Paths, Active, Staging, Unlinked, Slots
<1>4. \A p \in Paths : p = -1 \/ p = 0 \/ p \in 1..MaxSlot
  BY DEF Paths, Active, Staging, Slots
<1>5. Unlinked \notin Paths
  BY <1>2, <1>3, <1>4
<1> QED BY <1>1, <1>2, <1>3, <1>4, <1>5

LEMMA CfgFacts ==
  ASSUME LogTypeOK
  PROVE  /\ cfg.max \in 0..MaxSlot /\ cfg.gz \in BOOLEAN
         /\ \A i \in 1..cfg.max : i \in Paths
<1>1. cfg.max \in 0..MaxSlot /\ cfg.gz \in BOOLEAN
  BY LogAssumption DEF LogAssumption, LogTypeOK
<1> QED BY <1>1, PathsFacts

----------------------------------------------------------------------------
(* What the file system does to the lines in its files.                     *)

LEMMA RenameEffect ==
  ASSUME LogTypeOK, NEW p \in Paths, NEW q \in Paths, p # q, There(p), Rename(p, q)
  PROVE  /\ files' \in [Paths -> Seq(1..MaxLines) \cup {Absent}]
         /\ hand' \in Paths \cup {Unlinked}
         /\ files'[p] = Absent /\ files'[q] = files[p]
         /\ \A o \in Paths : o # p /\ o # q => files'[o] = files[o]
         /\ ~There(p)' /\ There(q)' /\ \A o \in Paths : o # p /\ o # q => There(o)' = There(o)
         /\ Lines(p)' = {} /\ Lines(q)' = Lines(p)
         /\ \A o \in Paths : o # p /\ o # q => Lines(o)' = Lines(o)
         /\ hand' = IF hand = p THEN q ELSE IF hand = q THEN Unlinked ELSE hand
<1>1. /\ files \in [Paths -> Seq(1..MaxLines) \cup {Absent}]
      /\ hand \in Paths \cup {Unlinked}
  BY DEF LogTypeOK
<1>2. /\ files' \in [Paths -> Seq(1..MaxLines) \cup {Absent}]
      /\ files'[p] = Absent /\ files'[q] = files[p]
      /\ \A o \in Paths : o # p /\ o # q => files'[o] = files[o]
  BY <1>1 DEF Rename
<1>3. hand' = IF hand = p THEN q ELSE IF hand = q THEN Unlinked ELSE hand
  BY DEF Rename
<1> QED BY <1>1, <1>2, <1>3 DEF There, Lines

LEMMA RemoveEffect ==
  ASSUME LogTypeOK, NEW p \in Paths, Remove(p)
  PROVE  /\ files' \in [Paths -> Seq(1..MaxLines) \cup {Absent}]
         /\ hand' \in Paths \cup {Unlinked}
         /\ \A o \in Paths : o # p => files'[o] = files[o]
         /\ ~There(p)' /\ \A o \in Paths : o # p => There(o)' = There(o)
         /\ Lines(p)' = {} /\ \A o \in Paths : o # p => Lines(o)' = Lines(o)
         /\ hand' = IF hand = p THEN Unlinked ELSE hand
<1>1. /\ files \in [Paths -> Seq(1..MaxLines) \cup {Absent}]
      /\ hand \in Paths \cup {Unlinked}
  BY DEF LogTypeOK
<1>2. /\ files' \in [Paths -> Seq(1..MaxLines) \cup {Absent}]
      /\ files'[p] = Absent
      /\ \A o \in Paths : o # p => files'[o] = files[o]
  BY <1>1 DEF Remove
<1>3. hand' = IF hand = p THEN Unlinked ELSE hand
  BY DEF Remove
<1> QED BY <1>1, <1>2, <1>3 DEF There, Lines

LEMMA OpenEffect ==
  ASSUME LogTypeOK, OpenLog
  PROVE  /\ files' \in [Paths -> Seq(1..MaxLines) \cup {Absent}]
         /\ hand' = Active
         /\ There(Active)' /\ Len(files'[Active]) = IF There(Active) THEN Len(files[Active]) ELSE 0
         /\ \A o \in Paths : o # Active => files'[o] = files[o] /\ There(o)' = There(o)
         /\ \A o \in Paths : Lines(o)' = Lines(o)
<1>1. /\ files \in [Paths -> Seq(1..MaxLines) \cup {Absent}]
      /\ Active \in Paths /\ Absent # <<>>
      /\ <<>> \in Seq(1..MaxLines) /\ Len(<<>>) = 0
  BY PathsFacts DEF LogTypeOK
<1>2. /\ files' \in [Paths -> Seq(1..MaxLines) \cup {Absent}]
      /\ files'[Active] = IF There(Active) THEN files[Active] ELSE <<>>
      /\ \A o \in Paths : o # Active => files'[o] = files[o]
  BY <1>1 DEF OpenLog
<1>3. There(Active)' /\ \A o \in Paths : o # Active => There(o)' = There(o)
  BY <1>1, <1>2 DEF There
<1>4. Lines(Active)' = Lines(Active)
  BY <1>1, <1>2, <1>3 DEF Lines
<1>5. \A o \in Paths : o # Active => Lines(o)' = Lines(o)
  BY <1>2, <1>3 DEF Lines
<1> QED BY <1>1, <1>2, <1>3, <1>4, <1>5 DEF OpenLog

LEMMA SameEffect ==
  ASSUME UNCHANGED files
  PROVE  \A o \in Paths : There(o)' = There(o) /\ Lines(o)' = Lines(o)
BY DEF There, Lines

----------------------------------------------------------------------------
(* Types, sizes and staging files.                                          *)

(* A rename that is not of the staging file.                                *)
LEMMA RenameShape ==
  ASSUME LogShape, NEW p \in Paths, NEW q \in Paths, p # q, p # Staging, There(p), Rename(p, q),
         UNCHANGED genOf
  PROVE  /\ files' \in [Paths -> Seq(1..MaxLines) \cup {Absent}] /\ hand' \in Paths \cup {Unlinked}
         /\ \A o \in Paths : There(o)' => Len(files'[o]) <= Len(genOf)
         /\ \A o \in Paths : Lines(o)' \subseteq DOMAIN genOf
         /\ q # Staging => There(Staging)' = There(Staging)
         /\ q = Staging => There(Staging)'
         /\ hand' # Unlinked => There(hand)'
<1> USE DEF LogShape
<1>1. \A o \in Paths : There(o)' => Len(files'[o]) <= Len(genOf)
  BY RenameEffect DEF FilesOK, There
<1>2. \A o \in Paths : Lines(o)' \subseteq DOMAIN genOf
  BY RenameEffect DEF FilesOK
<1>3. hand' # Unlinked => There(hand)'
  <2>1. hand \in Paths \cup {Unlinked} /\ p # Unlinked /\ q # Unlinked
    BY PathsFacts DEF LogTypeOK
  <2>2. CASE hand = p
    BY <2>1, <2>2, RenameEffect DEF There
  <2>3. CASE hand = q
    BY <2>1, <2>3, RenameEffect
  <2>4. CASE hand # p /\ hand # q
    BY <2>1, <2>4, RenameEffect DEF FilesOK, There
  <2> QED BY <2>2, <2>3, <2>4
<1> QED BY <1>1, <1>2, <1>3, RenameEffect, PathsFacts

LEMMA SameShape ==
  ASSUME LogShape, UNCHANGED <<files, hand, genOf>>
  PROVE  /\ files' \in [Paths -> Seq(1..MaxLines) \cup {Absent}] /\ hand' \in Paths \cup {Unlinked}
         /\ \A o \in Paths : There(o)' => Len(files'[o]) <= Len(genOf)
         /\ \A o \in Paths : Lines(o)' \subseteq DOMAIN genOf
         /\ There(Staging)' = There(Staging)
         /\ hand' # Unlinked => There(hand)'
BY SameEffect, PathsFacts DEF LogShape, LogTypeOK, FilesOK, There

LEMMA ShapeInit == LogInit => LogShape
<1> SUFFICES ASSUME LogInit PROVE LogShape
  OBVIOUS
<1>1. \A p \in Paths : files[p] = Absent /\ ~There(p) /\ Lines(p) = {}
  BY DEF LogInit, There, Lines
<1>2. LogTypeOK
  BY PathsFacts DEF LogInit, LogTypeOK
<1>3. FilesOK
  BY <1>1, PathsFacts DEF LogInit, FilesOK
<1>4. GzipOK
  BY <1>1, PathsFacts DEF LogInit, GzipOK
<1> QED BY <1>2, <1>3, <1>4 DEF LogShape

LEMMA ShapeStep == LogShape /\ [LogNext]_logVars => LogShape'
<1> SUFFICES ASSUME LogShape, [LogNext]_logVars PROVE LogShape'
  OBVIOUS
<1> USE DEF LogShape, rest, audit, disk
<1>f. /\ cfg.max \in 0..MaxSlot /\ cfg.gz \in BOOLEAN
      /\ \A i \in 1..cfg.max : i \in Paths
  BY CfgFacts
<1>t. /\ failures \in 0..MaxFailures /\ gen \in Nat /\ genOf \in Seq(0..gen)
      /\ Len(genOf) \in 0..MaxLines /\ size \in 0..MaxLines
      /\ \A p \in Paths : There(p) => files[p] \in Seq(1..MaxLines) /\ Len(files[p]) \in Nat
  BY PathsFacts DEF LogTypeOK, There
<1>w. Works \/ Fails => failures' \in 0..MaxFailures
  BY <1>t, PathsFacts DEF Works, Fails
(* A step that logs nothing and keeps the generation, whatever it does to the files. *)
<1>g. ASSUME UNCHANGED <<cfg, genOf, gen>>, failures' \in 0..MaxFailures, stops' \in 0..MaxStops,
             poisoned' \in BOOLEAN,
             files' \in [Paths -> Seq(1..MaxLines) \cup {Absent}], hand' \in Paths \cup {Unlinked},
             size' \in 0..MaxLines, index' \in 0..MaxSlot,
             writer' \in {"down", "idle", "joining", "removing", "shifting", "reopening", "appending"},
             gzip' \in {"none", "started", "writing", "written", "ended"}
      PROVE  LogTypeOK'
  BY <1>g DEF LogTypeOK
<1>1. CASE StartLog
  <2>1. /\ writer = "down" /\ OpenLog /\ gzip' = Recovered /\ writer' = "idle"
        /\ size' = IF There(Active) THEN Len(files[Active]) ELSE 0
        /\ poisoned' = FALSE /\ UNCHANGED <<cfg, index, stops, genOf, gen, failures>>
    BY <1>1 DEF StartLog
  <2>2. size' \in 0..MaxLines /\ size' <= Len(genOf)
    BY <2>1, <1>t, PathsFacts DEF FilesOK
  <2>3. LogTypeOK'
    BY <1>g, <1>t, <2>1, <2>2, OpenEffect, PathsFacts DEF LogTypeOK, Recovered
  <2>4. FilesOK'
    BY <1>t, <2>1, <2>2, OpenEffect, PathsFacts DEF FilesOK
  <2>5. GzipOK'
    BY <2>1, OpenEffect, PathsFacts DEF GzipOK, Recovered
  <2> QED BY <2>3, <2>4, <2>5
<1>2. CASE Log
  <2>1. LogTypeOK'
    BY <1>2, <1>g DEF Log, LogTypeOK
  <2>2. FilesOK'
    BY <1>2, <1>t, SameShape DEF Log, FilesOK
  <2>3. GzipOK'
    BY <1>2, SameEffect, PathsFacts DEF Log, GzipOK
  <2> QED BY <2>1, <2>2, <2>3
<1>3. CASE JoinGzip
  <2>1. LogTypeOK'
    BY <1>3, <1>g DEF JoinGzip, LogTypeOK
  <2>2. FilesOK'
    BY <1>3, <1>t, SameShape DEF JoinGzip, FilesOK
  <2>3. GzipOK'
    BY <1>3, SameEffect, PathsFacts DEF JoinGzip, GzipOK
  <2> QED BY <2>1, <2>2, <2>3
<1>4. CASE RemoveOne
  <2> DEFINE p == IF cfg.max = 0 THEN Active ELSE cfg.max
  <2>1. p \in Paths /\ p # Staging
    BY <1>f, PathsFacts
  <2>2. /\ writer = "removing" /\ ((Works /\ Remove(p)) \/ (Fails /\ UNCHANGED disk))
        /\ writer' = IF cfg.max = 0 THEN "reopening" ELSE "shifting"
        /\ index' = IF cfg.max = 0 THEN 0 ELSE cfg.max - 1
        /\ UNCHANGED <<size, gzip, cfg, poisoned, stops, genOf, gen>>
    BY <1>4 DEF RemoveOne, Fails
  <2> HIDE DEF p
  <2>3. /\ files' \in [Paths -> Seq(1..MaxLines) \cup {Absent}] /\ hand' \in Paths \cup {Unlinked}
        /\ \A o \in Paths : There(o)' => There(o) /\ files'[o] = files[o]
        /\ \A o \in Paths : Lines(o)' \subseteq Lines(o)
        /\ There(Staging)' = There(Staging)
        /\ hand' # Unlinked => There(hand)'
    <3>1. CASE Remove(p)
      <4>1. hand' # Unlinked => hand' = hand /\ hand # p /\ hand \in Paths
        BY <2>1, <3>1, RemoveEffect DEF LogTypeOK
      <4>2. hand' # Unlinked => There(hand)'
        BY <2>1, <3>1, <4>1, RemoveEffect DEF FilesOK, There
      <4> QED BY <2>1, <3>1, <4>2, RemoveEffect, PathsFacts
    <3>2. CASE UNCHANGED disk
      BY <2>2, <3>2, SameShape, SameEffect, PathsFacts
    <3> QED BY <2>2, <3>1, <3>2
  <2>4. index' \in 0..MaxSlot /\ (cfg.max # 0 => index' < cfg.max)
    BY <1>f, <2>2, PathsFacts
  <2>5. LogTypeOK'
    BY <1>g, <1>w, <2>2, <2>3, <2>4 DEF LogTypeOK
  <2>6. FilesOK'
    BY <1>t, <2>2, <2>3 DEF FilesOK
  <2>7. GzipOK'
    BY <2>2, <2>3, <2>4 DEF GzipOK
  <2> QED BY <2>5, <2>6, <2>7
<1>5. CASE Shift
  <2> DEFINE i == index
  <2>1. /\ writer = "shifting" /\ i > 0 /\ index' = i - 1 /\ writer' = writer
        /\ UNCHANGED <<size, gzip, cfg, poisoned, stops, genOf, gen>>
        /\ \/ There(i) /\ Works /\ Rename(i, i + 1)
           \/ Fails /\ UNCHANGED disk
           \/ Works /\ UNCHANGED disk
    BY <1>5 DEF Shift, Fails
  <2>2. i \in Paths /\ i + 1 \in Paths /\ i # i + 1 /\ i # Staging /\ i + 1 # Staging /\ i \in Nat
    BY <1>f, <2>1, PathsFacts DEF GzipOK, LogTypeOK
  <2>3. /\ files' \in [Paths -> Seq(1..MaxLines) \cup {Absent}] /\ hand' \in Paths \cup {Unlinked}
        /\ \A o \in Paths : There(o)' => Len(files'[o]) <= Len(genOf)
        /\ \A o \in Paths : Lines(o)' \subseteq DOMAIN genOf
        /\ There(Staging)' = There(Staging)
        /\ hand' # Unlinked => There(hand)'
    <3>1. CASE There(i) /\ Rename(i, i + 1)
      <4> HIDE DEF i
      <4> QED BY <2>1, <2>2, <3>1, RenameShape
    <3>2. CASE UNCHANGED disk
      BY <2>1, <3>2, SameShape
    <3> QED BY <2>1, <3>1, <3>2
  <2>4. index' \in 0..MaxSlot /\ index' < cfg.max
    BY <1>f, <2>1, <2>2, PathsFacts DEF GzipOK
  <2>5. LogTypeOK'
    BY <1>g, <1>w, <2>1, <2>3, <2>4 DEF LogTypeOK
  <2>6. FilesOK'
    BY <2>1, <2>3 DEF FilesOK
  <2>7. GzipOK'
    BY <2>1, <2>3, <2>4 DEF GzipOK
  <2> QED BY <2>5, <2>6, <2>7
<1>6. CASE Park
  <2>1. /\ writer = "shifting" /\ index = 0
        /\ UNCHANGED <<cfg, size, index, stops, genOf, gen>>
    BY <1>6 DEF Park
  <2>2. cfg.max > 0 /\ 1 \in Paths /\ gzip = "none" /\ poisoned = FALSE
    BY <1>f, <2>1, PathsFacts DEF GzipOK, LogTypeOK
  <2>3. \/ /\ There(Active) /\ cfg.gz /\ Rename(Active, Staging)
           /\ gzip' = "started" /\ writer' = "reopening" /\ poisoned' = poisoned /\ Works
        \/ /\ There(Active) /\ cfg.gz /\ Rename(Active, Staging)
           /\ gzip' = gzip /\ writer' = "idle" /\ poisoned' = TRUE
           /\ failures < MaxFailures /\ failures' = failures + 1
        \/ /\ There(Active) /\ Rename(Active, 1)
           /\ gzip' = gzip /\ writer' = "reopening" /\ poisoned' = poisoned /\ Works
        \/ /\ UNCHANGED disk
           /\ gzip' = gzip /\ writer' = "reopening" /\ poisoned' = poisoned /\ (Works \/ Fails)
    BY <1>6 DEF Park, Fails
  <2>4. failures' \in 0..MaxFailures
    BY <1>t, <1>w, <2>3, PathsFacts
  <2>5. /\ files' \in [Paths -> Seq(1..MaxLines) \cup {Absent}] /\ hand' \in Paths \cup {Unlinked}
        /\ \A o \in Paths : There(o)' => Len(files'[o]) <= Len(genOf)
        /\ \A o \in Paths : Lines(o)' \subseteq DOMAIN genOf
        /\ There(Staging)' => There(Staging) \/ cfg.gz
        /\ gzip' = "started" => There(Staging)'
        /\ hand' # Unlinked => There(hand)'
    <3>1. CASE There(Active) /\ cfg.gz /\ Rename(Active, Staging)
      BY <2>1, <3>1, RenameShape, PathsFacts
    <3>2. CASE There(Active) /\ Rename(Active, 1) /\ gzip' = gzip
      BY <2>1, <2>2, <3>2, RenameShape, PathsFacts
    <3>3. CASE UNCHANGED disk /\ gzip' = gzip
      BY <2>1, <2>2, <3>3, SameShape
    <3> QED BY <2>3, <3>1, <3>2, <3>3
  <2>6. LogTypeOK'
    BY <1>g, <2>1, <2>3, <2>4, <2>5 DEF LogTypeOK
  <2>7. FilesOK'
    BY <2>1, <2>3, <2>5 DEF FilesOK
  <2>8. GzipOK'
    BY <2>1, <2>2, <2>3, <2>5 DEF GzipOK
  <2> QED BY <2>6, <2>7, <2>8
<1>7. CASE Reopen
  <2>1. /\ writer = "reopening" /\ size' = 0 /\ gen' = gen + 1 /\ writer' = "appending"
        /\ UNCHANGED <<index, gzip, cfg, poisoned, stops, genOf>>
        /\ (Works /\ OpenLog) \/ (Fails /\ UNCHANGED disk)
    BY <1>7 DEF Reopen, Fails
  <2>2. genOf' \in Seq(0..gen') /\ Len(genOf') = Len(genOf) /\ gen' \in Nat
    <3>1. 0..gen \subseteq 0..(gen + 1)
      BY <1>t
    <3> QED BY <1>t, <2>1, <3>1
  <2>3. /\ files' \in [Paths -> Seq(1..MaxLines) \cup {Absent}] /\ hand' \in Paths \cup {Unlinked}
        /\ \A o \in Paths : There(o)' => Len(files'[o]) <= Len(genOf)
        /\ \A o \in Paths : Lines(o)' \subseteq DOMAIN genOf
        /\ There(Staging)' = There(Staging)
        /\ hand' # Unlinked => There(hand)'
    <3>1. CASE OpenLog
      <4>1. \A o \in Paths : There(o)' => Len(files'[o]) <= Len(genOf)
        <5>1. ASSUME NEW o \in Paths, o # Active, There(o)' PROVE Len(files'[o]) <= Len(genOf)
          BY <3>1, <5>1, OpenEffect DEF FilesOK
        <5>2. Len(files'[Active]) <= Len(genOf)
          BY <1>t, <3>1, OpenEffect, PathsFacts DEF FilesOK
        <5> QED BY <5>1, <5>2
      <4>2. \A o \in Paths : Lines(o)' \subseteq DOMAIN genOf
        BY <3>1, OpenEffect DEF FilesOK
      <4>3. hand' # Unlinked => There(hand)'
        BY <3>1, OpenEffect DEF There
      <4> QED BY <3>1, <4>1, <4>2, <4>3, OpenEffect, PathsFacts
    <3>2. CASE UNCHANGED disk
      BY <2>1, <3>2, SameShape
    <3> QED BY <2>1, <3>1, <3>2
  <2>4. LogTypeOK'
    BY <1>w, <1>t, <2>1, <2>2, <2>3, PathsFacts DEF LogTypeOK
  <2>5. FilesOK'
    BY <1>t, <2>1, <2>3 DEF FilesOK
  <2>6. GzipOK'
    BY <2>1, <2>3 DEF GzipOK
  <2> QED BY <2>4, <2>5, <2>6
<1>8. CASE AppendLine
  <2>1. /\ writer = "appending" /\ writer' = "idle"
        /\ UNCHANGED <<hand, index, gzip, cfg, poisoned, stops, gen, failures>>
    BY <1>8 DEF AppendLine
  <2>2. CASE UNCHANGED <<genOf, files, size>>
    BY <2>1, <2>2, SameEffect, PathsFacts DEF LogTypeOK, FilesOK, GzipOK, There
  <2>3. CASE /\ genOf' = Append(genOf, gen)
             /\ files' = IF hand = Unlinked THEN files
                         ELSE [files EXCEPT ![hand] = Append(@, Len(genOf'))]
             /\ size' = size + 1
    <3>1. /\ Len(genOf) < MaxLines /\ Len(genOf') = Len(genOf) + 1 /\ genOf' \in Seq(0..gen)
          /\ DOMAIN genOf \subseteq DOMAIN genOf' /\ Len(genOf') \in DOMAIN genOf'
          /\ Len(genOf') \in 1..MaxLines
      <4>1. Len(genOf) < MaxLines /\ MaxLines \in Nat
        BY <2>1, PathsFacts DEF FilesOK
      <4>2. /\ genOf' \in Seq(0..gen) /\ Len(genOf') = Len(genOf) + 1
            /\ DOMAIN genOf' = 1..Len(genOf') /\ DOMAIN genOf = 1..Len(genOf)
        BY <1>t, <2>3
      <4> QED BY <1>t, <4>1, <4>2
    <3>2. ASSUME NEW o \in Paths
          PROVE  /\ There(o)' = There(o)
                 /\ files'[o] \in Seq(1..MaxLines) \cup {Absent}
                 /\ There(o) => Len(files'[o]) <= Len(genOf')
                 /\ Lines(o)' \subseteq Lines(o) \cup {Len(genOf')}
      <4>1. CASE hand # Unlinked /\ o = hand
        <5> DEFINE n == Len(genOf')
        <5>1. There(o) /\ files[o] \in Seq(1..MaxLines) /\ Len(files[o]) <= Len(genOf)
          BY <1>t, <4>1 DEF FilesOK
        <5>2. files'[o] = Append(files[o], n)
          BY <2>3, <4>1 DEF LogTypeOK
        <5> HIDE DEF n
        <5>3. n \in 1..MaxLines
          BY <3>1 DEF n
        <5>4. /\ files'[o] \in Seq(1..MaxLines) /\ Len(files'[o]) = Len(files[o]) + 1
              /\ \A j \in DOMAIN files'[o] : files'[o][j] \in {files[o][m] : m \in DOMAIN files[o]} \cup {n}
          BY <5>1, <5>2, <5>3
        <5>5. There(o)'
          BY <5>4, PathsFacts DEF There
        <5>6. Lines(o)' \subseteq Lines(o) \cup {n}
          BY <5>1, <5>4, <5>5 DEF Lines
        <5> QED BY <1>t, <3>1, <5>1, <5>4, <5>5, <5>6 DEF n
      <4>2. CASE hand = Unlinked \/ o # hand
        <5>1. files'[o] = files[o]
          BY <2>3, <4>2 DEF LogTypeOK
        <5> QED BY <1>t, <3>1, <5>1 DEF There, Lines, LogTypeOK, FilesOK
      <4> QED BY <4>1, <4>2
    <3>3. files' \in [Paths -> Seq(1..MaxLines) \cup {Absent}]
      <4>1. files' = [o \in Paths |-> files'[o]]
        BY <2>3 DEF LogTypeOK
      <4> QED BY <3>2, <4>1
    <3>4. LogTypeOK'
      BY <1>t, <2>1, <2>3, <3>1, <3>3, PathsFacts DEF LogTypeOK, FilesOK
    <3>5. FilesOK'
      <4>1. hand' # Unlinked => There(hand)'
        BY <2>1, <3>2 DEF FilesOK, LogTypeOK, There
      <4>2. size' <= Len(genOf')
        BY <1>t, <2>3, <3>1 DEF FilesOK
      <4> QED BY <2>1, <3>1, <3>2, <4>1, <4>2 DEF FilesOK
    <3>6. GzipOK'
      BY <2>1, <3>2, PathsFacts DEF GzipOK
    <3> QED BY <3>4, <3>5, <3>6
  <2> QED BY <1>8, <2>2, <2>3 DEF AppendLine
<1>9. CASE Gzip
  <2>1. /\ gzip \in {"started", "writing", "written"} /\ UNCHANGED <<size, writer, index, cfg, poisoned, stops, genOf, gen>>
        /\ failures' \in 0..MaxFailures /\ gzip' \in {"writing", "written", "ended"}
    BY <1>9, <1>t, <1>w DEF Gzip, GzipCreate, GzipFinish, GzipRemove, GzipEnds, Works
  <2>2. There(Staging) /\ cfg.gz /\ cfg.max > 0 /\ 1 \in Paths /\ 1 # Staging
    BY <1>f, <2>1, PathsFacts DEF GzipOK
  <2>3. /\ files' \in [Paths -> Seq(1..MaxLines) \cup {Absent}] /\ hand' \in Paths \cup {Unlinked}
        /\ \A o \in Paths : There(o)' => Len(files'[o]) <= Len(genOf)
        /\ \A o \in Paths : Lines(o)' \subseteq DOMAIN genOf
        /\ gzip' # "ended" => There(Staging)'
        /\ hand' # Unlinked => There(hand)'
    <3>1. ASSUME NEW c \in Seq(1..MaxLines), files' = [files EXCEPT ![1] = c], hand' = hand,
                 Len(c) <= Len(genOf), {c[j] : j \in DOMAIN c} \subseteq DOMAIN genOf
          PROVE  <2>3
      <4>1. /\ files' \in [Paths -> Seq(1..MaxLines) \cup {Absent}] /\ files'[1] = c
            /\ \A o \in Paths : o # 1 => files'[o] = files[o]
        BY <2>2, <3>1 DEF LogTypeOK
      <4>2. There(1)' /\ \A o \in Paths : o # 1 => There(o)' = There(o) /\ Lines(o)' = Lines(o)
        <5>1. c # Absent
          BY PathsFacts
        <5>2. There(1)'
          BY <4>1, <5>1 DEF There
        <5>3. ASSUME NEW o \in Paths, o # 1
              PROVE  There(o)' = There(o) /\ Lines(o)' = Lines(o)
          <6>1. files'[o] = files[o]
            BY <4>1, <5>3
          <6> QED BY <6>1 DEF There, Lines
        <5> QED BY <5>2, <5>3
      <4>3. Lines(1)' \subseteq DOMAIN genOf
        BY <3>1, <4>1 DEF Lines
      <4>4. hand' # Unlinked => There(hand)'
        BY <3>1, <4>2 DEF FilesOK, LogTypeOK
      <4> QED BY <2>2, <3>1, <4>1, <4>2, <4>3, <4>4, PathsFacts DEF FilesOK, LogTypeOK
    <3>2. CASE GzipCreate /\ ~UNCHANGED disk
      <4>1. files' = [files EXCEPT ![1] = <<>>] /\ hand' = hand
        BY <3>2 DEF GzipCreate, Fails
      <4>2. <<>> \in Seq(1..MaxLines) /\ Len(<<>>) = 0 /\ DOMAIN <<>> = {}
        OBVIOUS
      <4>3. {<<>>[j] : j \in DOMAIN <<>>} \subseteq DOMAIN genOf /\ 0 <= Len(genOf)
        BY <1>t, <4>2
      <4> QED BY <3>1, <4>1, <4>2, <4>3
    <3>3. CASE GzipFinish /\ ~UNCHANGED disk
      <4>1. files' = [files EXCEPT ![1] = files[Staging]] /\ hand' = hand
        BY <3>3 DEF GzipFinish, Fails
      <4>2. /\ files[Staging] \in Seq(1..MaxLines) /\ Len(files[Staging]) <= Len(genOf)
            /\ {files[Staging][j] : j \in DOMAIN files[Staging]} \subseteq DOMAIN genOf
        <5>1. Lines(Staging) = {files[Staging][j] : j \in DOMAIN files[Staging]}
          BY <2>2 DEF Lines
        <5> QED BY <1>t, <2>2, <5>1, PathsFacts DEF FilesOK
      <4> QED BY <3>1, <4>1, <4>2
    <3>4. CASE GzipRemove /\ ~UNCHANGED disk
      <4>1. Remove(Staging) /\ gzip' = "ended"
        BY <3>4 DEF GzipRemove, Fails, GzipEnds
      <4>2. hand' # Unlinked => hand' = hand /\ hand # Staging /\ hand \in Paths
        BY <4>1, RemoveEffect, PathsFacts DEF LogTypeOK
      <4>3. hand' # Unlinked => There(hand)'
        BY <4>1, <4>2, RemoveEffect, PathsFacts DEF FilesOK, There
      <4>4. \A o \in Paths : There(o)' => Len(files'[o]) <= Len(genOf)
        BY <4>1, RemoveEffect, PathsFacts DEF FilesOK
      <4>5. \A o \in Paths : Lines(o)' \subseteq DOMAIN genOf
        BY <4>1, RemoveEffect, PathsFacts DEF FilesOK
      <4> QED BY <4>1, <4>3, <4>4, <4>5, RemoveEffect, PathsFacts
    <3>5. CASE UNCHANGED disk
      BY <2>1, <2>2, <3>5, SameShape
    <3> QED BY <1>9, <3>2, <3>3, <3>4, <3>5 DEF Gzip
  <2>4. LogTypeOK'
    BY <1>g, <2>1, <2>3 DEF LogTypeOK
  <2>5. FilesOK'
    BY <2>1, <2>3 DEF FilesOK
  <2>6. GzipOK'
    BY <2>1, <2>2, <2>3 DEF GzipOK
  <2> QED BY <2>4, <2>5, <2>6
<1>10. CASE StopLog
  <2>1. /\ stops' \in 0..MaxStops /\ failures' \in 0..MaxFailures
        /\ writer' = "down" /\ gzip' = "none" /\ hand' = Unlinked /\ index' = 0
        /\ UNCHANGED <<cfg, files, size, poisoned, genOf, gen>>
    BY <1>10, <1>t, <1>w, PathsFacts DEF StopLog, LogTypeOK
  <2>2. LogTypeOK'
    BY <1>g, <2>1, PathsFacts DEF LogTypeOK
  <2>3. FilesOK'
    BY <2>1, SameEffect DEF FilesOK
  <2>4. GzipOK'
    BY <2>1, SameEffect, PathsFacts DEF GzipOK
  <2> QED BY <2>2, <2>3, <2>4
<1>11. CASE UNCHANGED logVars
  <2>1. /\ UNCHANGED <<cfg, files, hand, size, writer, index, gzip, poisoned, stops, genOf, gen, failures>>
        /\ UNCHANGED files
    BY <1>11 DEF logVars
  <2>2. LogTypeOK' /\ GzipOK'
    BY <2>1, SameEffect, PathsFacts DEF LogTypeOK, GzipOK
  <2>3. FilesOK'
    BY <2>1, SameEffect DEF FilesOK, There
  <2> QED BY <2>2, <2>3
<1> QED BY <1>1, <1>2, <1>3, <1>4, <1>5, <1>6, <1>7, <1>8, <1>9, <1>10, <1>11 DEF LogNext, Rotate

----------------------------------------------------------------------------
(* What is kept.  If only k backups counted, the generations in Window(k)   *)
(* would have to be readable.  That is so but for those in a set X, one for *)
(* each failure; the others are in files S, each alone in its files.        *)

Window(k) ==
  IF writer = "reopening" \/ (writer = "shifting" /\ k > index)
  THEN (gen + 1 - k)..(gen + 1) ELSE (gen - k)..gen

(* Files that will be replaced, or removed, before they are shifted.        *)
Doomed ==
  IF writer = "down" \/ poisoned THEN IF There(Staging) THEN {1} ELSE {}
  ELSE (IF gzip \in {"started", "writing"} THEN {1} ELSE {Staging})
       \cup (IF writer = "shifting" THEN {index + 1} ELSE {})

UpTo(k) == {Active} \cup IF k = 0 THEN {} ELSE {Staging} \cup 1..k

(* The lines that are in one of those generations.                          *)
Due(k, X) == {l \in DOMAIN genOf : genOf[l] \in Window(k) \ X}

Covered(k, X, S) == \A l \in Due(k, X) : \E p \in S : l \in Lines(p)

SameGen(D, lines) == \A l, m \in lines \cap D : genOf[l] = genOf[m]

Lone(k, X, S) == \A p \in S : SameGen(Due(k, X), Lines(p))

(* A staging file whose copy is in use need not be compressed again, but    *)
(* may be.                                                                  *)
Copied(k, X, S) ==
  1 \in S /\ There(Staging) => \A l \in Due(k, X) : l \in Lines(1) <=> l \in Lines(Staging)

(* What is appended finds no other generation in its file, or does not      *)
(* count.                                                                   *)
Ready(k, X) ==
  IF writer = "reopening" THEN Lines(Active) \cap Due(k, X) = {}
  ELSE gen \in X \/
    /\ \A l \in Lines(Active) \cap Due(k, X) : genOf[l] = gen
    /\ hand = Active \/ writer = "down" \/ poisoned

Good(k, X, S) ==
  /\ Active \in S /\ S \subseteq UpTo(k) \ Doomed
  /\ Covered(k, X, S) /\ Lone(k, X, S) /\ Copied(k, X, S) /\ Ready(k, X)

KeptFor(k) ==
  \E X, S : IsFiniteSet(X) /\ Cardinality(X) <= failures /\ Good(k, X, S)

LogInv == LogShape /\ \A k \in 0..cfg.max : KeptFor(k)

(* A step that needs no charge, and one that charges one generation.        *)
LEMMA Free ==
  ASSUME NEW k, NEW X, NEW S, IsFiniteSet(X), Cardinality(X) <= failures,
         failures \in Nat, failures' = failures \/ failures' = failures + 1, Good(k, X, S)'
  PROVE  KeptFor(k)'
<1>1. Cardinality(X) \in Nat
  BY FS_CardinalityType
<1>2. Cardinality(X) <= failures'
  BY <1>1
<1> QED BY <1>2 DEF KeptFor

LEMMA Charge ==
  ASSUME NEW k, NEW X, NEW g, NEW S, IsFiniteSet(X), Cardinality(X) <= failures,
         failures \in Nat, failures' = failures + 1, Good(k, X \cup {g}, S)'
  PROVE  KeptFor(k)'
<1>1. IsFiniteSet(X \cup {g}) /\ Cardinality(X) \in Nat
      /\ Cardinality(X \cup {g}) = IF g \in X THEN Cardinality(X) ELSE Cardinality(X) + 1
  BY FS_CardinalityType, FS_AddElement
<1>2. Cardinality(X \cup {g}) <= failures'
  BY <1>1
<1> QED BY <1>1, <1>2 DEF KeptFor

(* The step keeps what is due in the files T, when it moves it there from   *)
(* the files S and nothing else becomes due.                                *)
LEMMA Carry ==
  ASSUME NEW j, NEW k, NEW X, NEW Y, NEW S, NEW T, Good(j, X, S), genOf' = genOf,
         Due(k, Y)' \subseteq Due(j, X),
         \A p \in S : \A l \in Lines(p) : l \in Due(k, Y)' => \E q \in T : l \in Lines(q)',
         \A q \in T : \E p \in S : \A l \in Lines(q)' : l \in Due(k, Y)' => l \in Lines(p)
  PROVE  Covered(k, Y, T)' /\ Lone(k, Y, T)'
<1>1. Covered(k, Y, T)'
  BY DEF Covered, Good
<1>2. Lone(k, Y, T)'
  <2> SUFFICES ASSUME NEW q \in T, NEW l \in Lines(q)', NEW m \in Lines(q)',
                      l \in Due(k, Y)', m \in Due(k, Y)'
               PROVE  genOf[l] = genOf[m]
    BY DEF Lone, SameGen
  <2>1. PICK p \in S : l \in Lines(p) /\ m \in Lines(p)
    OBVIOUS
  <2>2. l \in Due(j, X) /\ m \in Due(j, X)
    OBVIOUS
  <2> QED BY <2>1, <2>2 DEF Good, Lone, SameGen
<1> QED BY <1>1, <1>2

LEMMA CarryNothing ==
  ASSUME NEW j, NEW k, NEW X, NEW Y, NEW S, Good(j, X, S), genOf' = genOf,
         Due(k, Y)' \subseteq Due(j, X), \A p \in S : Lines(p)' = Lines(p)
  PROVE  Covered(k, Y, S)' /\ Lone(k, Y, S)'
<1>1. \A p \in S : \A l \in Lines(p) : \E q \in S : l \in Lines(q)'
  OBVIOUS
<1>2. \A q \in S : \E p \in S : \A l \in Lines(q)' : l \in Lines(p)
  OBVIOUS
<1> QED BY <1>1, <1>2, Carry

(* The one generation that a file of S holds is charged.                    *)
LEMMA LoneGeneration ==
  ASSUME NEW k, NEW X, NEW S, Good(k, X, S), NEW p \in S
  PROVE  \E g : Lines(p) \cap Due(k, X \cup {g}) = {}
<1>1. CASE Lines(p) \cap Due(k, X) = {}
  BY <1>1 DEF Due
<1>2. CASE Lines(p) \cap Due(k, X) # {}
  <2>1. PICK l \in Lines(p) \cap Due(k, X) : TRUE
    BY <1>2
  <2>2. \A m \in Lines(p) \cap Due(k, X) : genOf[m] = genOf[l]
    BY <2>1 DEF Good, Lone, SameGen
  <2>3. Lines(p) \cap Due(k, X \cup {genOf[l]}) = {}
    BY <2>2 DEF Due
  <2> QED BY <2>3
<1> QED BY <1>1, <1>2

(* Lines of the file system.                                                *)
LEMMA UpToFacts ==
  ASSUME LogShape, NEW k \in 0..cfg.max
  PROVE  /\ UpTo(k) \subseteq Paths
         /\ \A p \in UpTo(k) : p = Active \/ p = Staging \/ (p \in 1..k /\ p \in Nat)
         /\ k # 0 => Staging \in UpTo(k) /\ 1 \in UpTo(k)
         /\ k = 0 => UpTo(k) = {Active}
         /\ k \in Nat /\ cfg.max \in Nat
<1>1. cfg.max \in 0..MaxSlot /\ \A i \in 1..cfg.max : i \in Paths
  BY CfgFacts DEF LogShape
<1> QED BY <1>1, PathsFacts DEF UpTo

LEMMA Numbers ==
  ASSUME LogShape
  PROVE  /\ failures \in Nat /\ gen \in Nat /\ gen + 1 \in Nat
         /\ \A l \in DOMAIN genOf : genOf[l] \in 0..gen
BY LogAssumption DEF LogShape, LogTypeOK, LogAssumption

----------------------------------------------------------------------------
(* One step of each action, for k backups.                                  *)

(* The files stay as they are.                                              *)
LEMMA SameFiles ==
  ASSUME LogShape, NEW j \in 0..cfg.max, NEW k, NEW X, NEW Y, NEW S,
         Good(j, X, S), UNCHANGED <<files, genOf>>, Due(k, Y)' \subseteq Due(j, X)
  PROVE  Covered(k, Y, S)' /\ Lone(k, Y, S)' /\ Copied(k, Y, S)'
<1>1. S \subseteq Paths /\ Staging \in Paths
  BY UpToFacts, PathsFacts DEF Good
<1>2. \A p \in Paths : Lines(p)' = Lines(p) /\ There(p)' = There(p)
  BY SameEffect
<1>3. Covered(k, Y, S)' /\ Lone(k, Y, S)'
  BY <1>1, <1>2, CarryNothing
<1>4. Copied(k, Y, S)'
  BY <1>1, <1>2 DEF Copied, Good
<1> QED BY <1>3, <1>4

LEMMA StartKeeps ==
  ASSUME LogShape, NEW k \in 0..cfg.max, KeptFor(k), StartLog
  PROVE  KeptFor(k)'
<1>1. PICK X, S : IsFiniteSet(X) /\ Cardinality(X) <= failures /\ Good(k, X, S)
  BY DEF KeptFor
<1>0. PICK T : T = IF There(Staging) THEN S ELSE S \ {Staging}
  OBVIOUS
<1>2. /\ writer = "down" /\ OpenLog /\ gzip' = Recovered /\ writer' = "idle" /\ poisoned' = FALSE
      /\ cfg' = cfg /\ genOf' = genOf /\ gen' = gen /\ failures' = failures /\ hand' = Active
  BY OpenEffect DEF StartLog, audit, LogShape
<1>3. S \subseteq Paths /\ Staging \in Paths /\ Staging # Active /\ Active \in S /\ T \subseteq S
      /\ Active \in T
      /\ S \subseteq UpTo(k)
  BY <1>0, <1>1, UpToFacts, PathsFacts DEF Good
<1>4. /\ \A p \in Paths : Lines(p)' = Lines(p)
      /\ There(Staging)' = There(Staging) /\ (~There(Staging) => Lines(Staging) = {})
  BY <1>2, <1>3, OpenEffect DEF LogShape, Lines
<1>5. Due(k, X)' = Due(k, X)
  BY <1>2 DEF Due, Window
<1>6. Covered(k, X, T)' /\ Lone(k, X, T)'
  <2>1. \A p \in S : \A l \in Lines(p) : \E q \in T : l \in Lines(q)'
    BY <1>0, <1>3, <1>4
  <2>2. \A q \in T : \E p \in S : \A l \in Lines(q)' : l \in Lines(p)
    BY <1>0, <1>3, <1>4
  <2> QED BY <1>1, <1>2, <1>5, <2>1, <2>2, Carry
<1>7. There(Staging) => 1 \notin S
  BY <1>1, <1>2 DEF Good, Doomed
<1>8. T \cap Doomed' = {}
  <2>1. CASE There(Staging)
    <3>1. gzip' = "started"
      BY <1>2, <2>1 DEF Recovered, LogShape, GzipOK
    <3> QED BY <1>0, <1>2, <1>7, <2>1, <3>1 DEF Doomed
  <2>2. CASE ~There(Staging)
    BY <1>0, <1>2, <2>2 DEF Recovered, Doomed
  <2> QED BY <2>1, <2>2
<1>9. Ready(k, X)'
  BY <1>1, <1>2, <1>3, <1>4, <1>5 DEF Good, Ready
<1>10. Copied(k, X, T)'
  BY <1>3, <1>4, <1>7 DEF Copied
<1>11. Good(k, X, T)'
  BY <1>3, <1>6, <1>8, <1>9, <1>10 DEF Good
<1> QED BY <1>1, <1>2, <1>11, Free, Numbers

LEMMA WaitKeeps ==
  ASSUME LogShape, NEW k \in 0..cfg.max, KeptFor(k), Log \/ JoinGzip \/ UNCHANGED logVars
  PROVE  KeptFor(k)'
<1>1. PICK X, S : IsFiniteSet(X) /\ Cardinality(X) <= failures /\ Good(k, X, S)
  BY DEF KeptFor
<1>2. /\ UNCHANGED <<files, hand, cfg, poisoned, genOf, gen, failures, index>>
      /\ \/ writer = "idle" /\ ~poisoned /\ writer' \in {"joining", "appending"} /\ gzip' = gzip
         \/ writer = "joining" /\ writer' = "removing" /\ gzip \in {"none", "ended"} /\ gzip' = "none"
         \/ UNCHANGED <<writer, gzip>>
  BY DEF Log, JoinGzip, logVars, disk, rest, audit
<1>3. There(Staging)' = There(Staging) /\ Lines(Active)' = Lines(Active)
  BY <1>2, SameEffect, PathsFacts
<1>4. Window(k)' = Window(k)
  BY <1>2 DEF Window
<1>5. Due(k, X)' = Due(k, X)
  BY <1>2, <1>4 DEF Due
<1>6. Doomed' = Doomed
  BY <1>2, <1>3 DEF Doomed
<1>7. Ready(k, X)'
  BY <1>1, <1>2, <1>3, <1>5 DEF Good, Ready
<1>8. Covered(k, X, S)' /\ Lone(k, X, S)' /\ Copied(k, X, S)'
  BY <1>1, <1>2, <1>5, SameFiles
<1>9. Good(k, X, S)'
  BY <1>1, <1>6, <1>7, <1>8 DEF Good
<1> QED BY <1>1, <1>2, <1>9, Free, Numbers

(* The oldest backup goes, for which only the last k = max had room; the    *)
(* room is that of one backup less.                                         *)
LEMMA RemoveKeeps ==
  ASSUME LogShape, NEW k \in 0..cfg.max, \A j \in 0..cfg.max : KeptFor(j), RemoveOne
  PROVE  KeptFor(k)'
<1>1. /\ writer = "removing" /\ UNCHANGED <<cfg, poisoned, genOf, gen, gzip>>
      /\ gzip = "none" /\ ~poisoned
      /\ failures' = failures \/ failures' = failures + 1
  BY DEF RemoveOne, rest, audit, Works, Fails, LogShape, GzipOK
<1>2. CASE cfg.max = 0
  <2>1. PICK X, S : IsFiniteSet(X) /\ Cardinality(X) <= failures /\ Good(k, X, S)
    BY DEF KeptFor
  <2>2. k = 0 /\ writer' = "reopening" /\ index' = 0
    BY <1>2, UpToFacts DEF RemoveOne
  <2>3. Due(k, X)' = {}
    BY <1>1, <2>2, Numbers DEF Due, Window
  <2>4. S = {Active}
    BY <2>1, <2>2, UpToFacts DEF Good
  <2>6. 1 \notin S /\ S \cap Doomed' = {}
    BY <1>1, <2>2, <2>4, PathsFacts DEF Doomed
  <2>7. Good(k, X, S)'
    BY <2>1, <2>2, <2>3, <2>4, <2>6 DEF Good, Covered, Lone, SameGen, Copied, Ready
  <2> QED BY <1>1, <2>1, <2>7, Free, Numbers
<1>3. CASE cfg.max > 0
  <2> DEFINE j == IF k = cfg.max THEN k - 1 ELSE k
  <2>1. /\ j \in 0..cfg.max /\ k \in Nat /\ cfg.max \in Nat /\ cfg.max \in Paths
        /\ j < cfg.max /\ cfg.max # Staging /\ cfg.max # Active /\ j <= k
    BY <1>3, UpToFacts, CfgFacts, PathsFacts DEF LogShape
  <2>2. PICK X, S : IsFiniteSet(X) /\ Cardinality(X) <= failures /\ Good(j, X, S)
    BY <2>1 DEF KeptFor
  <2>3. /\ writer' = "shifting" /\ index' = cfg.max - 1
        /\ Remove(cfg.max) \/ UNCHANGED disk
    BY <1>3 DEF RemoveOne, Fails
  <2>4. /\ \A p \in Paths : p # cfg.max => Lines(p)' = Lines(p) /\ There(p)' = There(p)
        /\ hand = Active => hand' = Active
    BY <2>1, <2>3, RemoveEffect, SameEffect DEF LogShape, disk
  <2>5. S \subseteq Paths /\ cfg.max \notin S /\ Active \in S /\ S \subseteq UpTo(k)
    BY <2>1, <2>2, UpToFacts, PathsFacts DEF Good, UpTo
  <2>6. Window(k)' \subseteq Window(j) \cup {gen + 1}
    BY <1>1, <2>1, <2>3, Numbers DEF Window
  <2>7. Due(k, X)' \subseteq Due(j, X)
    BY <1>1, <2>6, Numbers DEF Due
  <2>8. Doomed' = {Staging, cfg.max} /\ Doomed = {Staging}
    BY <1>1, <2>1, <2>3 DEF Doomed
  <2> HIDE DEF j
  <2>9. Covered(k, X, S)' /\ Lone(k, X, S)'
    BY <1>1, <2>2, <2>4, <2>5, <2>7, CarryNothing
  <2>10. Copied(k, X, S)'
    BY <2>1, <2>2, <2>4, <2>5, <2>7, PathsFacts DEF Good, Copied
  <2>11. Ready(k, X)'
    BY <1>1, <2>1, <2>2, <2>3, <2>4, <2>5, <2>7, PathsFacts DEF Good, Ready
  <2>12. Good(k, X, S)'
    BY <2>2, <2>5, <2>8, <2>9, <2>10, <2>11 DEF Good
  <2> QED BY <1>1, <2>2, <2>12, Free, Numbers
<1> QED BY <1>2, <1>3, UpToFacts

(* A backup moves to the next place, which is then no longer doomed.        *)
LEMMA ShiftKeeps ==
  ASSUME LogShape, NEW k \in 0..cfg.max, \A j \in 0..cfg.max : KeptFor(j), Shift
  PROVE  KeptFor(k)'
<1>1. PICK i : i = index
  OBVIOUS
<1>2. /\ writer = "shifting" /\ UNCHANGED <<cfg, poisoned, genOf, gen, gzip, writer>>
      /\ gzip = "none" /\ ~poisoned /\ index' = i - 1
      /\ i \in Nat /\ i > 0 /\ i + 1 <= cfg.max /\ k \in Nat /\ cfg.max \in Nat
      /\ i \in Paths /\ i + 1 \in Paths
      /\ i # i + 1 /\ i # Staging /\ i + 1 # Staging /\ i # Active /\ i + 1 # Active /\ i + 1 # 1
  <2>1. /\ writer = "shifting" /\ UNCHANGED <<cfg, poisoned, genOf, gen, gzip, writer>>
        /\ gzip = "none" /\ ~poisoned /\ index' = i - 1
        /\ i \in Nat /\ i > 0 /\ i < cfg.max
    BY <1>1, PathsFacts DEF Shift, rest, audit, LogShape, GzipOK, LogTypeOK
  <2>2. k \in Nat /\ cfg.max \in Nat /\ \A o \in 1..cfg.max : o \in Paths
    BY CfgFacts, UpToFacts DEF LogShape
  <2> QED BY <2>1, <2>2, PathsFacts
<1>3. \/ There(i) /\ Works /\ Rename(i, i + 1)
      \/ Fails /\ UNCHANGED disk
      \/ ~There(i) /\ Works /\ UNCHANGED disk
  BY <1>1 DEF Shift, Fails
<1>4. /\ \A p \in Paths : p # i /\ p # i + 1 => Lines(p)' = Lines(p) /\ There(p)' = There(p)
      /\ hand = Active => hand' = Active
  BY <1>2, <1>3, RenameEffect, SameEffect DEF LogShape, disk
<1>5. Doomed = {Staging, i + 1} /\ Doomed' = {Staging, i}
  BY <1>1, <1>2 DEF Doomed
<1>6. failures' = failures \/ failures' = failures + 1
  BY <1>3 DEF Works, Fails
<1>7. ASSUME NEW j \in 0..cfg.max, NEW X, NEW Y, NEW S, NEW T,
             Good(j, X, S), Due(k, Y)' \subseteq Due(j, X),
             X \subseteq Y, T \ {i + 1} \subseteq S \ {i}
      PROVE  Copied(k, Y, T)' /\ Ready(k, Y)'
  <2>1. Copied(k, Y, T)'
    <3> SUFFICES ASSUME 1 \in T, There(Staging)'
                 PROVE  \A l \in Due(k, Y)' : l \in Lines(1)' <=> l \in Lines(Staging)'
      BY DEF Copied
    <3>1. 1 \in S /\ 1 # i /\ 1 \in Paths /\ Staging \in Paths
      BY <1>2, <1>7, PathsFacts, UpToFacts DEF Good
    <3>2. Lines(1)' = Lines(1) /\ Lines(Staging)' = Lines(Staging) /\ There(Staging)
      BY <1>2, <1>4, <3>1
    <3> QED BY <1>7, <3>1, <3>2 DEF Good, Copied
  <2>2. Lines(Active)' = Lines(Active)
    BY <1>2, <1>4, PathsFacts
  <2>3. Ready(k, Y)'
    BY <1>2, <1>4, <1>7, <2>2 DEF Good, Ready
  <2> QED BY <2>1, <2>3
<1>8. CASE k <= i
  <2>1. PICK j \in 0..cfg.max : j < i /\ j <= k /\ j = IF k = i THEN k - 1 ELSE k
    BY <1>2, <1>8
  <2>2. PICK X, S : IsFiniteSet(X) /\ Cardinality(X) <= failures /\ Good(j, X, S)
    BY <2>1 DEF KeptFor
  <2>3. S \subseteq Paths /\ i \notin S /\ i + 1 \notin S /\ Active \in S /\ S \subseteq UpTo(k)
    <3>1. S \subseteq UpTo(j) /\ Active \in S
      BY <2>2 DEF Good
    <3>2. /\ UpTo(j) \subseteq Paths /\ j \in Nat
          /\ \A p \in UpTo(j) : p = Active \/ p = Staging \/ (p \in 1..j /\ p \in Nat)
      BY <2>1, UpToFacts
    <3>3. i \notin UpTo(j) /\ i + 1 \notin UpTo(j)
      BY <1>2, <2>1, <3>2
    <3>4. UpTo(j) \subseteq UpTo(k)
      BY <1>2, <2>1, <3>2 DEF UpTo
    <3> QED BY <3>1, <3>2, <3>3, <3>4
  <2>4. Window(k)' \subseteq Window(j) \cup {gen + 1}
    BY <1>1, <1>2, <1>8, <2>1, Numbers DEF Window
  <2>5. Due(k, X)' \subseteq Due(j, X)
    BY <1>2, <2>4, Numbers DEF Due
  <2>6. Covered(k, X, S)' /\ Lone(k, X, S)'
    <3>1. \A p \in S : Lines(p)' = Lines(p)
      BY <1>4, <2>3
    <3> QED BY <1>2, <2>2, <2>5, <3>1, CarryNothing
  <2>7. Copied(k, X, S)' /\ Ready(k, X)'
    BY <1>7, <2>2, <2>3, <2>5
  <2>8. Good(k, X, S)'
    BY <1>5, <2>2, <2>3, <2>6, <2>7 DEF Good
  <2> QED BY <1>6, <2>2, <2>8, Free, Numbers
<1>9. CASE k > i
  <2>1. PICK X, S : IsFiniteSet(X) /\ Cardinality(X) <= failures /\ Good(k, X, S)
    BY DEF KeptFor
  <2>2. S \subseteq Paths /\ i + 1 \notin S /\ Active \in S /\ S \subseteq UpTo(k) /\ Staging \notin S
        /\ i + 1 \in UpTo(k)
    BY <1>2, <1>5, <1>9, <2>1, UpToFacts DEF Good, UpTo
  <2>3. ASSUME NEW Y, X \subseteq Y PROVE Due(k, Y)' \subseteq Due(k, X)
    BY <1>1, <1>2, <1>9, <2>3 DEF Due, Window
  <2>4. CASE There(i) /\ Rename(i, i + 1)
    <3>1. PICK T : T = IF i \in S THEN (S \ {i}) \cup {i + 1} ELSE S
      OBVIOUS
    <3>2. Lines(i + 1)' = Lines(i)
      BY <1>2, <2>4, RenameEffect DEF LogShape
    <3>3. /\ Active \in T /\ T \subseteq UpTo(k) /\ T \cap {Staging, i} = {} /\ T \ {i + 1} \subseteq S \ {i}
      BY <1>2, <2>2, <3>1
    <3>4. \A p \in S : \A l \in Lines(p) : \E q \in T : l \in Lines(q)'
      BY <1>2, <1>4, <2>2, <3>1, <3>2
    <3>5. \A q \in T : \E p \in S : \A l \in Lines(q)' : l \in Lines(p)
      BY <1>2, <1>4, <2>2, <3>1, <3>2
    <3>6. Covered(k, X, T)' /\ Lone(k, X, T)'
      BY <1>2, <2>1, <2>3, <3>4, <3>5, Carry
    <3>7. Copied(k, X, T)' /\ Ready(k, X)'
      BY <1>7, <2>1, <2>3, <3>3
    <3>8. Good(k, X, T)'
      BY <1>5, <3>3, <3>6, <3>7 DEF Good
    <3> QED BY <1>6, <2>1, <3>8, Free, Numbers
  <2>5. CASE (Fails \/ ~There(i)) /\ UNCHANGED disk
    <3>1. PICK T : T = S \ {i}
      OBVIOUS
    <3>2. Active \in T /\ T \subseteq UpTo(k) /\ T \cap {Staging, i} = {} /\ T \subseteq S
      BY <1>2, <2>2, <3>1
    <3>3. \A p \in Paths : Lines(p)' = Lines(p)
      BY <2>5, SameEffect DEF disk
    <3>4. ASSUME NEW Y, X \subseteq Y, i \in S => Lines(i) \cap Due(k, Y) = {}
          PROVE  Good(k, Y, T)'
      <4>1. Due(k, Y)' = Due(k, Y) /\ Due(k, Y)' \subseteq Due(k, X)
        BY <1>1, <1>2, <1>9, <2>3, <3>4 DEF Due, Window
      <4>2. Covered(k, Y, T)' /\ Lone(k, Y, T)'
        <5>1. \A p \in S : \A l \in Lines(p) : l \in Due(k, Y)' => \E q \in T : l \in Lines(q)'
          BY <2>2, <3>1, <3>3, <3>4, <4>1
        <5>2. \A q \in T : \E p \in S : \A l \in Lines(q)' : l \in Lines(p)
          BY <2>2, <3>2, <3>3
        <5> QED BY <1>2, <2>1, <4>1, <5>1, <5>2, Carry
      <4>3. Copied(k, Y, T)' /\ Ready(k, Y)'
        BY <1>7, <2>1, <3>1, <3>4, <4>1
      <4> QED BY <1>5, <3>2, <4>2, <4>3 DEF Good
    <3>5. CASE ~There(i) \/ i \notin S
      <4>1. i \in S => Lines(i) = {}
        BY <3>5 DEF Lines
      <4>2. Good(k, X, T)'
        BY <3>4, <4>1
      <4> QED BY <1>6, <2>1, <4>2, Free, Numbers
    <3>6. CASE There(i) /\ i \in S
      <4>1. PICK g : Lines(i) \cap Due(k, X \cup {g}) = {}
        BY <2>1, <3>6, LoneGeneration
      <4>2. Good(k, X \cup {g}, T)'
        BY <3>4, <4>1
      <4>3. failures' = failures + 1
        BY <2>5, <3>6 DEF Fails
      <4> QED BY <2>1, <4>2, <4>3, Charge, Numbers
    <3> QED BY <3>5, <3>6
  <2> QED BY <1>3, <2>4, <2>5
<1> QED BY <1>2, <1>8, <1>9

(* The active file becomes the newest backup, or is to become it.  When it  *)
(* stays, its generation is charged, for the next is appended to it.        *)
LEMMA ParkKeeps ==
  ASSUME LogShape, NEW k \in 0..cfg.max, KeptFor(k), Park
  PROVE  KeptFor(k)'
<1>1. PICK X, S : IsFiniteSet(X) /\ Cardinality(X) <= failures /\ Good(k, X, S)
  BY DEF KeptFor
<1>2. /\ writer = "shifting" /\ index = 0 /\ UNCHANGED <<cfg, genOf, gen>>
      /\ gzip = "none" /\ ~poisoned /\ cfg.max > 0
      /\ k \in Nat /\ 1 \in Paths /\ Active \in Paths /\ Staging \in Paths
      /\ Active # Staging /\ Active # 1 /\ Staging # 1
  BY CfgFacts, UpToFacts, PathsFacts DEF Park, audit, LogShape, GzipOK, LogTypeOK
<1>3. Doomed = {Staging, 1}
  BY <1>2 DEF Doomed
<1>4. S \subseteq Paths /\ Active \in S /\ S \subseteq UpTo(k) /\ 1 \notin S /\ Staging \notin S
      /\ (k # 0 => Staging \in UpTo(k) /\ 1 \in UpTo(k)) /\ (k = 0 => S = {Active})
  BY <1>1, <1>3, UpToFacts DEF Good
<1>5. \/ /\ There(Active) /\ cfg.gz /\ Works /\ Rename(Active, Staging)
         /\ gzip' = "started" /\ writer' = "reopening" /\ poisoned' = poisoned
      \/ /\ There(Active) /\ cfg.gz /\ Rename(Active, Staging)
         /\ gzip' = gzip /\ writer' = "idle" /\ poisoned' = TRUE
         /\ failures' = failures + 1
      \/ /\ There(Active) /\ ~cfg.gz /\ Works /\ Rename(Active, 1)
         /\ gzip' = gzip /\ writer' = "reopening" /\ poisoned' = poisoned
      \/ /\ UNCHANGED disk /\ gzip' = gzip /\ writer' = "reopening" /\ poisoned' = poisoned
         /\ (There(Active) /\ Fails) \/ (~There(Active) /\ Works)
  BY DEF Park, Fails
(* Without backups nothing is due until the next generation has lines.      *)
<1>6. CASE k = 0 /\ writer' = "reopening"
  <2>1. Due(k, X)' = {}
    BY <1>2, <1>6, Numbers DEF Due, Window
  <2>2. Active \notin Doomed'
    BY <1>2, <1>5, <1>6 DEF Doomed
  <2>3. Good(k, X, S)'
    BY <1>4, <1>6, <2>1, <2>2, <1>2 DEF Good, Covered, Lone, SameGen, Copied, Ready
  <2>4. failures' = failures \/ failures' = failures + 1
    BY <1>5 DEF Works, Fails
  <2> QED BY <1>1, <2>3, <2>4, Free, Numbers
(* The file moves to q.                                                     *)
<1>7. ASSUME NEW q \in {Staging, 1}, There(Active), Rename(Active, q), q \in UpTo(k), NEW Y,
             Due(k, Y)' \subseteq Due(k, X), NEW T, T = S \cup {q}
      PROVE  /\ Covered(k, Y, T)' /\ Lone(k, Y, T)'
             /\ Lines(Active)' = {} /\ (q = Staging => There(Staging)' /\ 1 \notin T)
             /\ (q = 1 => There(Staging)' = There(Staging) /\ Staging \notin T)
             /\ Active \in T /\ T \subseteq UpTo(k)
  <2>1. /\ Lines(Active)' = {} /\ Lines(q)' = Lines(Active) /\ There(q)'
        /\ \A o \in Paths : o # Active /\ o # q => Lines(o)' = Lines(o) /\ There(o)' = There(o)
    BY <1>2, <1>7, RenameEffect DEF LogShape
  <2>2. \A p \in S : \A l \in Lines(p) : \E o \in T : l \in Lines(o)'
    BY <1>2, <1>4, <1>7, <2>1
  <2>3. \A o \in T : \E p \in S : \A l \in Lines(o)' : l \in Lines(p)
    BY <1>2, <1>4, <1>7, <2>1
  <2>4. Covered(k, Y, T)' /\ Lone(k, Y, T)'
    BY <1>1, <1>2, <1>7, <2>2, <2>3, Carry
  <2> QED BY <1>2, <1>4, <1>7, <2>1, <2>4
<1>8. CASE /\ k # 0 /\ writer' = "reopening" /\ There(Active) /\ poisoned' = poisoned /\ Works
           /\ \/ Rename(Active, Staging) /\ gzip' = "started"
              \/ Rename(Active, 1) /\ gzip' = gzip /\ ~cfg.gz
  <2>1. Due(k, X)' = Due(k, X)
    BY <1>2, <1>8 DEF Due, Window
  <2>2. CASE Rename(Active, Staging) /\ gzip' = "started"
    <3>1. PICK T : T = S \cup {Staging}
      OBVIOUS
    <3>2. /\ Covered(k, X, T)' /\ Lone(k, X, T)' /\ Lines(Active)' = {} /\ There(Staging)' /\ 1 \notin T
          /\ Active \in T /\ T \subseteq UpTo(k)
      BY <1>4, <1>7, <1>8, <2>1, <2>2, <3>1
    <3>3. Doomed' = {1}
      BY <1>2, <1>8, <2>2 DEF Doomed
    <3>4. Good(k, X, T)'
      BY <1>8, <3>2, <3>3 DEF Good, Copied, Ready
    <3> QED BY <1>1, <1>8, <3>4, Free, Numbers DEF Works
  <2>3. CASE Rename(Active, 1) /\ gzip' = gzip /\ ~cfg.gz
    <3>1. PICK T : T = S \cup {1}
      OBVIOUS
    <3>2. /\ Covered(k, X, T)' /\ Lone(k, X, T)' /\ Lines(Active)' = {}
          /\ There(Staging)' = There(Staging) /\ Staging \notin T /\ Active \in T /\ T \subseteq UpTo(k)
      BY <1>4, <1>7, <1>8, <2>1, <2>3, <3>1, <1>2
    <3>3. Doomed' = {Staging}
      BY <1>2, <1>8, <2>3 DEF Doomed
    <3>4. ~There(Staging)'
      BY <2>3, <3>2 DEF LogShape, GzipOK
    <3>5. Good(k, X, T)'
      BY <1>8, <3>2, <3>3, <3>4 DEF Good, Copied, Ready
    <3> QED BY <1>1, <1>8, <3>5, Free, Numbers DEF Works
  <2> QED BY <1>8, <2>2, <2>3
(* The mutex is poisoned: the next start finds the file.                    *)
<1>9. CASE /\ There(Active) /\ Rename(Active, Staging) /\ gzip' = gzip /\ writer' = "idle"
           /\ poisoned' = TRUE /\ failures' = failures + 1
  <2>1. PICK g : g = gen - k
    OBVIOUS
  <2>2. Due(k, X \cup {g})' \subseteq Due(k, X) /\ (k = 0 => Due(k, X \cup {g})' = {} /\ gen = g)
    BY <1>2, <1>9, <2>1, Numbers DEF Due, Window
  <2>3. There(Staging)' /\ Lines(Active)' = {}
    BY <1>2, <1>9, RenameEffect DEF LogShape
  <2>4. Doomed' = {1}
    BY <1>9, <2>3 DEF Doomed
  <2>5. CASE k = 0
    <3>1. Good(k, X \cup {g}, S)'
      BY <1>2, <1>4, <1>9, <2>2, <2>3, <2>4, <2>5 DEF Good, Covered, Lone, SameGen, Copied, Ready
    <3> QED BY <1>1, <1>9, <3>1, Charge, Numbers
  <2>6. CASE k # 0
    <3>1. PICK T : T = S \cup {Staging}
      OBVIOUS
    <3>2. /\ Covered(k, X \cup {g}, T)' /\ Lone(k, X \cup {g}, T)' /\ 1 \notin T
          /\ Active \in T /\ T \subseteq UpTo(k)
      BY <1>4, <1>7, <1>9, <2>2, <2>6, <3>1
    <3>3. Good(k, X \cup {g}, T)'
      BY <1>9, <2>3, <2>4, <3>2 DEF Good, Copied, Ready
    <3> QED BY <1>1, <1>9, <3>3, Charge, Numbers
  <2> QED BY <2>5, <2>6
<1>10. CASE /\ k # 0 /\ UNCHANGED disk /\ gzip' = gzip /\ writer' = "reopening" /\ poisoned' = poisoned
            /\ (There(Active) /\ Fails) \/ (~There(Active) /\ Works)
  <2>1. \A Y : Due(k, Y)' = Due(k, Y)
    BY <1>2, <1>10 DEF Due, Window
  <2>2. Doomed' = {Staging}
    BY <1>2, <1>10 DEF Doomed
  <2>3. Lines(Active)' = Lines(Active)
    BY <1>2, <1>10, SameEffect DEF disk
  <2>4. ASSUME NEW Y, X \subseteq Y, Lines(Active) \cap Due(k, Y) = {}
        PROVE  Good(k, Y, S)'
    <3>1. Due(k, Y)' \subseteq Due(k, X)
      BY <2>1, <2>4 DEF Due
    <3>2. Covered(k, Y, S)' /\ Lone(k, Y, S)' /\ Copied(k, Y, S)'
      BY <1>1, <1>2, <1>10, <3>1, SameFiles DEF disk
    <3> QED BY <1>4, <1>10, <2>1, <2>2, <2>3, <2>4, <3>2 DEF Good, Ready
  <2>5. CASE There(Active) /\ Fails
    <3>1. PICK g : Lines(Active) \cap Due(k, X \cup {g}) = {}
      BY <1>1, <1>4, LoneGeneration
    <3>2. Good(k, X \cup {g}, S)'
      BY <2>4, <3>1
    <3> QED BY <1>1, <2>5, <3>2, Charge, Numbers DEF Fails
  <2>6. CASE ~There(Active) /\ Works
    <3>1. Good(k, X, S)'
      BY <2>4, <2>6 DEF Lines
    <3> QED BY <1>1, <2>6, <3>1, Free, Numbers DEF Works
  <2> QED BY <1>10, <2>5, <2>6
<1> QED BY <1>5, <1>6, <1>8, <1>9, <1>10

(* The next generation begins: in a file of its own, or it is charged.      *)
LEMMA ReopenKeeps ==
  ASSUME LogShape, NEW k \in 0..cfg.max, KeptFor(k), Reopen
  PROVE  KeptFor(k)'
<1>1. PICK X, S : IsFiniteSet(X) /\ Cardinality(X) <= failures /\ Good(k, X, S)
  BY DEF KeptFor
<1>2. /\ writer = "reopening" /\ writer' = "appending" /\ gen' = gen + 1
      /\ UNCHANGED <<cfg, genOf, gzip, poisoned, index>> /\ ~poisoned /\ k \in Nat
      /\ (OpenLog /\ Works) \/ Fails
  BY UpToFacts DEF Reopen, rest, LogShape, GzipOK
<1>3. /\ \A p \in Paths : Lines(p)' = Lines(p)
      /\ \A p \in Paths : p # Active => There(p)' = There(p)
      /\ OpenLog => hand' = Active
  BY <1>2, OpenEffect, SameEffect DEF LogShape, Fails, disk
<1>4. S \subseteq Paths /\ Active \in Paths /\ Staging \in Paths /\ Staging # Active /\ S \subseteq UpTo(k)
      /\ Active \in S
  BY <1>1, UpToFacts, PathsFacts DEF Good
<1>5. \A Y : Due(k, Y)' = Due(k, Y)
  BY <1>2, Numbers DEF Due, Window
<1>6. Doomed' = Doomed
  BY <1>2 DEF Doomed
<1>7. Lines(Active) \cap Due(k, X) = {}
  BY <1>1, <1>2 DEF Good, Ready
<1>8. ASSUME NEW Y, X \subseteq Y, gen' \in Y \/ hand' = Active
      PROVE  Good(k, Y, S)'
  <2>1. Due(k, Y)' \subseteq Due(k, X)
    BY <1>5, <1>8 DEF Due
  <2>2. Covered(k, Y, S)' /\ Lone(k, Y, S)'
    BY <1>1, <1>2, <1>3, <1>4, <2>1, CarryNothing
  <2>3. Copied(k, Y, S)'
    BY <1>1, <1>3, <1>4, <2>1 DEF Good, Copied
  <2>4. Ready(k, Y)'
    BY <1>2, <1>3, <1>4, <1>7, <1>8, <2>1 DEF Ready
  <2> QED BY <1>1, <1>4, <1>6, <2>2, <2>3, <2>4 DEF Good
<1>9. CASE OpenLog /\ Works
  <2>1. Good(k, X, S)'
    BY <1>3, <1>8, <1>9
  <2> QED BY <1>1, <1>9, <2>1, Free, Numbers DEF Works
<1>10. CASE Fails
  <2>1. PICK g : g = gen'
    OBVIOUS
  <2>2. Good(k, X \cup {g}, S)'
    BY <1>8, <2>1
  <2> QED BY <1>1, <1>10, <2>2, Charge, Numbers DEF Fails
<1> QED BY <1>2, <1>9, <1>10

(* A line joins its own generation, or does not count.                      *)
LEMMA AppendKeeps ==
  ASSUME LogShape, NEW k \in 0..cfg.max, KeptFor(k), AppendLine
  PROVE  KeptFor(k)'
<1>1. PICK X, S : IsFiniteSet(X) /\ Cardinality(X) <= failures /\ Good(k, X, S)
  BY DEF KeptFor
<1>2. /\ writer = "appending" /\ writer' = "idle" /\ ~poisoned /\ k \in Nat
      /\ UNCHANGED <<hand, index, gzip, cfg, poisoned, gen, failures>>
  BY UpToFacts DEF AppendLine, rest, LogShape, GzipOK
<1>3. /\ S \subseteq Paths /\ Active \in Paths /\ Staging \in Paths /\ Staging # Active
      /\ S \subseteq UpTo(k) /\ Active \in S /\ 1 # Active /\ Active # Unlinked
  BY <1>1, UpToFacts, PathsFacts DEF Good
<1>4. Window(k)' = Window(k) /\ gen \in Window(k)
  BY <1>2, Numbers DEF Window
<1>5. Doomed' = Doomed
  BY <1>2 DEF Doomed
<1>6. CASE UNCHANGED <<genOf, files>>
  <2>1. Due(k, X)' = Due(k, X)
    BY <1>4, <1>6 DEF Due
  <2>2. Lines(Active)' = Lines(Active)
    BY <1>3, <1>6, SameEffect
  <2>3. Ready(k, X)'
    BY <1>1, <1>2, <1>6, <2>1, <2>2 DEF Good, Ready
  <2>4. Covered(k, X, S)' /\ Lone(k, X, S)' /\ Copied(k, X, S)'
    BY <1>1, <1>6, <2>1, SameFiles
  <2>5. Good(k, X, S)'
    BY <1>1, <1>5, <2>3, <2>4, <1>3, <1>2 DEF Good, UpTo
  <2> QED BY <1>1, <1>2, <2>5, Free, Numbers
<1>7. CASE /\ genOf' = Append(genOf, gen)
           /\ files' = IF hand = Unlinked THEN files
                       ELSE [files EXCEPT ![hand] = Append(@, Len(genOf'))]
  <2>1. PICK n : n = Len(genOf')
    OBVIOUS
  <2>2. /\ DOMAIN genOf' = DOMAIN genOf \cup {n} /\ n \notin DOMAIN genOf
        /\ genOf'[n] = gen /\ \A l \in DOMAIN genOf : genOf'[l] = genOf[l]
    BY <1>7, <2>1 DEF LogShape, LogTypeOK
  <2>3. \A p \in Paths : Lines(p) \subseteq DOMAIN genOf
    BY DEF LogShape, FilesOK
  <2>4. Due(k, X)' = Due(k, X) \cup IF gen \in X THEN {} ELSE {n}
    BY <1>4, <2>2 DEF Due
  <2>5. ASSUME NEW p \in Paths
        PROVE  /\ There(p)' = There(p)
               /\ Lines(p)' = Lines(p) \cup IF p = hand THEN {n} ELSE {}
    <3>1. CASE p = hand
      <4>1. p # Unlinked /\ There(p) /\ files[p] \in Seq(1..MaxLines)
        BY <3>1, PathsFacts DEF LogShape, LogTypeOK, FilesOK, There
      <4>2. files'[p] = Append(files[p], n)
        BY <1>7, <2>1, <3>1, <4>1 DEF LogShape, LogTypeOK
      <4>3. /\ files'[p] \in Seq(1..MaxLines)
            /\ {files'[p][i] : i \in DOMAIN files'[p]} = {files[p][i] : i \in DOMAIN files[p]} \cup {n}
        <5>1. n \in 1..MaxLines
          BY <1>2, <1>7, <2>1, PathsFacts DEF LogShape, LogTypeOK, FilesOK
        <5>2. PICK f : f = files[p]
          OBVIOUS
        <5>3. PICK h : h = files'[p]
          OBVIOUS
        <5>4. f \in Seq(1..MaxLines) /\ h = Append(f, n)
          BY <4>1, <4>2, <5>2, <5>3
        <5>5. /\ h \in Seq(1..MaxLines) /\ DOMAIN h = DOMAIN f \cup {Len(f) + 1}
              /\ \A i \in DOMAIN f : h[i] = f[i]
              /\ h[Len(f) + 1] = n
          BY <5>1, <5>4
        <5>6. {h[i] : i \in DOMAIN h} = {f[i] : i \in DOMAIN f} \cup {n}
          BY <5>5
        <5> QED BY <5>2, <5>3, <5>5, <5>6
      <4>4. There(p)'
        BY <4>3, PathsFacts DEF There
      <4> QED BY <3>1, <4>1, <4>3, <4>4 DEF Lines
    <3>2. CASE p # hand
      <4>1. files'[p] = files[p]
        BY <1>7, <3>2 DEF LogShape, LogTypeOK
      <4> QED BY <3>2, <4>1 DEF There, Lines
    <3> QED BY <3>1, <3>2
  <2>6. CASE gen \in X
    <3>1. Due(k, X)' = Due(k, X) /\ n \notin Due(k, X)
      BY <2>2, <2>4, <2>6 DEF Due
    <3>2. \A p \in Paths : \A l \in Due(k, X) : l \in Lines(p)' <=> l \in Lines(p)
      BY <2>5, <3>1
    <3>3. \A l \in Due(k, X) : genOf'[l] = genOf[l]
      BY <2>2 DEF Due
    <3>4. Covered(k, X, S)'
      BY <1>1, <1>3, <3>1, <3>2 DEF Good, Covered
    <3>5. Lone(k, X, S)'
      BY <1>1, <1>3, <3>1, <3>2, <3>3 DEF Good, Lone, SameGen
    <3>6. Copied(k, X, S)'
      <4>1. 1 \in S => 1 \in Paths
        BY <1>3
      <4> QED BY <1>1, <1>3, <2>5, <3>1, <3>2, <4>1 DEF Good, Copied
    <3>7. Ready(k, X)'
      BY <1>2, <2>6 DEF Ready
    <3>8. Good(k, X, S)'
      BY <1>1, <1>3, <1>5, <3>4, <3>5, <3>6, <3>7 DEF Good
    <3> QED BY <1>1, <1>2, <3>8, Free, Numbers
  <2>7. CASE gen \notin X
    <3>1. hand = Active /\ \A l \in Lines(Active) \cap Due(k, X) : genOf[l] = gen
      BY <1>1, <1>2, <2>7 DEF Good, Ready
    <3>2. Due(k, X)' = Due(k, X) \cup {n} /\ n \notin Due(k, X)
      BY <2>2, <2>4, <2>7 DEF Due
    <3>3. \A l \in Due(k, X) : genOf'[l] = genOf[l]
      BY <2>2 DEF Due
    <3>4. /\ Lines(Active)' = Lines(Active) \cup {n}
          /\ \A p \in Paths : p # Active => Lines(p)' = Lines(p) /\ n \notin Lines(p)
      BY <1>3, <2>2, <2>3, <2>5, <3>1
    <3>5. \A l \in Lines(Active)' \cap Due(k, X)' : genOf'[l] = gen
      BY <2>2, <3>1, <3>2, <3>3, <3>4
    <3>6. Covered(k, X, S)'
      BY <1>1, <1>3, <3>2, <3>4 DEF Good, Covered
    <3>7. Lone(k, X, S)'
      <4> SUFFICES ASSUME NEW p \in S PROVE SameGen(Due(k, X), Lines(p))'
        BY DEF Lone
      <4>1. CASE p = Active
        BY <3>5, <4>1 DEF SameGen
      <4>2. CASE p # Active
        <5>1. Lines(p)' \cap Due(k, X)' = Lines(p) \cap Due(k, X)
          BY <1>3, <3>2, <3>4, <4>2
        <5>2. SameGen(Due(k, X), Lines(p))
          BY <1>1 DEF Good, Lone
        <5> QED BY <3>3, <5>1, <5>2 DEF SameGen
      <4> QED BY <4>1, <4>2
    <3>8. Copied(k, X, S)'
      <4>1. 1 \in S => 1 \in Paths
        BY <1>3
      <4> QED BY <1>1, <1>3, <2>5, <3>2, <3>4, <4>1 DEF Good, Copied
    <3>9. Ready(k, X)'
      BY <1>2, <3>1, <3>5 DEF Ready
    <3>10. Good(k, X, S)'
      BY <1>1, <1>3, <1>5, <3>6, <3>7, <3>8, <3>9 DEF Good
    <3> QED BY <1>1, <1>2, <3>10, Free, Numbers
  <2> QED BY <2>6, <2>7
<1> QED BY <1>6, <1>7 DEF AppendLine

(* What the thread compresses counts in the staging file until its copy is  *)
(* written, and then in backup 1.                                           *)
LEMMA GzipKeeps ==
  ASSUME LogShape, NEW k \in 0..cfg.max, KeptFor(k), Gzip
  PROVE  KeptFor(k)'
<1>1. PICK X, S : IsFiniteSet(X) /\ Cardinality(X) <= failures /\ Good(k, X, S)
  BY DEF KeptFor
<1>2. /\ gzip \in {"started", "writing", "written"} /\ ~poisoned
      /\ writer \notin {"down", "shifting"} /\ There(Staging)
      /\ UNCHANGED <<writer, index, cfg, poisoned, genOf, gen>>
  BY DEF Gzip, GzipCreate, GzipFinish, GzipRemove, rest, audit, LogShape, GzipOK
<1>3. /\ S \subseteq Paths /\ Active \in Paths /\ Staging \in Paths /\ 1 \in Paths
      /\ Staging # Active /\ 1 # Active /\ 1 # Staging
      /\ S \subseteq UpTo(k) /\ Active \in S /\ (Staging \in S => 1 \in UpTo(k))
  BY <1>1, <1>2, UpToFacts, CfgFacts, PathsFacts DEF Good, LogShape, GzipOK
<1>4. \A Y : Due(k, Y)' = Due(k, Y)
  BY <1>2 DEF Due, Window
<1>5. /\ Doomed = IF gzip \in {"started", "writing"} THEN {1} ELSE {Staging}
      /\ Doomed' = IF gzip' \in {"started", "writing"} THEN {1} ELSE {Staging}
  BY <1>2 DEF Doomed
<1>6. ASSUME NEW Y, X \subseteq Y, Lines(Active)' = Lines(Active), hand = Active => hand' = Active
      PROVE  Ready(k, Y)'
  <2>1. Due(k, Y)' \subseteq Due(k, X)
    BY <1>4, <1>6 DEF Due
  <2> QED BY <1>1, <1>2, <1>6, <2>1 DEF Good, Ready
<1>7. CASE GzipCreate /\ Works
  <2>1. /\ gzip = "started" /\ gzip' = "writing" /\ hand' = hand
        /\ files' = [files EXCEPT ![1] = <<>>]
    BY <1>7 DEF GzipCreate, Fails, Works, LogShape, LogTypeOK
  <2>2. \A p \in Paths : p # 1 => files'[p] = files[p]
    BY <2>1 DEF LogShape, LogTypeOK
  <2>3. \A p \in Paths : p # 1 => Lines(p)' = Lines(p)
    BY <2>2 DEF Lines, There
  <2>4. 1 \notin S
    BY <1>1, <1>5, <2>1 DEF Good
  <2>5. Covered(k, X, S)' /\ Lone(k, X, S)'
    <3>1. \A p \in S : Lines(p)' = Lines(p)
      BY <1>3, <2>3, <2>4
    <3> QED BY <1>1, <1>2, <1>4, <3>1, CarryNothing
  <2>6. Ready(k, X)'
    BY <1>3, <1>6, <2>1, <2>3
  <2>7. Good(k, X, S)'
    BY <1>3, <1>5, <2>1, <2>4, <2>5, <2>6 DEF Good, Copied
  <2> QED BY <1>1, <1>7, <2>7, Free, Numbers DEF Works
<1>8. CASE (GzipCreate \/ GzipFinish) /\ Fails
  <2>1. /\ gzip \in {"started", "writing"} /\ gzip' = "ended" /\ UNCHANGED <<files, hand>>
        /\ failures' = failures + 1
    BY <1>8, Numbers DEF GzipCreate, GzipFinish, GzipEnds, Fails, Works, disk
  <2>2. PICK T : T = S \ {Staging}
    OBVIOUS
  <2>3. \A p \in Paths : Lines(p)' = Lines(p)
    BY <2>1, SameEffect
  <2>4. 1 \notin S
    BY <1>1, <1>5, <2>1 DEF Good
  <2>5. PICK g : Staging \in S => Lines(Staging) \cap Due(k, X \cup {g}) = {}
    BY <1>1, LoneGeneration
  <2>6. Due(k, X \cup {g})' \subseteq Due(k, X)
    BY <1>4 DEF Due
  <2>7. Covered(k, X \cup {g}, T)' /\ Lone(k, X \cup {g}, T)'
    <3>1. \A p \in S : \A l \in Lines(p) : l \in Due(k, X \cup {g})' => \E q \in T : l \in Lines(q)'
      BY <1>3, <1>4, <2>2, <2>3, <2>5
    <3>2. \A q \in T : \E p \in S : \A l \in Lines(q)' : l \in Lines(p)
      BY <1>3, <2>2, <2>3
    <3> QED BY <1>1, <1>2, <2>6, <3>1, <3>2, Carry
  <2>8. Ready(k, X \cup {g})'
    BY <1>3, <1>6, <2>1, <2>3
  <2>9. Good(k, X \cup {g}, T)'
    BY <1>3, <1>5, <2>1, <2>2, <2>4, <2>7, <2>8 DEF Good, Copied
  <2> QED BY <1>1, <2>1, <2>9, Charge, Numbers
<1>9. CASE GzipFinish /\ Works
  <2>1. /\ gzip = "writing" /\ gzip' = "written" /\ hand' = hand
        /\ files' = [files EXCEPT ![1] = files[Staging]]
    BY <1>9, Numbers DEF GzipFinish, Fails, Works
  <2>2. files'[1] = files[Staging] /\ \A p \in Paths : p # 1 => files'[p] = files[p]
    BY <1>3, <2>1 DEF LogShape, LogTypeOK
  <2>3. Lines(1)' = Lines(Staging) /\ \A p \in Paths : p # 1 => Lines(p)' = Lines(p)
    BY <1>2, <2>2 DEF Lines, There
  <2>4. 1 \notin S
    BY <1>1, <1>5, <2>1 DEF Good
  <2>5. PICK T : T = IF Staging \in S THEN (S \ {Staging}) \cup {1} ELSE S
    OBVIOUS
  <2>6. T \subseteq UpTo(k) \ {Staging} /\ Active \in T
    BY <1>3, <2>5
  <2>7. Covered(k, X, T)' /\ Lone(k, X, T)'
    <3>1. \A p \in S : \A l \in Lines(p) : \E q \in T : l \in Lines(q)'
      BY <1>3, <2>3, <2>4, <2>5
    <3>2. \A q \in T : \E p \in S : \A l \in Lines(q)' : l \in Lines(p)
      BY <1>3, <2>3, <2>4, <2>5
    <3> QED BY <1>1, <1>2, <1>4, <3>1, <3>2, Carry
  <2>8. Copied(k, X, T)'
    BY <1>3, <2>3 DEF Copied
  <2>9. Ready(k, X)'
    BY <1>3, <1>6, <2>1, <2>3
  <2>10. Good(k, X, T)'
    BY <1>5, <2>1, <2>6, <2>7, <2>8, <2>9 DEF Good
  <2> QED BY <1>1, <1>9, <2>10, Free, Numbers DEF Works
<1>10. CASE GzipRemove
  <2>1. gzip = "written" /\ gzip' = "ended" /\ ((Works /\ Remove(Staging)) \/ (Fails /\ UNCHANGED <<files, hand>>))
    BY <1>10 DEF GzipRemove, GzipEnds, Fails, disk
  <2>2. /\ \A p \in Paths : p # Staging => Lines(p)' = Lines(p)
        /\ hand = Active => hand' = Active
        /\ There(Staging)' => Lines(Staging)' = Lines(Staging)
    BY <1>3, <2>1, RemoveEffect, SameEffect DEF LogShape
  <2>3. Staging \notin S
    BY <1>1, <1>5, <2>1 DEF Good
  <2>4. Covered(k, X, S)' /\ Lone(k, X, S)'
    <3>1. \A p \in S : Lines(p)' = Lines(p)
      BY <1>3, <2>2, <2>3
    <3> QED BY <1>1, <1>2, <1>4, <3>1, CarryNothing
  <2>5. Copied(k, X, S)'
    BY <1>1, <1>2, <1>3, <1>4, <2>2 DEF Good, Copied
  <2>6. Ready(k, X)'
    BY <1>3, <1>6, <2>2
  <2>7. Good(k, X, S)'
    BY <1>3, <1>5, <2>1, <2>3, <2>4, <2>5, <2>6 DEF Good
  <2> QED BY <1>1, <2>1, <2>7, Free, Numbers DEF Works, Fails
<1> QED BY <1>7, <1>8, <1>9, <1>10 DEF Gzip, GzipCreate, GzipFinish

(* After the end of the process a staging file counts again, and its copy   *)
(* does not.  A rotation cut short is charged the generation for which it   *)
(* had no more room.                                                        *)
LEMMA StopKeeps ==
  ASSUME LogShape, NEW k \in 0..cfg.max, KeptFor(k), StopLog
  PROVE  KeptFor(k)'
<1>1. PICK X, S : IsFiniteSet(X) /\ Cardinality(X) <= failures /\ Good(k, X, S)
  BY DEF KeptFor
<1>2. /\ writer # "down" /\ writer' = "down" /\ k \in Nat
      /\ UNCHANGED <<files, cfg, poisoned, genOf, gen>>
      /\ IF writer \in {"idle", "appending"} THEN failures' = failures ELSE failures' = failures + 1
  BY UpToFacts DEF StopLog, audit, Works
<1>3. /\ S \subseteq Paths /\ Active \in S /\ S \subseteq UpTo(k)
      /\ Active \in Paths /\ Staging \in Paths /\ Staging # 1 /\ Active # 1
      /\ (1 \in S => Staging \in UpTo(k))
  BY <1>1, UpToFacts, PathsFacts DEF Good
<1>4. \A p \in Paths : Lines(p)' = Lines(p) /\ There(p)' = There(p)
  BY <1>2, SameEffect
<1>5. Doomed' = IF There(Staging) THEN {1} ELSE {}
  BY <1>2, <1>3, <1>4 DEF Doomed
<1>6. PICK T : T = IF 1 \in S /\ There(Staging) THEN (S \ {1}) \cup {Staging} ELSE S
  OBVIOUS
<1>7. Active \in T /\ T \subseteq UpTo(k) \ Doomed'
  BY <1>3, <1>5, <1>6
<1>8. ASSUME NEW Y, X \subseteq Y, Due(k, Y)' \subseteq Due(k, X)
      PROVE  Good(k, Y, T)'
  <2>1. 1 \in S /\ There(Staging) => \A l \in Due(k, Y)' : l \in Lines(1) <=> l \in Lines(Staging)
    BY <1>1, <1>8 DEF Good, Copied
  <2>2. \A p \in S : \A l \in Lines(p) : l \in Due(k, Y)' => \E q \in T : l \in Lines(q)'
    BY <1>3, <1>4, <1>6, <2>1
  <2>3. \A q \in T : \E p \in S : \A l \in Lines(q)' : l \in Due(k, Y)' => l \in Lines(p)
    <3> SUFFICES ASSUME NEW q \in T
                 PROVE  \E p \in S : \A l \in Lines(q)' : l \in Due(k, Y)' => l \in Lines(p)
      OBVIOUS
    <3>1. CASE q \in S
      BY <1>3, <1>4, <3>1
    <3>2. CASE q \notin S
      <4>1. q = Staging /\ 1 \in S /\ There(Staging)
        BY <1>6, <3>2
      <4> QED BY <1>3, <1>4, <2>1, <4>1
    <3> QED BY <3>1, <3>2
  <2>4. Covered(k, Y, T)' /\ Lone(k, Y, T)'
    BY <1>1, <1>2, <1>8, <2>2, <2>3, Carry
  <2>5. Copied(k, Y, T)'
    BY <1>3, <1>4, <1>6 DEF Copied
  <2>6. Ready(k, Y)'
    BY <1>1, <1>2, <1>3, <1>4, <1>8 DEF Good, Ready
  <2> QED BY <1>7, <2>4, <2>5, <2>6 DEF Good
<1>9. CASE Window(k)' = Window(k)
  <2>1. Due(k, X)' = Due(k, X)
    BY <1>2, <1>9 DEF Due
  <2>2. Good(k, X, T)'
    BY <1>8, <2>1
  <2>3. failures' = failures \/ failures' = failures + 1
    BY <1>2
  <2> QED BY <1>1, <2>2, <2>3, Free, Numbers
<1>10. CASE Window(k)' # Window(k)
  <2>1. failures' = failures + 1 /\ Window(k) = (gen + 1 - k)..(gen + 1)
    BY <1>2, <1>10 DEF Window
  <2>2. PICK g : g = gen - k
    OBVIOUS
  <2>3. Window(k)' \ {g} \subseteq Window(k)
    BY <1>2, <2>1, <2>2, Numbers DEF Window
  <2>4. Due(k, X \cup {g})' \subseteq Due(k, X)
    BY <1>2, <2>3 DEF Due
  <2>5. Good(k, X \cup {g}, T)'
    BY <1>8, <2>4
  <2> QED BY <1>1, <2>1, <2>5, Charge, Numbers
<1> QED BY <1>9, <1>10

LEMMA LogInvInit == LogInit => LogInv
<1> SUFFICES ASSUME LogInit, NEW k \in 0..cfg.max PROVE KeptFor(k)
  BY ShapeInit DEF LogInv
<1>1. /\ genOf = <<>> /\ writer = "down" /\ failures = 0
      /\ \A p \in Paths : ~There(p) /\ Lines(p) = {}
  BY DEF LogInit, There, Lines
<1>2. \A X : Due(k, X) = {}
  BY <1>1 DEF Due
<1>3. Doomed = {} /\ Active \in Paths
  BY <1>1, PathsFacts DEF Doomed
<1>4. Good(k, {}, {Active})
  BY <1>1, <1>2, <1>3, PathsFacts DEF Good, Covered, Lone, SameGen, Copied, Ready, UpTo
<1>5. IsFiniteSet({}) /\ Cardinality({}) = 0
  BY FS_EmptySet
<1> QED BY <1>1, <1>4, <1>5 DEF KeptFor

LEMMA LogInvStep == LogInv /\ [LogNext]_logVars => LogInv'
<1> SUFFICES ASSUME LogInv, [LogNext]_logVars PROVE LogInv'
  OBVIOUS
<1>1. LogShape /\ \A k \in 0..cfg.max : KeptFor(k)
  BY DEF LogInv
<1>2. LogShape'
  BY <1>1, ShapeStep
<1>3. cfg' = cfg
  BY DEF LogNext, StartLog, Log, Rotate, JoinGzip, RemoveOne, Shift, Park, Reopen, AppendLine,
         Gzip, GzipCreate, GzipFinish, GzipRemove, StopLog, logVars, rest
<1>4. ASSUME NEW k \in 0..cfg.max PROVE KeptFor(k)'
  BY <1>1, StartKeeps, WaitKeeps, RemoveKeeps, ShiftKeeps, ParkKeeps, ReopenKeeps, AppendKeeps,
     GzipKeeps, StopKeeps DEF LogNext, Rotate
<1> QED BY <1>2, <1>3, <1>4 DEF LogInv

LEMMA CostsOne == LogInv => FailureCostsOne
<1> SUFFICES ASSUME LogInv PROVE FailureCostsOne
  OBVIOUS
<1>1. LogShape /\ cfg.max \in Nat
  BY CfgFacts DEF LogInv, LogShape
<1>2. PICK X, S : IsFiniteSet(X) /\ Cardinality(X) <= failures /\ Good(cfg.max, X, S)
  BY <1>1 DEF LogInv, KeptFor
<1>3. Retained \subseteq Window(cfg.max)
  BY <1>1, Numbers DEF Retained, Window, LogShape, GzipOK
<1>4. S \subseteq Paths
  BY <1>1, <1>2, UpToFacts DEF Good
<1> DEFINE lost == {genOf[l] : l \in LostLines} \cap Retained
<1>5. lost \subseteq X
  <2> SUFFICES ASSUME NEW l \in LostLines, genOf[l] \in Retained, genOf[l] \notin X PROVE FALSE
    OBVIOUS
  <2>1. l \in Due(cfg.max, X)
    BY <1>3 DEF Due, LostLines
  <2>2. PICK p \in S : l \in Lines(p)
    BY <1>2, <2>1 DEF Good, Covered
  <2> QED BY <1>4, <2>2 DEF LostLines
<1>6. IsFiniteSet(lost) /\ Cardinality(lost) <= Cardinality(X)
  BY <1>2, <1>5, FS_Subset
<1>7. Cardinality(lost) \in Nat /\ Cardinality(X) \in Nat /\ failures \in Nat
  BY <1>1, <1>2, <1>6, FS_CardinalityType, Numbers
<1>8. Cardinality(lost) <= failures
  BY <1>2, <1>6, <1>7
<1> QED BY <1>8 DEF FailureCostsOne

(* The log keeps its types (LogRotation.LogTypeOK): files hold lines that   *)
(* were logged, and the handle refers to a name or to none (logging.rs,     *)
(* RotatingFileWriter).                                                     *)
THEOREM LogTyping == LogSpec => []LogTypeOK
<1>1. LogInit => LogInv
  BY LogInvInit
<1>2. LogInv /\ [LogNext]_logVars => LogInv'
  BY LogInvStep
<1>3. LogInv => LogTypeOK
  BY DEF LogInv, LogShape
<1> QED BY <1>1, <1>2, <1>3, PTL DEF LogSpec

(* One failed call, or one rotation cut short, costs at most one of the     *)
(* generations that the backups should hold, whatever the numbers of        *)
(* backups, lines, failures and ends of the process (logging.rs,            *)
(* rotate_files, compress_file and new).                                    *)
THEOREM FailuresCostOne == LogSpec => []FailureCostsOne
<1>1. LogInit => LogInv
  BY LogInvInit
<1>2. LogInv /\ [LogNext]_logVars => LogInv'
  BY LogInvStep
<1>3. LogInv => FailureCostsOne
  BY CostsOne
<1> QED BY <1>1, <1>2, <1>3, PTL DEF LogSpec
=============================================================================
