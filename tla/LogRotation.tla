---------------------------- MODULE LogRotation ----------------------------
(***************************************************************************)
(* The rotating log of the server (logging.rs): lines are appended under   *)
(* one mutex; a line that would make the file too long first rotates it.   *)
(* Backups are numbered, 1 is the newest.  With compression the file is    *)
(* parked under a staging name and a thread compresses it into backup 1,   *)
(* outside of the mutex.                                                   *)
(*                                                                         *)
(* A file is the sequence of the lines that can be read from it, and a     *)
(* backup whose compression is not finished has none.  Lines are numbered  *)
(* in the order they are logged, and every line has length 1.              *)
(*                                                                         *)
(* Left out: a line that is longer than the whole limit, a parent          *)
(* directory that cannot be created, and a configuration that changes from *)
(* one start to the next.  The handle is never None after the start, which *)
(* is why write never takes its early return.                              *)
(***************************************************************************)
EXTENDS Integers, Sequences, FiniteSets

CONSTANTS
    Configs,        \* the configurations: [max : Nat, gz : BOOLEAN]
    MaxSlot,        \* the most backups any of them keeps
    RotateSize,     \* rotate_size_bytes
    MaxLines,       \* bound: lines logged
    MaxFailures,    \* bound: failed calls and interrupted rotations
    MaxStops,       \* bound: times the process ends
    Absent          \* no file of that name

ASSUME LogAssumption ==
    /\ \A c \in Configs : c.max \in 0..MaxSlot /\ c.gz \in BOOLEAN
    /\ RotateSize \in Nat \ {0}
    /\ {MaxSlot, MaxLines, MaxFailures, MaxStops} \subseteq Nat
    /\ Absent \notin Seq(1..MaxLines)

\* Names, from the newest content to the oldest; n > 0 is backup n.
Active == -1
Staging == 0
Unlinked == -2      \* what an open handle refers to when its name is gone

Slots == 1..MaxSlot
Paths == {Active, Staging} \cup Slots

VARIABLES
    cfg,        \* LoggingConfig: max_backups and compress
    files,      \* the log directory
    hand,       \* file: where the open handle writes
    size,       \* current_size
    writer,     \* where the thread that holds the mutex is
    index,      \* the loop of rotate_files
    gzip,       \* the compression thread, and the handle to join it by
    poisoned,   \* the mutex, after a panic under it
    stops,
    \* audit variables
    genOf,      \* the generation of each line logged: rotations before it
    gen,
    failures

logVars == <<cfg, files, hand, size, writer, index, gzip, poisoned, stops, genOf, gen, failures>>

disk == <<files, hand>>
audit == <<genOf, gen>>
rest == <<cfg, poisoned, stops>>

LogTypeOK ==
    /\ cfg \in Configs
    /\ files \in [Paths -> Seq(1..MaxLines) \cup {Absent}]
    /\ hand \in Paths \cup {Unlinked}
    /\ size \in 0..MaxLines
    /\ writer \in {"down", "idle", "joining", "removing", "shifting", "reopening", "appending"}
    /\ index \in 0..MaxSlot
    /\ gzip \in {"none", "started", "writing", "written", "ended"}
    /\ poisoned \in BOOLEAN
    /\ stops \in 0..MaxStops
    /\ genOf \in Seq(0..gen) /\ Len(genOf) <= MaxLines
    /\ gen \in Nat
    /\ failures \in 0..MaxFailures

----------------------------------------------------------------------------
(* The file system.                                                        *)

There(p) == files[p] # Absent

\* fs::rename: what was there before is unlinked, an open handle follows.
Rename(p, q) ==
    /\ files' = [files EXCEPT ![q] = files[p], ![p] = Absent]
    /\ hand' = IF hand = p THEN q ELSE IF hand = q THEN Unlinked ELSE hand

\* fs::remove_file; an absent file is an error nobody looks at.
Remove(p) ==
    /\ files' = [files EXCEPT ![p] = Absent]
    /\ hand' = IF hand = p THEN Unlinked ELSE hand

\* open_log_file: create and append.
OpenLog ==
    /\ files' = [files EXCEPT ![Active] = IF There(Active) THEN @ ELSE <<>>]
    /\ hand' = Active

\* A call that can fail: one that does leaves the files as they are.
Fails ==
    /\ failures < MaxFailures
    /\ failures' = failures + 1
    /\ UNCHANGED disk

Works == UNCHANGED failures

----------------------------------------------------------------------------
(* The writer, under the mutex.                                            *)

LogInit ==
    /\ cfg \in Configs
    /\ files = [p \in Paths |-> Absent]
    /\ hand = Unlinked
    /\ size = 0
    /\ writer = "down"
    /\ index = 0
    /\ gzip = "none"
    /\ poisoned = FALSE
    /\ stops = 0
    /\ genOf = <<>>
    /\ gen = 0
    /\ failures = 0

\* Mutant of Recovered: only files that this process parked are compressed.
RecoverNothing == "none"

\* The staging file an earlier process left, if any, is compressed into backup 1.
Recovered == IF cfg.gz /\ cfg.max > 0 /\ There(Staging) THEN "started" ELSE "none"

\* RotatingFileMakeWriter::new.
StartLog ==
    /\ writer = "down"
    /\ OpenLog
    /\ size' = IF There(Active) THEN Len(files[Active]) ELSE 0
    /\ gzip' = Recovered
    /\ writer' = "idle"
    /\ poisoned' = FALSE
    /\ UNCHANGED <<cfg, index, stops, audit, failures>>

\* RotatingFileWriter::write takes the mutex; after a panic it panics too.
Log ==
    /\ writer = "idle"
    /\ ~poisoned
    /\ Len(genOf) < MaxLines
    /\ writer' = IF size > 0 /\ size + 1 > RotateSize THEN "joining" ELSE "appending"
    /\ UNCHANGED <<disk, size, index, gzip, rest, audit, failures>>

\* wait_for_compression.
JoinGzip ==
    /\ writer = "joining"
    /\ gzip \in {"none", "ended"}
    /\ gzip' = "none"
    /\ writer' = "removing"
    /\ UNCHANGED <<disk, size, index, rest, audit, failures>>

\* The active file when no backups are kept, else the oldest backup.
RemoveOne ==
    LET p == IF cfg.max = 0 THEN Active ELSE cfg.max IN
    /\ writer = "removing"
    /\ \/ Works /\ Remove(p)
       \/ Fails /\ There(p)
    /\ writer' = IF cfg.max = 0 THEN "reopening" ELSE "shifting"
    /\ index' = IF cfg.max = 0 THEN 0 ELSE cfg.max - 1
    /\ UNCHANGED <<size, gzip, rest, audit>>

\* One pass of the loop over the backups.
Shift ==
    /\ writer = "shifting"
    /\ index > 0
    /\ \/ There(index) /\ Works /\ Rename(index, index + 1)
       \/ There(index) /\ Fails
       \/ ~There(index) /\ Works /\ UNCHANGED disk
    /\ index' = index - 1
    /\ UNCHANGED <<size, writer, gzip, rest, audit>>

\* The end of rotate_files.  spawn panics if there is no thread to be had.
Park ==
    /\ writer = "shifting"
    /\ index = 0
    /\ \/ /\ There(Active) /\ cfg.gz /\ Works /\ Rename(Active, Staging)
          /\ gzip' = "started" /\ writer' = "reopening"
          /\ UNCHANGED poisoned
       \/ /\ There(Active) /\ cfg.gz /\ Rename(Active, Staging)
          /\ failures < MaxFailures /\ failures' = failures + 1
          /\ poisoned' = TRUE /\ writer' = "idle"
          /\ UNCHANGED gzip
       \/ /\ There(Active) /\ ~cfg.gz /\ Works /\ Rename(Active, 1)
          /\ writer' = "reopening"
          /\ UNCHANGED <<gzip, poisoned>>
       \/ /\ \/ There(Active) /\ Fails
             \/ ~There(Active) /\ Works /\ UNCHANGED disk
          /\ writer' = "reopening"
          /\ UNCHANGED <<gzip, poisoned>>
    /\ UNCHANGED <<cfg, size, index, stops, audit>>

\* The end of rotate: without a new handle, the old one is kept.
Reopen ==
    /\ writer = "reopening"
    /\ \/ Works /\ OpenLog
       \/ Fails
    /\ size' = 0
    /\ gen' = gen + 1
    /\ writer' = "appending"
    /\ UNCHANGED <<index, gzip, rest, genOf>>

\* file.write, and what follows it; when it fails the caller is told.
AppendLine ==
    /\ writer = "appending"
    /\ writer' = "idle"
    /\ \/ /\ genOf' = Append(genOf, gen)
          /\ files' = IF hand = Unlinked THEN files
                      ELSE [files EXCEPT ![hand] = Append(@, Len(genOf'))]
          /\ size' = size + 1
       \/ UNCHANGED <<genOf, files, size>>
    /\ UNCHANGED <<hand, index, gzip, rest, gen, failures>>

----------------------------------------------------------------------------
(* The compression thread, which does not take the mutex.                  *)

\* Mutant of GzipEnds: the thread reports its end in the log, not on stderr.
EndsByLogging == writer = "idle" /\ gzip' = "ended"

GzipEnds == gzip' = "ended"

\* compress_file opens the staging file and creates, or truncates, backup 1.
GzipCreate ==
    /\ gzip = "started"
    /\ \/ Works /\ files' = [files EXCEPT ![1] = <<>>] /\ gzip' = "writing" /\ UNCHANGED hand
       \/ Fails /\ GzipEnds
    /\ UNCHANGED <<size, writer, index, rest, audit>>

\* It reads up to the end there is when it gets there.
GzipFinish ==
    /\ gzip = "writing"
    /\ \/ Works /\ files' = [files EXCEPT ![1] = files[Staging]] /\ gzip' = "written" /\ UNCHANGED hand
       \/ Fails /\ GzipEnds
    /\ UNCHANGED <<size, writer, index, rest, audit>>

GzipRemove ==
    /\ gzip = "written"
    /\ \/ Works /\ Remove(Staging)
       \/ Fails
    /\ GzipEnds
    /\ UNCHANGED <<size, writer, index, rest, audit>>

----------------------------------------------------------------------------
(* The process ends at any moment, and its threads with it.  Only inside a *)
(* rotation does that count as a failure.                                  *)

StopLog ==
    /\ writer # "down"
    /\ stops < MaxStops
    /\ stops' = stops + 1
    /\ IF writer \in {"idle", "appending"} THEN Works
       ELSE failures < MaxFailures /\ failures' = failures + 1
    /\ writer' = "down"
    /\ gzip' = "none"
    /\ hand' = Unlinked
    /\ index' = 0
    /\ UNCHANGED <<cfg, files, size, poisoned, audit>>

Rotate == JoinGzip \/ RemoveOne \/ Shift \/ Park \/ Reopen \/ AppendLine
Gzip == GzipCreate \/ GzipFinish \/ GzipRemove

LogNext == StartLog \/ Log \/ Rotate \/ Gzip \/ StopLog

LogFairness == WF_logVars(Rotate) /\ WF_logVars(Gzip)

LogSpec == LogInit /\ [][LogNext]_logVars /\ LogFairness

----------------------------------------------------------------------------
(* Properties.                                                             *)

Lines(p) == IF There(p) THEN {files[p][i] : i \in DOMAIN files[p]} ELSE {}

LostLines == DOMAIN genOf \ UNION {Lines(p) : p \in Paths}

\* The present generation and those the backups should hold; a rotation that has
\* begun to remove has made room for the next.
Retained == (IF writer \in {"shifting", "reopening"} THEN gen + 1 - cfg.max ELSE gen - cfg.max)..gen

\* One failed call, or one rotation cut short, costs at most one of the
\* generations that the backups should hold; ends of the process between
\* rotations, also in the middle of a compression, cost nothing.  This is what
\* the join before the shift, the order of the shifts and the recovery of the
\* staging file at the start are for (logging.rs, rotate_files and new).
FailureCostsOne ==
    Cardinality({genOf[l] : l \in LostLines} \cap Retained) <= failures

\* A thread that logs gets its call back, although it may have to wait for a
\* compression under the mutex (logging.rs, wait_for_compression): the
\* compression thread must never log itself.
WriteReturns == writer = "joining" ~> writer \in {"idle", "down"}

\* "on error the current handle is kept (or the path reopened) and the size
\* counter is reset, so logging continues" (logging.rs, rotate): between two
\* rotations, lines written since the last one can be read.  TLC refutes it: an old
\* handle that is kept may be that of the staging file (README).
LoggingContinues == writer = "idle" => \A l \in LostLines : genOf[l] # gen
=============================================================================
