------------------------------- MODULE Logger -------------------------------
(***************************************************************************)
(* The logger: core/src/logger.cpp.  Any thread pushes records onto a      *)
(* queue under a mutex and then signals a condition variable; one writer   *)
(* thread swaps the queue for an empty one and writes the batch to a file  *)
(* that it rotates through numbered backups.                               *)
(*                                                                         *)
(* A step is a critical section, a notification, or one operation on the   *)
(* file system.  The process may be killed at any of them; the files stay, *)
(* and the next process opens the log for appending.  A record is the      *)
(* number of its push, of size 1: formatting and the copy on stdout are    *)
(* left out, and so are records below min_level, which push() ignores.     *)
(***************************************************************************)
EXTENDS Integers, Sequences, Functions, FiniteSets

CONSTANTS
  Producer,    \* threads that call log()
  max_bytes,   \* size at which the file is rotated
  max_backups,
  MaxRecords,  \* bound on the records pushed
  MaxCrashes   \* bound on the times the process is killed

ASSUME LoggerAssumption ==
  max_bytes \in Nat /\ max_backups \in Nat \ {0} /\ MaxRecords \in Nat /\ MaxCrashes \in Nat

VARIABLES
  queue, shutdown_flag,
  pushing,             \* producers that have yet to signal the condition variable
  writer, batch, slot, \* the writer thread, its batch, the backup it will shift
  stop,                \* where the caller of shutdown() is
  file, backup,        \* the log file, and the backups: << >> is no file
  pushed, crashes,
  accepted, durable,   \* records pushed and records written, without the
                       \* ones lost with a killed process
  dropped,             \* records deleted with the oldest backup
  due                  \* number of records accepted when shutdown() set its flag

thread == <<writer, batch, slot>>
disk == <<file, backup, dropped, durable>>
vars == <<queue, shutdown_flag, pushing, thread, stop, disk, pushed, crashes, accepted, due>>

Slots == 1..max_backups
Records == Seq(1..MaxRecords)

\* The file is rotated before it would outgrow max_bytes, if it is not empty.
TypeOK ==
  /\ queue \in Records /\ batch \in Records /\ file \in Records
  /\ backup \in [Slots -> Records]
  /\ Len(file) <= max_bytes \/ Len(file) = 1
  /\ shutdown_flag \in BOOLEAN
  /\ pushing \subseteq Producer
  /\ writer \in {"wait", "asleep", "write", "remove", "shift", "rename", "append", "check", "done"}
  /\ slot \in 0..max_backups
  /\ stop \in {"no", "notify", "join", "returned"}
  /\ accepted \in Records /\ durable \in Records /\ dropped \in Records
  /\ pushed \in 0..MaxRecords /\ crashes \in 0..MaxCrashes /\ due \in 0..MaxRecords

\* After Logger::init on an empty log directory.
Init ==
  /\ queue = << >> /\ shutdown_flag = FALSE /\ pushing = {}
  /\ writer = "wait" /\ batch = << >> /\ slot = 0
  /\ stop = "no"
  /\ file = << >> /\ backup = [i \in Slots |-> << >>] /\ dropped = << >>
  /\ accepted = << >> /\ durable = << >>
  /\ pushed = 0 /\ crashes = 0 /\ due = 0

-----------------------------------------------------------------------------
(* Dispatcher::push and Dispatcher::stop.                                  *)

\* notify_one(): lost unless the writer is asleep.
notify_one == writer' = IF writer = "asleep" THEN "wait" ELSE writer

Enqueue(p) ==
  /\ p \notin pushing /\ pushed < MaxRecords
  /\ pushed' = pushed + 1
  /\ queue' = Append(queue, pushed')
  /\ accepted' = Append(accepted, pushed')
  /\ UNCHANGED <<shutdown_flag, thread, stop, disk, crashes, due>>

\* Mutant: the producer does not signal the condition variable.
PushSilently(p) == Enqueue(p) /\ UNCHANGED pushing

push(p) == Enqueue(p) /\ pushing' = pushing \union {p}

Signal(p) ==
  /\ p \in pushing /\ pushing' = pushing \ {p}
  /\ notify_one
  /\ UNCHANGED <<queue, shutdown_flag, batch, slot, stop, disk, pushed, crashes, accepted, due>>

SetFlag(next) ==
  /\ stop = "no" /\ stop' = next
  /\ shutdown_flag' = TRUE
  /\ due' = Len(accepted)
  /\ UNCHANGED <<queue, pushing, thread, disk, pushed, crashes, accepted>>

\* Mutant: stop() joins a writer that it has not woken.
StopSilently == SetFlag("join")

StopFlag == SetFlag("notify")

StopSignal ==
  /\ stop = "notify" /\ stop' = "join"
  /\ notify_one
  /\ UNCHANGED <<queue, shutdown_flag, pushing, batch, slot, disk, pushed, crashes, accepted, due>>

Join ==
  /\ stop = "join" /\ writer = "done" /\ stop' = "returned"
  /\ UNCHANGED <<queue, shutdown_flag, pushing, thread, disk, pushed, crashes, accepted, due>>

-----------------------------------------------------------------------------
(* Dispatcher::run.                                                        *)

others == <<shutdown_flag, pushing, stop, pushed, crashes, accepted, due>>

Becomes(from, to) ==
  writer = from /\ writer' = to /\ UNCHANGED <<queue, batch, slot, disk, others>>

Sleep == queue = << >> /\ ~shutdown_flag /\ Becomes("wait", "asleep")

\* A condition variable may wake its waiter for no reason.
SpuriousWakeup == Becomes("asleep", "wait")

Swap(q) ==
  /\ writer = "wait" /\ (queue # << >> \/ shutdown_flag)
  /\ batch' = queue /\ queue' = q
  /\ writer' = IF queue = << >> THEN "check" ELSE "write"
  /\ UNCHANGED <<slot, disk, others>>

\* Mutant: the batch is a copy, and the queue keeps its records.
TakeCopy == Swap(queue)

TakeBatch == Swap(<< >>)

\* Mutant: new records do not count once shutdown is asked for.
CheckFlagOnly == Becomes("check", IF shutdown_flag THEN "done" ELSE "wait")

Check == Becomes("check", IF shutdown_flag /\ queue = << >> THEN "done" ELSE "wait")

-----------------------------------------------------------------------------
(* RotatingFileSink::write and rotate.                                     *)

Full == Len(file) > 0 /\ Len(file) >= max_bytes

WriteLine ==
  /\ file' = Append(file, Head(batch))
  /\ durable' = Append(durable, Head(batch))
  /\ batch' = Tail(batch)
  /\ writer' = IF batch' = << >> THEN "check" ELSE "write"
  /\ UNCHANGED <<queue, slot, backup, dropped, others>>

Write == writer = "write" /\ ~Full /\ WriteLine

Rotate == Full /\ Becomes("write", "remove")

\* The records of the backups b, the oldest first, and then those of f.
InFiles(b, f) ==
  LET newest[k \in 0..max_backups] == IF k = 0 THEN f ELSE b[k] \o newest[k - 1]
  IN  newest[max_backups]

\* The oldest backup is deleted; slot is the next one to shift.
Delete(gone, left, next) ==
  /\ writer = "remove" /\ writer' = next
  /\ dropped' = dropped \o gone
  /\ backup' = left
  /\ slot' = max_backups - 1
  /\ UNCHANGED <<queue, batch, file, durable, others>>

\* Mutant: all backups go, not just the oldest.
RemoveAll == Delete(InFiles(backup, << >>), [i \in Slots |-> << >>], "rename")

Oldest == backup[max_backups]
WithoutOldest == [backup EXCEPT ![max_backups] = << >>]

\* Mutant: the backups are not shifted.
RemoveOnly == Delete(Oldest, WithoutOldest, "rename")

RemoveOldest == Delete(Oldest, WithoutOldest, IF max_backups > 1 THEN "shift" ELSE "rename")

Shift ==
  /\ writer = "shift"
  /\ backup' = IF backup[slot] = << >> THEN backup
               ELSE [backup EXCEPT ![slot + 1] = backup[slot], ![slot] = << >>]
  /\ slot' = slot - 1
  /\ writer' = IF slot = 1 THEN "rename" ELSE "shift"
  /\ UNCHANGED <<queue, batch, file, dropped, durable, others>>

Rename ==
  /\ writer = "rename" /\ writer' = "append"
  /\ backup' = [backup EXCEPT ![1] = file] /\ file' = << >>
  /\ UNCHANGED <<queue, batch, slot, dropped, durable, others>>

Reopen == writer = "append" /\ WriteLine

-----------------------------------------------------------------------------
\* The process is killed and started again.
Crash ==
  /\ crashes < MaxCrashes /\ crashes' = crashes + 1
  /\ queue' = << >> /\ shutdown_flag' = FALSE /\ pushing' = {}
  /\ writer' = "wait" /\ batch' = << >> /\ slot' = 0
  /\ stop' = "no" /\ due' = 0
  /\ accepted' = durable
  /\ UNCHANGED <<disk, pushed>>

write_entry == Write \/ Rotate \/ RemoveOldest \/ Shift \/ Rename \/ Reopen

run == Sleep \/ TakeBatch \/ write_entry \/ Check

Next ==
  \/ \E p \in Producer : push(p) \/ Signal(p)
  \/ StopFlag \/ StopSignal \/ Join
  \/ run \/ SpuriousWakeup
  \/ Crash

\* Threads that can run do run; nobody need log, ask for shutdown or crash.
Fairness ==
  /\ WF_vars(run)
  /\ \A p \in Producer : WF_vars(Signal(p))
  /\ WF_vars(StopSignal) /\ WF_vars(Join)

Spec == Init /\ [][Next]_vars /\ Fairness

-----------------------------------------------------------------------------
\* No record is lost, duplicated or overtaken between push() and the file: the
\* records accepted are those written, those in the batch and those queued.
InOrder == accepted = durable \o batch \o queue

\* What has been written stays on disk, oldest backup first, until rotation
\* deletes it as the oldest -- also when the process was killed in the middle
\* of a rotation and the next one rotates again.
DiskKeeps == durable = dropped \o InFiles(backup, file)

\* "Keep this many rotated files": records are only deleted when max_backups
\* rotated files are in use, but for the one a rotation under way is moving and
\* one for each rotation that was cut short: that leaves a gap, and the next
\* rotation deletes the oldest backup all the same.
Retention ==
  dropped # << >> => Cardinality({i \in Slots : backup[i] # << >>}) >= max_backups - 1 - crashes

\* "Flushes remaining entries": when shutdown() returns, every record accepted
\* before it set the flag is in the file.
ShutdownFlushes == stop = "returned" => Len(durable) >= due

\* A record does not wait for the next one: it reaches the file unless the
\* process dies or is shutting down (ShutdownFlushes then covers it).
RecordsReachFile ==
  \A n \in 1..MaxRecords :
    n \in Range(accepted) ~> n \in Range(durable) \/ n \notin Range(accepted) \/ shutdown_flag

\* shutdown() returns once threads stop logging, unless the process dies.
ShutdownReturns == shutdown_flag ~> (stop = "returned" \/ ~shutdown_flag)
=============================================================================
