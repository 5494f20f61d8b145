--------------------------- MODULE ProcessProofs ----------------------------
(***************************************************************************)
(* What the logger keeps of its records, for any number of threads,        *)
(* records and crashes, any file size and any number of backups; and, at   *)
(* the end, that the process which writes them runs until it is asked to   *)
(* stop, for any clients and configurations.                               *)
(***************************************************************************)
EXTENDS Logger, FiniteSetTheorems, WellFoundedInduction, TLAPS

\* The writer has a batch exactly while it is in write_entry; a rotation under
\* way has made room for the backup it moves next.
Resting == {"wait", "asleep", "check", "done"}

Control ==
  /\ batch = << >> <=> writer \in Resting
  /\ writer = "shift" => slot \in 1..max_backups - 1 /\ backup[slot + 1] = << >>
  /\ writer = "rename" => slot = 0 /\ backup[1] = << >>
  /\ writer = "append" => file = << >>
  /\ writer \in {"remove", "shift", "rename"} => file # << >>

\* The writer ends only when shutdown() was asked for and nothing was left.
Stopping ==
  /\ shutdown_flag <=> stop # "no"
  /\ due <= Len(accepted) /\ Len(accepted) <= pushed
  /\ writer = "done" => shutdown_flag /\ Len(durable) >= due
  /\ stop = "returned" => writer = "done"

\* g[k] holds the records of the k newest backups and of the log file f.
Stacked(b, f, g) ==
  /\ g \in [0..max_backups -> Records]
  /\ g[0] = f /\ \A k \in 1..max_backups : g[k] = b[k] \o g[k - 1]

\* DiskKeeps, with the records file by file.
Kept == \E g : Stacked(backup, file, g) /\ durable = dropped \o g[max_backups]

Gap(b, n) == {j \in 1..n : b[j] = << >>}

\* A rotation leaves no gap below a backup but the one it is moving, so there are
\* at most as many as rotations that were cut short.
Gaps ==
  LET moving == writer \in {"shift", "rename"}
  IN  /\ \A i \in Slots : backup[i] # << >> =>
           Cardinality(Gap(backup, i - 1)) <= crashes + (IF moving /\ i > slot THEN 1 ELSE 0)
      /\ dropped # << >> =>
           Cardinality(Gap(backup, max_backups)) <= crashes + (IF moving THEN 1 ELSE 0)

IInv == TypeOK /\ InOrder /\ Control /\ Stopping /\ Kept /\ Gaps

-----------------------------------------------------------------------------
(* Sequences, numbers and sets.                                            *)

LEMMA ConcatFacts ==
  ASSUME NEW a \in Records, NEW b \in Records
  PROVE  /\ a \o b \in Records /\ Len(a \o b) = Len(a) + Len(b)
         /\ a \o << >> = a /\ << >> \o a = a
  BY DEF Records

LEMMA ConcatAssoc ==
  ASSUME NEW a \in Records, NEW b \in Records, NEW c \in Records
  PROVE  (a \o b) \o c = a \o (b \o c)
  BY DEF Records

LEMMA AppendFacts ==
  ASSUME NEW a \in Records, NEW b \in Records, NEW e \in 1..MaxRecords
  PROVE  /\ Append(a, e) \in Records /\ Len(Append(a, e)) = Len(a) + 1 /\ Len(a) \in Nat
         /\ a \o Append(b, e) = Append(a \o b, e)
  BY DEF Records

LEMMA SeqTail ==
  ASSUME NEW S, NEW a \in Seq(S), NEW b \in Seq(S), b # << >>
  PROVE  /\ Append(a, Head(b)) \o Tail(b) = a \o b
         /\ Head(b) \in S /\ Tail(b) \in Seq(S)
  OBVIOUS

LEMMA TailFacts ==
  ASSUME NEW a \in Records, NEW b \in Records, b # << >>
  PROVE  /\ Append(a, Head(b)) \o Tail(b) = a \o b
         /\ Head(b) \in 1..MaxRecords /\ Tail(b) \in Records
  BY Zenon, SeqTail DEF Records

LEMMA LeastElement ==
  ASSUME NEW T, T \subseteq Nat, T # {}
  PROVE  \E m \in T : \A k \in T : m <= k
<1> DEFINE R == OpToRel(<, Nat)
<1>1. IsWellFoundedOn(R, Nat)
  BY Zenon, NatLessThanWellFounded
<1>2. \A x, y \in Nat : y < x => <<y, x>> \in R
  BY DEF OpToRel
<1> HIDE DEF R
<1>3. PICK x \in T : \A y \in T : ~ (<<y, x>> \in R)
  BY Zenon, <1>1, WFMin
<1>4. \A y \in T : ~ (y < x)
  BY Zenon, <1>2, <1>3
<1>5. QED
  BY <1>4

\* InFiles(b, f) is what its recursion says.
LEMMA FilesAre ==
  ASSUME NEW b, NEW f, NEW g, Stacked(b, f, g)
  PROVE  InFiles(b, f) = g[max_backups]
<1> DEFINE Step(h) == [k \in 0..max_backups |-> IF k = 0 THEN f ELSE b[k] \o h[k - 1]]
           h == CHOOSE h : h = Step(h)
           T == {k \in 0..max_backups : h[k] # g[k]}
<1>1. g = Step(g)
  BY LoggerAssumption DEF Stacked
<1>2. InFiles(b, f) = h[max_backups]
  BY DEF InFiles
<1>3. h = Step(h)
  BY Zenon, <1>1
<1> HIDE DEF h
<1>4. ASSUME T # {} PROVE FALSE
  <2>1. T \subseteq Nat
    BY LoggerAssumption
  <2>2. PICK m \in T : \A k \in T : m <= k
    BY Zenon, <1>4, <2>1, LeastElement
  <2>3. m \in 0..max_backups /\ h[m] # g[m]
    BY <2>2
  <2>4. h[m] = IF m = 0 THEN f ELSE b[m] \o h[m - 1]
    BY Zenon, <1>3, <2>3
  <2>5. g[m] = IF m = 0 THEN f ELSE b[m] \o g[m - 1]
    BY Zenon, <1>1, <2>3
  <2>6. m # 0
    BY Zenon, <2>3, <2>4, <2>5
  <2>7. m - 1 \in 0..max_backups /\ ~(m <= m - 1)
    BY <2>3, <2>6, LoggerAssumption
  <2>8. h[m - 1] = g[m - 1]
    BY Zenon, <2>2, <2>7
  <2>9. QED
    BY Zenon, <2>3, <2>4, <2>5, <2>8
<1>5. max_backups \in 0..max_backups
  BY LoggerAssumption
<1>6. QED
  BY Zenon, <1>2, <1>4, <1>5

LEMMA GapFacts ==
  ASSUME NEW b, NEW n \in Nat
  PROVE  IsFiniteSet(Gap(b, n)) /\ Cardinality(Gap(b, n)) \in 0..n
<1>1. IsFiniteSet(1..n) /\ Cardinality(1..n) = n
  BY FS_Interval
<1>2. Gap(b, n) \subseteq 1..n
  BY DEF Gap
<1>3. IsFiniteSet(Gap(b, n)) /\ Cardinality(Gap(b, n)) <= n
  BY <1>1, <1>2, FS_Subset
<1>4. Cardinality(Gap(b, n)) \in Nat
  BY <1>3, FS_CardinalityType
<1>5. QED
  BY <1>3, <1>4

-----------------------------------------------------------------------------
(* The steps.                                                              *)

LEMMA InitIInv == ASSUME Init PROVE IInv
<1>1. << >> \in Records /\ 0 \in 0..max_backups /\ 0 \in 0..MaxRecords /\ 0 \in 0..MaxCrashes
  BY LoggerAssumption DEF Records
<1>2. TypeOK
  <2>1. Len(<< >>) <= max_bytes
    BY LoggerAssumption
  <2>2. QED
    BY Zenon, <1>1, <2>1 DEF Init, TypeOK
<1>3. InOrder /\ Control /\ Stopping
  BY DEF Init, InOrder, Control, Stopping, Resting
<1>4. Kept
  <2> DEFINE g == [k \in 0..max_backups |-> << >>]
  <2>1. << >> \o << >> = << >> /\ max_backups \in 0..max_backups
    BY LoggerAssumption
  <2>2. /\ g \in [0..max_backups -> Records] /\ g[0] = << >>
        /\ g[max_backups] = << >>
    BY <1>1, <2>1, LoggerAssumption
  <2>3. ASSUME NEW k \in 1..max_backups PROVE g[k] = backup[k] \o g[k - 1]
    <3>1. k \in 0..max_backups /\ k - 1 \in 0..max_backups /\ k \in Slots
      BY LoggerAssumption DEF Slots
    <3>2. QED
      BY Zenon, <3>1, <2>1 DEF Init
  <2>4. Stacked(backup, file, g)
    BY Zenon, <2>2, <2>3 DEF Init, Stacked
  <2> HIDE DEF g
  <2>5. QED
    BY Zenon, <2>1, <2>2, <2>4 DEF Init, Kept
<1>5. Gaps
  BY DEF Init, Gaps
<1>6. QED
  BY <1>2, <1>3, <1>4, <1>5 DEF IInv

\* A step that moves no record, and that neither starts nor ends a batch.
LEMMA QuietIInv ==
  ASSUME IInv, UNCHANGED <<queue, batch, slot, pushed, crashes, accepted>>,
         UNCHANGED <<file, backup, dropped, durable>>,
         shutdown_flag' \in BOOLEAN, pushing' \subseteq Producer,
         stop' \in {"no", "notify", "join", "returned"}, due' \in 0..MaxRecords,
         \/ writer' = writer
         \/ writer \in Resting /\ writer' \in Resting
         \/ writer = "write" /\ writer' = "remove" /\ file # << >>,
         Stopping'
  PROVE  IInv'
<1> USE DEF IInv
<1>1. TypeOK'
  BY Zenon DEF TypeOK, Resting
<1>2. InOrder' /\ Kept'
  BY Zenon DEF InOrder, Kept
<1>3. Control'
  BY DEF Control, Resting
<1>4. Gaps'
  <2>1. writer' \in {"shift", "rename"} <=> writer \in {"shift", "rename"}
    BY DEF Resting
  <2>2. QED
    BY Zenon, <2>1 DEF Gaps
<1>5. QED
  BY <1>1, <1>2, <1>3, <1>4

LEMMA SignalIInv ==
  ASSUME IInv, NEW p \in Producer, Signal(p)
  PROVE  IInv'
<1> USE DEF IInv
<1>1. /\ UNCHANGED <<queue, batch, slot, pushed, crashes, accepted>>
      /\ UNCHANGED <<file, backup, dropped, durable>>
      /\ UNCHANGED <<shutdown_flag, stop, due>> /\ pushing' = pushing \ {p}
      /\ writer' = IF writer = "asleep" THEN "wait" ELSE writer
  BY DEF Signal, notify_one, disk
<1>2. Stopping'
  BY <1>1 DEF Stopping
<1>3. /\ shutdown_flag' \in BOOLEAN /\ pushing' \subseteq Producer
      /\ stop' \in {"no", "notify", "join", "returned"} /\ due' \in 0..MaxRecords
  BY Zenon, <1>1 DEF TypeOK
<1>4. writer' = writer \/ (writer \in Resting /\ writer' \in Resting)
  BY <1>1 DEF Resting
<1>5. QED
  BY Zenon, <1>1, <1>2, <1>3, <1>4, QuietIInv

LEMMA StopIInv ==
  ASSUME IInv, StopFlag \/ StopSignal \/ Join
  PROVE  IInv'
<1> USE DEF IInv
<1>1. /\ UNCHANGED <<queue, batch, slot, pushed, crashes, accepted>>
      /\ UNCHANGED <<file, backup, dropped, durable>>
      /\ UNCHANGED pushing
      /\ writer' \in {writer, IF writer = "asleep" THEN "wait" ELSE writer}
  BY DEF StopFlag, SetFlag, StopSignal, Join, notify_one, disk, thread
<1>2. due' \in {due, Len(accepted)} /\ Len(accepted) \in Nat /\ Len(accepted) <= pushed
  BY DEF StopFlag, SetFlag, StopSignal, Join, Stopping, TypeOK, Records
<1>3. due' \in 0..MaxRecords
  <2>1. due \in 0..MaxRecords /\ pushed \in 0..MaxRecords
    BY Zenon DEF TypeOK
  <2>2. QED
    BY <1>2, <2>1, LoggerAssumption
<1>4. /\ shutdown_flag' \in BOOLEAN /\ pushing' \subseteq Producer
      /\ stop' \in {"no", "notify", "join", "returned"}
  BY Zenon, <1>1 DEF StopFlag, SetFlag, StopSignal, Join, TypeOK
<1>5. writer' = writer \/ (writer \in Resting /\ writer' \in Resting)
  BY <1>1 DEF Resting
<1>6. Stopping'
  <2>1. CASE StopFlag
    BY <2>1, <1>1, <1>2 DEF StopFlag, SetFlag, Stopping, thread
  <2>2. CASE StopSignal
    BY <2>2, <1>1 DEF StopSignal, notify_one, Stopping
  <2>3. CASE Join
    BY <2>3, <1>1 DEF Join, Stopping, thread
  <2>4. QED
    BY <2>1, <2>2, <2>3
<1>7. QED
  BY Zenon, <1>1, <1>3, <1>4, <1>5, <1>6, QuietIInv

LEMMA RunIInv ==
  ASSUME IInv, Sleep \/ SpuriousWakeup \/ Check \/ Rotate
  PROVE  IInv'
<1> USE DEF IInv
<1>1. /\ UNCHANGED <<queue, batch, slot, pushed, crashes, accepted>>
      /\ UNCHANGED <<file, backup, dropped, durable>>
      /\ UNCHANGED <<shutdown_flag, pushing, stop, due>>
  BY DEF Sleep, SpuriousWakeup, Check, Rotate, Becomes, disk, others
<1>2. /\ shutdown_flag' \in BOOLEAN /\ pushing' \subseteq Producer
      /\ stop' \in {"no", "notify", "join", "returned"} /\ due' \in 0..MaxRecords
  BY Zenon, <1>1 DEF TypeOK
<1>3. \/ writer \in Resting /\ writer' \in Resting
      \/ writer = "write" /\ writer' = "remove" /\ file # << >>
  BY DEF Sleep, SpuriousWakeup, Check, Rotate, Becomes, Resting, Full
<1>4. Stopping'
  <2>1. CASE writer' # "done"
    <3>1. writer # "done"
      BY DEF Sleep, SpuriousWakeup, Check, Rotate, Becomes
    <3>2. QED
      BY Zenon, <1>1, <2>1, <3>1 DEF Stopping
  <2>2. CASE writer' = "done"
    <3>1. shutdown_flag /\ queue = << >> /\ writer = "check"
      BY <2>2 DEF Sleep, SpuriousWakeup, Check, Rotate, Becomes
    <3>2. batch = << >>
      BY Zenon, <3>1 DEF Control, Resting
    <3>3. accepted = durable
      BY <3>1, <3>2, ConcatFacts DEF InOrder, TypeOK, Records
    <3>4. QED
      BY <1>1, <3>1, <3>3 DEF Stopping, TypeOK, Records
  <2>3. QED
    BY <2>1, <2>2
<1>5. QED
  BY Zenon, <1>1, <1>2, <1>3, <1>4, QuietIInv

LEMMA PushIInv ==
  ASSUME IInv, NEW p \in Producer, push(p)
  PROVE  IInv'
<1> USE DEF IInv
<1>1. /\ pushed' = pushed + 1 /\ pushed < MaxRecords
      /\ queue' = Append(queue, pushed') /\ accepted' = Append(accepted, pushed')
      /\ UNCHANGED <<shutdown_flag, writer, batch, slot, stop, crashes, due>>
      /\ UNCHANGED <<file, backup, dropped, durable>> /\ pushing' = pushing \union {p}
  BY DEF push, Enqueue, thread, disk
<1>2. /\ pushed' \in 0..MaxRecords /\ pushed' \in 1..MaxRecords
      /\ queue \in Records /\ accepted \in Records
      /\ durable \in Records /\ batch \in Records
  BY <1>1, LoggerAssumption DEF TypeOK
<1>3. TypeOK'
  <2>1. queue' \in Records /\ accepted' \in Records
    BY Zenon, <1>1, <1>2, AppendFacts
  <2>2. pushing' \subseteq Producer
    BY <1>1 DEF TypeOK
  <2>3. QED
    BY Zenon, <1>1, <1>2, <2>1, <2>2 DEF TypeOK
<1>4. InOrder'
  <2>1. durable \o batch \in Records
    BY <1>2, ConcatFacts
  <2>2. durable \o batch \o Append(queue, pushed') = Append(durable \o batch \o queue, pushed')
    BY Zenon, <1>2, <2>1, AppendFacts
  <2>3. QED
    BY Zenon, <1>1, <2>2 DEF InOrder
<1>5. Control' /\ Kept' /\ Gaps'
  BY Zenon, <1>1 DEF Control, Kept, Gaps
<1>6. Stopping'
  <2>1. Len(accepted') = Len(accepted) + 1 /\ Len(accepted) \in Nat /\ due \in Nat /\ pushed \in Nat
    BY <1>1, <1>2 DEF TypeOK
  <2>2. due' <= Len(accepted') /\ Len(accepted') <= pushed'
    BY <1>1, <2>1 DEF Stopping
  <2>3. QED
    BY Zenon, <1>1, <2>2 DEF Stopping
<1>7. QED
  BY <1>3, <1>4, <1>5, <1>6

LEMMA TakeBatchIInv == ASSUME IInv, TakeBatch PROVE IInv'
<1> USE DEF IInv
<1>1. /\ writer = "wait" /\ batch' = queue /\ queue' = << >>
      /\ writer' = IF queue = << >> THEN "check" ELSE "write"
      /\ UNCHANGED <<slot, file, backup, dropped, durable>>
      /\ UNCHANGED <<shutdown_flag, pushing, stop, pushed, crashes, accepted, due>>
  BY DEF TakeBatch, Swap, disk, others
<1>2. TypeOK'
  <2>1. writer' \in {"check", "write"} /\ << >> \in Records
    BY <1>1 DEF Records
  <2>2. QED
    BY Zenon, <1>1, <2>1 DEF TypeOK
<1>3. batch = << >>
  BY Zenon, <1>1 DEF Control, Resting
<1>4. InOrder'
  <2>1. (durable \o << >>) \o queue = (durable \o queue) \o << >>
    BY ConcatFacts DEF TypeOK
  <2>2. QED
    BY Zenon, <1>1, <1>3, <2>1 DEF InOrder
<1>5. Control'
  BY <1>1 DEF Control, Resting
<1>6. Stopping'
  BY <1>1 DEF Stopping
<1>7. Kept'
  BY Zenon, <1>1 DEF Kept
<1>8. Gaps'
  <2>1. writer' \notin {"shift", "rename"} /\ writer \notin {"shift", "rename"}
    BY <1>1
  <2>2. QED
    BY Zenon, <1>1, <2>1 DEF Gaps
<1>9. QED
  BY <1>2, <1>4, <1>5, <1>6, <1>7, <1>8

\* A record goes from the batch to the file.
LEMMA WriteLineIInv ==
  ASSUME IInv, WriteLine, writer \in {"write", "append"},
         Len(file) = 0 \/ Len(file) < max_bytes
  PROVE  IInv'
<1> USE DEF IInv
<1> DEFINE e == Head(batch)
<1>1. /\ file' = Append(file, e) /\ durable' = Append(durable, e) /\ batch' = Tail(batch)
      /\ writer' = IF batch' = << >> THEN "check" ELSE "write"
      /\ UNCHANGED <<queue, slot, backup, dropped>>
      /\ UNCHANGED <<shutdown_flag, pushing, stop, pushed, crashes, accepted, due>>
  BY DEF WriteLine, others
<1>2. batch # << >>
  BY DEF Control, Resting
<1>3. /\ batch \in Records /\ durable \in Records
      /\ queue \in Records /\ file \in Records
      /\ dropped \in Records
  BY DEF TypeOK
<1>4. e \in 1..MaxRecords /\ batch' \in Records /\ Append(durable, e) \o Tail(batch) = durable \o batch
  BY Zenon, <1>1, <1>2, <1>3, TailFacts
<1> HIDE DEF e
<1>5. TypeOK'
  <2>1. file' \in Records /\ durable' \in Records /\ writer' \in {"check", "write"}
    BY Zenon, <1>1, <1>3, <1>4, AppendFacts
  <2>2. Len(file') <= max_bytes \/ Len(file') = 1
    BY <1>1, <1>3, LoggerAssumption
  <2>3. QED
    BY Zenon, <1>1, <1>4, <2>1, <2>2 DEF TypeOK
<1>6. InOrder'
  BY Zenon, <1>1, <1>4 DEF InOrder
<1>7. Control'
  BY <1>1 DEF Control, Resting
<1>8. Stopping'
  BY <1>1 DEF Stopping
<1>9. Kept'
  <2>1. PICK g : Stacked(backup, file, g) /\ durable = dropped \o g[max_backups]
    BY DEF Kept
  <2> DEFINE n == [k \in 0..max_backups |-> Append(g[k], e)]
  <2>2. 0 \in 0..max_backups /\ max_backups \in 0..max_backups
    BY LoggerAssumption
  <2>3. \A k \in 0..max_backups : g[k] \in Records /\ n[k] = Append(g[k], e)
    BY <2>1 DEF Stacked
  <2>4. n \in [0..max_backups -> Records]
    BY Zenon, <2>3, <1>4, AppendFacts
  <2>5. n[0] = file'
    BY Zenon, <1>1, <2>1, <2>2, <2>3 DEF Stacked
  <2> HIDE DEF n
  <2>6. ASSUME NEW k \in 1..max_backups PROVE n[k] = backup[k] \o n[k - 1]
    <3>1. k \in 0..max_backups /\ k - 1 \in 0..max_backups /\ backup[k] \in Records
      BY LoggerAssumption DEF TypeOK, Slots
    <3>2. backup[k] \o Append(g[k - 1], e) = Append(backup[k] \o g[k - 1], e)
      BY Zenon, <3>1, <2>3, <1>4, AppendFacts
    <3>3. QED
      BY Zenon, <3>1, <3>2, <2>1, <2>3 DEF Stacked
  <2>7. durable' = dropped \o n[max_backups]
    <3>1. dropped \o Append(g[max_backups], e) = Append(dropped \o g[max_backups], e)
      BY Zenon, <2>2, <2>3, <1>3, <1>4, AppendFacts
    <3>2. QED
      BY Zenon, <3>1, <2>1, <2>2, <2>3, <1>1
  <2>8. QED
    BY Zenon, <2>4, <2>5, <2>6, <2>7, <1>1 DEF Kept, Stacked
<1>10. Gaps'
  <2>1. writer' \notin {"shift", "rename"} /\ writer \notin {"shift", "rename"}
    BY <1>1
  <2>2. QED
    BY Zenon, <1>1, <2>1 DEF Gaps
<1>11. QED
  BY <1>5, <1>6, <1>7, <1>8, <1>9, <1>10

\* fs::remove of the oldest backup.
LEMMA RemoveOldestIInv == ASSUME IInv, RemoveOldest PROVE IInv'
<1> USE DEF IInv
<1> DEFINE m == max_backups
<1>1. /\ writer = "remove" /\ writer' = IF m > 1 THEN "shift" ELSE "rename"
      /\ dropped' = dropped \o backup[m] /\ backup' = [backup EXCEPT ![m] = << >>]
      /\ slot' = m - 1
      /\ UNCHANGED <<queue, batch, file, durable>>
      /\ UNCHANGED <<shutdown_flag, pushing, stop, pushed, crashes, accepted, due>>
  BY DEF RemoveOldest, Delete, Oldest, WithoutOldest, others
<1>2. /\ m \in Nat \ {0} /\ m \in Slots /\ m \in 0..m /\ 0 \in 0..m /\ m - 1 \in 0..m
      /\ backup \in [Slots -> Records]
      /\ << >> \in Records /\ backup[m] \in Records /\ dropped \in Records
  BY LoggerAssumption DEF TypeOK, Slots, Records
<1>3. /\ backup' \in [Slots -> Records] /\ backup'[m] = << >>
      /\ \A i \in Slots : i # m => backup'[i] = backup[i]
  BY <1>1, <1>2
<1>4. TypeOK'
  <2>1. dropped' \in Records
    BY Zenon, <1>1, <1>2, ConcatFacts
  <2>2. writer' \in {"shift", "rename"} /\ slot' \in 0..m
    BY <1>1, <1>2
  <2>3. QED
    BY Zenon, <1>1, <1>3, <2>1, <2>2 DEF TypeOK
<1>5. InOrder'
  BY Zenon, <1>1 DEF InOrder
<1>6. Control'
  <2>1. batch # << >>
    BY <1>1 DEF Control, Resting
  <2>2. writer' = "shift" => slot' \in 1..m - 1 /\ backup'[slot' + 1] = << >>
    BY <1>1, <1>2, <1>3
  <2>3. writer' = "rename" => slot' = 0 /\ backup'[1] = << >>
    BY <1>1, <1>2, <1>3
  <2>4. writer' \in {"shift", "rename"}
    BY <1>1
  <2>5. QED
    BY <1>1, <2>1, <2>2, <2>3, <2>4 DEF Control, Resting
<1>7. Stopping'
  BY <1>1 DEF Stopping
<1>8. Kept'
  <2>1. PICK g : Stacked(backup, file, g) /\ durable = dropped \o g[m]
    BY DEF Kept
  <2> DEFINE n == [g EXCEPT ![m] = g[m - 1]]
  <2>2. /\ g \in [0..m -> Records] /\ g[0] = file
        /\ \A k \in 1..m : g[k] = backup[k] \o g[k - 1]
    BY Zenon, <2>1 DEF Stacked
  <2>3. /\ n \in [0..m -> Records] /\ n[m] = g[m - 1]
        /\ \A k \in 0..m : k # m => n[k] = g[k]
    BY <2>2, <1>2
  <2>4. n[0] = file
    BY <2>2, <2>3, <1>2
  <2> HIDE DEF n
  <2>5. ASSUME NEW k \in 1..m PROVE n[k] = backup'[k] \o n[k - 1]
    <3>1. /\ k \in 0..m /\ k - 1 \in 0..m /\ k - 1 # m /\ k \in Slots
      BY <1>2 DEF Slots
    <3>2. CASE k = m
      BY Zenon, <3>1, <3>2, <2>2, <2>3, <1>3, ConcatFacts
    <3>3. CASE k # m
      BY Zenon, <3>1, <3>3, <2>2, <2>3, <1>3
    <3>4. QED
      BY Zenon, <3>2, <3>3
  <2>6. durable = (dropped \o backup[m]) \o g[m - 1]
    <3>1. m \in 1..m /\ g[m - 1] \in Records
      BY <1>2, <2>2
    <3>2. dropped \o (backup[m] \o g[m - 1]) = (dropped \o backup[m]) \o g[m - 1]
      BY ZenonT(40), <3>1, <1>2, ConcatAssoc
    <3>3. QED
      BY Zenon, <3>1, <3>2, <2>1, <2>2
  <2>7. QED
    BY Zenon, <2>3, <2>4, <2>5, <2>6, <1>1 DEF Kept, Stacked
<1>9. Gaps'
  <2>1. ASSUME NEW i \in Slots, backup'[i] # << >>
        PROVE  /\ Cardinality(Gap(backup', i - 1)) <= crashes
               /\ Cardinality(Gap(backup', i - 1)) \in Nat
    <3>1. i # m /\ backup[i] # << >> /\ i - 1 \in Nat
      BY <2>1, <1>3 DEF Slots
    <3>2. Gap(backup', i - 1) = Gap(backup, i - 1)
      BY <1>2, <1>3 DEF Gap, Slots
    <3>3. Cardinality(Gap(backup, i - 1)) <= crashes
      BY <3>1, <1>1 DEF Gaps, TypeOK
    <3>4. Cardinality(Gap(backup', i - 1)) \in Nat
      BY <3>1, GapFacts
    <3>5. QED
      BY <3>2, <3>3, <3>4
  <2>2. ASSUME dropped' # << >>
        PROVE  Cardinality(Gap(backup', m)) <= crashes + 1
    <3>1. CASE backup[m] = << >>
      <4>1. backup' = backup /\ dropped' = dropped
        BY Zenon, <3>1, <1>1, <1>2, ConcatFacts
      <4>2. QED
        BY <4>1, <2>2, <1>1, <1>2, GapFacts DEF Gaps, TypeOK
    <3>2. CASE backup[m] # << >>
      <4>1. Cardinality(Gap(backup, m - 1)) <= crashes
        BY <3>2, <1>1, <1>2 DEF Gaps, TypeOK
      <4>2. Gap(backup', m) = Gap(backup, m - 1) \union {m} /\ m \notin Gap(backup, m - 1)
        BY <1>2, <1>3 DEF Gap, Slots
      <4>3. IsFiniteSet(Gap(backup, m - 1)) /\ Cardinality(Gap(backup, m - 1)) \in Nat
        BY <1>2, GapFacts
      <4>4. Cardinality(Gap(backup', m)) = Cardinality(Gap(backup, m - 1)) + 1
        BY <4>2, <4>3, FS_AddElement
      <4>5. QED
        BY <4>1, <4>3, <4>4 DEF TypeOK
    <3>3. QED
      BY <3>1, <3>2
  <2>3. writer' \in {"shift", "rename"} /\ crashes' = crashes /\ crashes \in Nat
    BY <1>1 DEF TypeOK
  <2>4. QED
    BY <2>1, <2>2, <2>3 DEF Gaps
<1>10. QED
  BY <1>4, <1>5, <1>6, <1>7, <1>8, <1>9

\* The gap at s + 1 becomes one at s.
LEMMA GapMoves ==
  ASSUME NEW b, NEW c, NEW s \in Nat \ {0}, NEW n \in Nat, s + 1 <= n,
         b[s] # << >>, b[s + 1] = << >>, c[s] = << >>, c[s + 1] # << >>,
         \A i \in 1..n : i \notin {s, s + 1} => c[i] = b[i]
  PROVE  Cardinality(Gap(c, n)) = Cardinality(Gap(b, n))
<1> DEFINE rest == Gap(b, n) \ {s + 1}
<1>1. s \in 1..n /\ s + 1 \in 1..n /\ s # s + 1
  OBVIOUS
<1>2. /\ s + 1 \in Gap(b, n) /\ Gap(c, n) = rest \union {s} /\ s \notin rest
  BY Zenon, <1>1 DEF Gap
<1>3. IsFiniteSet(Gap(b, n)) /\ Cardinality(Gap(b, n)) \in Nat
  BY GapFacts
<1>4. IsFiniteSet(rest) /\ Cardinality(rest) = Cardinality(Gap(b, n)) - 1
  BY <1>2, <1>3, FS_RemoveElement
<1> HIDE DEF rest
<1>5. Cardinality(rest \union {s}) = Cardinality(rest) + 1
  BY Zenon, <1>2, <1>4, FS_AddElement
<1>6. QED
  BY <1>2, <1>3, <1>4, <1>5

\* fs::rename of one backup to the next number.
LEMMA ShiftIInv == ASSUME IInv, Shift PROVE IInv'
<1> USE DEF IInv
<1> DEFINE m == max_backups
           s == slot
<1>1. /\ writer = "shift" /\ slot' = s - 1 /\ writer' = IF s = 1 THEN "rename" ELSE "shift"
      /\ backup' = IF backup[s] = << >> THEN backup
                   ELSE [backup EXCEPT ![s + 1] = backup[s], ![s] = << >>]
      /\ UNCHANGED <<queue, batch, file, dropped, durable>>
      /\ UNCHANGED <<shutdown_flag, pushing, stop, pushed, crashes, accepted, due>>
  BY DEF Shift, others
<1>2. /\ m \in Nat /\ s \in 1..m - 1 /\ backup[s + 1] = << >> /\ batch # << >> /\ file # << >>
      /\ backup \in [Slots -> Records] /\ << >> \in Records
  BY <1>1, LoggerAssumption DEF TypeOK, Control, Resting, Records
<1>3. /\ s \in Slots /\ s + 1 \in Slots /\ s - 1 \in 0..m /\ s \in 0..m /\ s + 1 \in 0..m
      /\ m \in 0..m /\ 0 \in 0..m /\ s # m /\ s # 0 /\ s # s + 1 /\ s - 1 # s
  BY <1>2 DEF Slots
<1> HIDE DEF m, s
<1>4. /\ backup' \in [Slots -> Records] /\ backup'[s] = << >> /\ backup'[s + 1] = backup[s]
      /\ \A i \in Slots : i \notin {s, s + 1} => backup'[i] = backup[i]
  BY Zenon, <1>1, <1>2, <1>3
<1>5. TypeOK'
  <2>1. writer' \in {"shift", "rename"} /\ slot' \in 0..max_backups
    BY <1>1, <1>3 DEF m
  <2>2. QED
    BY Zenon, <1>1, <1>4, <2>1 DEF TypeOK
<1>6. InOrder' /\ Stopping'
  BY <1>1 DEF InOrder, Stopping
<1>7. Control'
  <2>1. writer' = "shift" => slot' \in 1..max_backups - 1 /\ slot' + 1 = s
    BY <1>1, <1>2 DEF m
  <2>2. writer' = "rename" => slot' = 0 /\ s = 1
    BY <1>1
  <2>3. writer' \in {"shift", "rename"}
    BY <1>1
  <2>4. QED
    BY <1>1, <1>2, <1>4, <2>1, <2>2, <2>3 DEF Control, Resting
<1>8. Kept'
  <2>1. PICK g : Stacked(backup, file, g) /\ durable = dropped \o g[m]
    BY DEF Kept, m
  <2>2. /\ g \in [0..m -> Records] /\ g[0] = file
        /\ \A k \in 1..m : g[k] = backup[k] \o g[k - 1]
    BY Zenon, <2>1 DEF Stacked, m
  <2> DEFINE n == [g EXCEPT ![s] = g[s - 1]]
  <2>3. /\ n \in [0..m -> Records] /\ n[s] = g[s - 1]
        /\ \A k \in 0..m : k # s => n[k] = g[k]
    BY Zenon, <2>2, <1>3
  <2> HIDE DEF n
  <2>4. ASSUME NEW k \in 1..m PROVE n[k] = backup'[k] \o n[k - 1]
    <3>1. k \in 0..m /\ k - 1 \in 0..m /\ k \in Slots /\ (k - 1 = s <=> k = s + 1)
      BY <1>2, <1>3 DEF Slots, m
    <3>2. CASE k = s
      <4>1. << >> \o g[s - 1] = g[s - 1]
        BY <2>2, <1>3, ConcatFacts
      <4>2. QED
        BY Zenon, <4>1, <3>2, <2>3, <1>3, <1>4
    <3>3. CASE k = s + 1
      <4>1. s \in 1..m /\ s + 1 \in 1..m /\ s + 1 - 1 = s /\ g[s] \in Records
        BY <2>2, <1>2, <1>3
      <4>2. << >> \o g[s] = g[s]
        BY <4>1, ConcatFacts
      <4>3. g[s] = backup[s] \o g[s - 1]
        BY Zenon, <4>1, <2>2
      <4>4. g[k] = backup[k] \o g[k - 1] /\ k - 1 = s
        BY Zenon, <3>1, <3>3, <2>2
      <4>5. g[k] = backup[s] \o g[s - 1]
        BY Zenon, <4>2, <4>3, <4>4, <3>3, <1>2
      <4>6. n[k] = g[k] /\ n[k - 1] = g[s - 1]
        BY Zenon, <4>4, <3>1, <3>3, <2>3, <1>3
      <4>7. QED
        BY Zenon, <4>5, <4>6, <3>3, <1>4
    <3>4. CASE k \notin {s, s + 1}
      BY Zenon, <3>1, <3>4, <2>2, <2>3, <1>4
    <3>5. QED
      BY Zenon, <3>2, <3>3, <3>4
  <2>5. QED
    BY ZenonT(40), <2>1, <2>2, <2>3, <2>4, <1>1, <1>3 DEF Kept, Stacked, m
<1>9. Gaps'
  <2> DEFINE C(b, n) == Cardinality(Gap(b, n))
  <2>1. /\ writer' \in {"shift", "rename"} /\ writer \in {"shift", "rename"}
        /\ crashes' = crashes /\ crashes \in Nat /\ dropped' = dropped
    BY <1>1 DEF TypeOK
  <2>2. \A b : \A n \in Nat : C(b, n) \in Nat
    BY GapFacts
  <2>3. ASSUME NEW i \in Slots, backup[i] # << >>
        PROVE  C(backup, i - 1) <= crashes + (IF i > s THEN 1 ELSE 0)
    BY <2>1, <2>3 DEF Gaps, s
  <2>4. dropped # << >> => C(backup, m) <= crashes + 1
    BY <2>1 DEF Gaps, m
  <2>5. ASSUME NEW n \in Nat, n <= m, s + 1 <= n PROVE C(backup', n) = C(backup, n)
    <3>1. CASE backup[s] = << >>
      BY <3>1, <1>1
    <3>2. CASE backup[s] # << >>
      <4>1. \A i \in 1..n : i \notin {s, s + 1} => backup'[i] = backup[i]
        BY <1>2, <1>4, <2>5 DEF Slots, m
      <4>2. QED
        BY <4>1, <3>2, <2>5, <1>2, <1>4, GapMoves
    <3>3. QED
      BY <3>1, <3>2
  <2>6. ASSUME NEW i \in Slots, backup'[i] # << >>
        PROVE  C(backup', i - 1) <= crashes + (IF i > s - 1 THEN 1 ELSE 0)
    <3>1. i \in Nat /\ i - 1 \in Nat /\ i # s /\ i <= m /\ s \in Nat /\ s - 1 \in Nat
      BY <2>6, <1>2, <1>4 DEF Slots, m
    <3>2. CASE i < s
      <4>1. backup[i] # << >>
        BY <2>6, <3>1, <3>2, <1>4
      <4>2. Gap(backup', i - 1) = Gap(backup, i - 1)
        BY <3>1, <3>2, <1>2, <1>4 DEF Gap, Slots, m
      <4>3. QED
        BY <4>1, <4>2, <3>1, <3>2, <2>1, <2>2, <2>3
    <3>3. CASE i = s + 1
      <4>1. backup[s] # << >>
        BY <2>6, <3>3, <1>4
      <4>2. C(backup, s - 1) <= crashes
        BY <4>1, <3>1, <2>1, <2>3, <1>3
      <4>3. Gap(backup', s) = Gap(backup, s - 1) \union {s} /\ s \notin Gap(backup, s - 1)
        BY <3>1, <1>2, <1>4 DEF Gap, Slots, m
      <4>4. IsFiniteSet(Gap(backup, s - 1))
        BY <3>1, GapFacts
      <4>5. C(backup', s) = C(backup, s - 1) + 1
        BY <4>3, <4>4, FS_AddElement
      <4>6. QED
        BY <4>2, <4>5, <3>1, <3>3, <2>1, <2>2
    <3>4. CASE i > s + 1
      <4>1. backup[i] # << >>
        BY <2>6, <3>1, <3>4, <1>4
      <4>2. C(backup', i - 1) = C(backup, i - 1)
        BY <3>1, <3>4, <2>5, <1>2 DEF m
      <4>3. QED
        BY <4>1, <4>2, <3>1, <3>4, <2>1, <2>2, <2>3
    <3>5. QED
      BY <3>1, <3>2, <3>3, <3>4
  <2>7. C(backup', m) = C(backup, m)
    BY <2>5, <1>2
  <2>8. QED
    BY Zenon, <2>1, <2>4, <2>6, <2>7, <1>1 DEF Gaps, m
<1>10. QED
  BY <1>5, <1>6, <1>7, <1>8, <1>9

\* The log file becomes the first backup.
LEMMA RenameIInv == ASSUME IInv, Rename PROVE IInv'
<1> USE DEF IInv
<1> DEFINE m == max_backups
<1>1. /\ writer = "rename" /\ writer' = "append"
      /\ backup' = [backup EXCEPT ![1] = file] /\ file' = << >>
      /\ UNCHANGED <<queue, batch, slot, dropped, durable>>
      /\ UNCHANGED <<shutdown_flag, pushing, stop, pushed, crashes, accepted, due>>
  BY DEF Rename, others
<1>2. /\ m \in Nat \ {0} /\ slot = 0 /\ backup[1] = << >> /\ batch # << >> /\ file # << >>
      /\ backup \in [Slots -> Records] /\ << >> \in Records /\ file \in Records
  BY <1>1, LoggerAssumption DEF TypeOK, Control, Resting, Records
<1>3. 1 \in Slots /\ 1 \in 1..m /\ 0 \in 0..m /\ 1 \in 0..m /\ m \in 0..m /\ m # 0
  BY <1>2 DEF Slots
<1> HIDE DEF m
<1>4. /\ backup' \in [Slots -> Records] /\ backup'[1] = file
      /\ \A i \in Slots : i # 1 => backup'[i] = backup[i]
  BY Zenon, <1>1, <1>2, <1>3
<1>5. TypeOK'
  <2>1. Len(<< >>) <= max_bytes
    BY LoggerAssumption
  <2>2. QED
    BY Zenon, <1>1, <1>2, <1>4, <2>1 DEF TypeOK
<1>6. InOrder' /\ Control' /\ Stopping'
  BY <1>1, <1>2 DEF InOrder, Control, Stopping, Resting
<1>7. Kept'
  <2>1. PICK g : Stacked(backup, file, g) /\ durable = dropped \o g[m]
    BY DEF Kept, m
  <2>2. /\ g \in [0..m -> Records] /\ g[0] = file
        /\ \A k \in 1..m : g[k] = backup[k] \o g[k - 1]
    BY Zenon, <2>1 DEF Stacked, m
  <2> DEFINE n == [g EXCEPT ![0] = << >>]
  <2>3. n \in [0..m -> Records] /\ n[0] = << >> /\ \A k \in 0..m : k # 0 => n[k] = g[k]
    BY Zenon, <2>2, <1>2, <1>3
  <2> HIDE DEF n
  <2>4. ASSUME NEW k \in 1..m PROVE n[k] = backup'[k] \o n[k - 1]
    <3>1. k \in 0..m /\ k - 1 \in 0..m /\ k \in Slots /\ k # 0 /\ (k - 1 = 0 <=> k = 1)
      BY <1>2 DEF Slots, m
    <3>2. g[k] = backup[k] \o g[k - 1]
      BY Zenon, <2>2
    <3>3. CASE k = 1
      <4>1. << >> \o file = file /\ file \o << >> = file
        BY Zenon, <1>2, ConcatFacts
      <4>2. g[k] = file
        BY Zenon, <4>1, <3>1, <3>2, <3>3, <2>2, <1>2
      <4>3. QED
        BY Zenon, <4>1, <4>2, <3>1, <3>3, <2>3, <1>4
    <3>4. CASE k # 1
      BY Zenon, <3>1, <3>2, <3>4, <2>3, <1>4
    <3>5. QED
      BY Zenon, <3>3, <3>4
  <2>5. QED
    BY Zenon, <2>1, <2>3, <2>4, <1>1, <1>3 DEF Kept, Stacked, m
<1>8. Gaps'
  <2> DEFINE C(b, n) == Cardinality(Gap(b, n))
  <2>1. /\ writer' \notin {"shift", "rename"} /\ writer \in {"shift", "rename"}
        /\ crashes' = crashes /\ crashes \in Nat /\ dropped' = dropped
    BY <1>1 DEF TypeOK
  <2>2. ASSUME NEW n \in 1..m PROVE C(backup', n) = C(backup, n) - 1 /\ C(backup, n) \in Nat
    <3>1. n \in Nat /\ IsFiniteSet(Gap(backup, n)) /\ C(backup, n) \in Nat
      BY <1>2, GapFacts DEF m
    <3>2. 1 \in Gap(backup, n) /\ Gap(backup', n) = Gap(backup, n) \ {1}
      BY <1>2, <1>4 DEF Gap, Slots, m
    <3>3. QED
      BY <3>1, <3>2, FS_RemoveElement
  <2>3. ASSUME NEW i \in Slots, backup'[i] # << >>
        PROVE  C(backup', i - 1) <= crashes
    <3>1. CASE i = 1
      <4>1. Gap(backup', 0) = {}
        BY DEF Gap
      <4>2. QED
        BY <3>1, <4>1, <2>1, FS_EmptySet
    <3>2. CASE i # 1
      <4>1. i - 1 \in 1..m /\ i > slot /\ backup[i] # << >>
        BY <2>3, <3>2, <1>2, <1>4 DEF Slots, m
      <4>2. C(backup, i - 1) <= crashes + 1
        BY <4>1, <2>1 DEF Gaps
      <4>3. C(backup', i - 1) = C(backup, i - 1) - 1 /\ C(backup, i - 1) \in Nat
        BY <4>1, <2>2
      <4>4. QED
        BY <4>2, <4>3, <2>1
    <3>3. QED
      BY <3>1, <3>2
  <2>4. dropped # << >> => C(backup', m) <= crashes
    <3>1. dropped # << >> => C(backup, m) <= crashes + 1
      BY <2>1 DEF Gaps, m
    <3>2. C(backup', m) = C(backup, m) - 1 /\ C(backup, m) \in Nat
      BY <2>2, <1>2 DEF m
    <3>3. QED
      BY <3>1, <3>2, <2>1
  <2>5. crashes + 0 = crashes
    BY <2>1
  <2>6. QED
    BY Zenon, <2>1, <2>3, <2>4, <2>5 DEF Gaps, m
<1>9. QED
  BY <1>5, <1>6, <1>7, <1>8

LEMMA CrashIInv == ASSUME IInv, Crash PROVE IInv'
<1> USE DEF IInv
<1>1. /\ crashes < MaxCrashes /\ crashes' = crashes + 1
      /\ queue' = << >> /\ shutdown_flag' = FALSE /\ pushing' = {}
      /\ writer' = "wait" /\ batch' = << >> /\ slot' = 0 /\ stop' = "no" /\ due' = 0
      /\ accepted' = durable /\ UNCHANGED <<file, backup, dropped, durable, pushed>>
  BY DEF Crash, disk
<1>2. /\ crashes \in Nat /\ crashes' \in 0..MaxCrashes /\ << >> \in Records
      /\ 0 \in 0..max_backups /\ 0 \in 0..MaxRecords
  BY <1>1, LoggerAssumption DEF TypeOK, Records
<1>3. TypeOK'
  BY Zenon, <1>1, <1>2 DEF TypeOK
<1>4. InOrder'
  <2>1. (durable \o << >>) \o << >> = durable
    BY ConcatFacts DEF TypeOK
  <2>2. QED
    BY Zenon, <1>1, <2>1 DEF InOrder
<1>5. Control'
  BY <1>1 DEF Control, Resting
<1>6. Stopping'
  <2>1. durable \in Records /\ batch \in Records /\ queue \in Records /\ pushed \in Nat
    BY DEF TypeOK
  <2>2. durable \o batch \in Records /\ Len(durable \o batch) = Len(durable) + Len(batch)
    BY <2>1, ConcatFacts
  <2>3. Len(accepted) = Len(durable) + Len(batch) + Len(queue)
    BY <2>1, <2>2, ConcatFacts DEF InOrder
  <2>4. Len(durable) \in Nat /\ Len(batch) \in Nat /\ Len(queue) \in Nat
    BY <2>1 DEF Records
  <2>5. Len(accepted) <= pushed
    BY DEF Stopping
  <2>6. QED
    BY <1>1, <2>1, <2>3, <2>4, <2>5 DEF Stopping
<1>7. Kept'
  BY Zenon, <1>1 DEF Kept
<1>8. Gaps'
  <2> DEFINE C(n) == Cardinality(Gap(backup, n))
  <2>1. \A n \in Nat : C(n) \in Nat
    BY GapFacts
  <2>2. ASSUME NEW i \in Slots, backup[i] # << >> PROVE C(i - 1) <= crashes + 1
    <3>1. C(i - 1) <= crashes + (IF writer \in {"shift", "rename"} /\ i > slot THEN 1 ELSE 0)
      BY Zenon, <2>2 DEF Gaps
    <3>2. C(i - 1) \in Nat
      BY <2>1 DEF Slots
    <3> HIDE DEF C
    <3>3. QED
      BY <3>1, <3>2, <1>2
  <2>3. ASSUME dropped # << >> PROVE C(max_backups) <= crashes + 1
    <3>1. C(max_backups) <= crashes + (IF writer \in {"shift", "rename"} THEN 1 ELSE 0)
      BY Zenon, <2>3 DEF Gaps
    <3>2. C(max_backups) \in Nat
      BY <2>1, LoggerAssumption
    <3> HIDE DEF C
    <3>3. QED
      BY <3>1, <3>2, <1>2
  <2>4. writer' \notin {"shift", "rename"} /\ crashes' + 0 = crashes + 1
    BY <1>1, <1>2
  <2>5. QED
    BY Zenon, <1>1, <2>2, <2>3, <2>4 DEF Gaps
<1>9. QED
  BY <1>3, <1>4, <1>5, <1>6, <1>7, <1>8

LEMMA NextIInv == ASSUME IInv, [Next]_vars PROVE IInv'
<1>1. ASSUME NEW p \in Producer, push(p) \/ Signal(p) PROVE IInv'
  BY <1>1, PushIInv, SignalIInv
<1>2. CASE StopFlag \/ StopSignal \/ Join
  BY <1>2, StopIInv
<1>3. CASE Sleep \/ SpuriousWakeup \/ Check \/ Rotate
  BY <1>3, RunIInv
<1>4. CASE TakeBatch
  BY <1>4, TakeBatchIInv
<1>5. CASE Write \/ Reopen
  <2>1. Len(file) \in Nat /\ max_bytes \in Nat
    BY LoggerAssumption DEF IInv, TypeOK, Records
  <2>2. WriteLine /\ writer \in {"write", "append"} /\ (Len(file) = 0 \/ Len(file) < max_bytes)
    BY <1>5, <2>1 DEF Write, Reopen, Full, IInv, Control
  <2>3. QED
    BY <2>2, WriteLineIInv
<1>6. CASE RemoveOldest
  BY <1>6, RemoveOldestIInv
<1>7. CASE Shift
  BY <1>7, ShiftIInv
<1>8. CASE Rename
  BY <1>8, RenameIInv
<1>9. CASE Crash
  BY <1>9, CrashIInv
<1>10. CASE UNCHANGED vars
  <2>1. /\ UNCHANGED <<queue, batch, slot, pushed, crashes, accepted, writer>>
        /\ UNCHANGED <<file, backup, dropped, durable>>
        /\ UNCHANGED <<shutdown_flag, pushing, stop, due>>
    BY <1>10 DEF vars, thread, disk
  <2>2. Stopping'
    BY Zenon, <2>1 DEF IInv, Stopping
  <2>3. /\ shutdown_flag' \in BOOLEAN /\ pushing' \subseteq Producer
        /\ stop' \in {"no", "notify", "join", "returned"} /\ due' \in 0..MaxRecords
    BY Zenon, <2>1 DEF IInv, TypeOK
  <2>4. QED
    BY Zenon, <2>1, <2>2, <2>3, QuietIInv
<1>11. QED
  BY <1>1, <1>2, <1>3, <1>4, <1>5, <1>6, <1>7, <1>8, <1>9, <1>10
  DEF Next, run, write_entry

LEMMA Invariance == Spec => []IInv
<1>1. Init => IInv
  BY InitIInv
<1>2. IInv /\ [Next]_vars => IInv'
  BY NextIInv
<1>3. QED
  BY <1>1, <1>2, PTL DEF Spec

-----------------------------------------------------------------------------

\* The logger's variables stay in range; the log file never outgrows max_bytes, but
\* for a single record.
THEOREM LoggerTypeCorrect == Spec => []TypeOK
<1>1. IInv => TypeOK
  BY DEF IInv
<1>2. QED
  BY <1>1, Invariance, PTL

\* Between push() and the file no record is lost, duplicated or overtaken, whatever
\* the threads' interleaving.
THEOREM RecordsInOrder == Spec => []InOrder
<1>1. IInv => InOrder
  BY DEF IInv
<1>2. QED
  BY <1>1, Invariance, PTL

\* rotate() loses no record but those of the oldest backup, also when it was cut
\* short by a crash and starts again.
THEOREM RotationKeeps == Spec => []DiskKeeps
<1>1. IInv => DiskKeeps
  BY Zenon, FilesAre DEF IInv, Kept, DiskKeeps
<1>2. QED
  BY <1>1, Invariance, PTL

\* rotate() deletes records only when max_backups rotated files are in use, less one
\* for the rotation under way and one for each crash.
THEOREM BackupsRetained == Spec => []Retention
<1>1. ASSUME IInv PROVE Retention
  <2> DEFINE gap == Gap(backup, max_backups)
             kept == {i \in Slots : backup[i] # << >>}
  <2>1. SUFFICES ASSUME dropped # << >>
                 PROVE  Cardinality(kept) >= max_backups - 1 - crashes
    BY DEF Retention
  <2>2. max_backups \in Nat /\ IsFiniteSet(gap) /\ Cardinality(gap) \in Nat
    BY LoggerAssumption, GapFacts
  <2>3. IsFiniteSet(Slots) /\ Cardinality(Slots) = max_backups
    BY <2>2, FS_Interval DEF Slots
  <2>4. Cardinality(gap) <= crashes + 1 /\ crashes \in Nat
    <3>1. Cardinality(gap) <= crashes + (IF writer \in {"shift", "rename"} THEN 1 ELSE 0)
      BY Zenon, <1>1, <2>1 DEF IInv, Gaps
    <3>2. crashes \in Nat
      BY <1>1 DEF IInv, TypeOK
    <3> HIDE DEF gap
    <3>3. QED
      BY <3>1, <3>2, <2>2
  <2>5. kept = Slots \ gap /\ gap \subseteq Slots
    BY DEF Gap, Slots
  <2> HIDE DEF gap, kept
  <2>6. Cardinality(Slots \ gap) = Cardinality(Slots) - Cardinality(Slots \cap gap)
    BY <2>3, FS_Difference
  <2>7. Slots \cap gap = gap
    BY <2>5
  <2>8. QED
    BY <2>2, <2>3, <2>4, <2>5, <2>6, <2>7
<1>2. QED
  BY <1>1, Invariance, PTL

\* When shutdown() returns, the writer has written every record that was accepted
\* before the flag was set.
THEOREM ShutdownHasFlushed == Spec => []ShutdownFlushes
<1>1. IInv => ShutdownFlushes
  BY DEF IInv, Stopping, ShutdownFlushes
<1>2. QED
  BY <1>1, Invariance, PTL

-----------------------------------------------------------------------------
(* The process that writes the log: the module Application, with names of  *)
(* its own.                                                                *)

CONSTANTS Client, Files, None, MaxSignals

VARIABLES
  text, config, main, code, armed, signals, sent, shutting_down, posted, stopped,
  pid_file_path, pid_file, registry, pools, warming, draining, listening, session, lease

App == INSTANCE Application WITH file <- text

\* Before the shutdown is requested the wait for signals is outstanding, and nothing
\* stops the event loop.
Asked ==
  /\ main = "running" => armed \/ shutting_down
  /\ posted \/ stopped \/ main \in {"stopping", "draining"} \/ code = 0 => shutting_down

LEMMA InitAsked == None # 0 /\ App!Init => Asked
BY ZenonT(40) DEF App!Init, Asked

LEMMA NextAsked == Asked /\ [App!Next]_(App!vars) => Asked'
<1> SUFFICES ASSUME Asked, [App!Next]_(App!vars) PROVE Asked'
  OBVIOUS
<1>1. CASE App!Construct
  BY SMTT(30), <1>1 DEF Asked, App!Construct, App!Exit, App!loop
<1>2. CASE App!Startup
  BY ZenonT(40), <1>2 DEF Asked, App!Startup
<1>3. CASE App!LoopEnds
  BY ZenonT(40), <1>3 DEF Asked, App!LoopEnds, App!Work, App!loop
<1>4. CASE App!StopSubsystems
  BY ZenonT(40), <1>4 DEF Asked, App!StopSubsystems
<1>5. CASE App!FinishRun
  BY ZenonT(40), <1>5 DEF Asked, App!FinishRun, App!Finish, App!Exit, App!loop
<1>6. CASE App!StartupFails
  BY SMTT(30), <1>6 DEF Asked, App!StartupFails, App!Exit, App!loop
<1>7. CASE App!OnTerm
  BY ZenonT(40), <1>7 DEF Asked, App!OnTerm, App!RequestShutdown
<1>8. CASE App!OnHup
  BY <1>8, ZenonT(40) DEF Asked, App!OnHup, App!Reload
<1>9. CASE App!Stop
  BY ZenonT(40), <1>9 DEF Asked, App!Stop
<1>10. CASE App!warm_all
  BY ZenonT(40), <1>10 DEF Asked, App!warm_all, App!Resumed, App!loop
<1>11. CASE App!DrainNext
  BY ZenonT(40), <1>11 DEF Asked, App!DrainNext, App!loop
<1>12. CASE App!ClearPools
  BY ZenonT(40), <1>12 DEF Asked, App!ClearPools, App!loop
<1>13. ASSUME NEW c \in Client, App!Serve(c) \/ App!Connect(c)
       PROVE  Asked'
  BY SMTT(30), <1>13 DEF Asked, App!Serve, App!Accept, App!Query, App!Answered, App!Leave, App!Connect,
               App!Resumed, App!loop
<1>14. CASE App!EditFile
  BY ZenonT(40), <1>14 DEF Asked, App!EditFile, App!loop
<1>15. CASE App!SendSignal
  BY ZenonT(40), <1>15 DEF Asked, App!SendSignal
<1>16. CASE UNCHANGED App!vars
  BY ZenonT(40), <1>16 DEF Asked, App!vars, App!loop
<1> QED BY ZenonT(40), <1>1, <1>2, <1>3, <1>4, <1>5, <1>6, <1>7, <1>8, <1>9, <1>10, <1>11, <1>12, <1>13, <1>14,
           <1>15, <1>16 DEF App!Next, App!MainThread

\* run() goes on until SIGTERM or SIGINT has been handled, whatever clients, pools and
\* reloads do: the event loop does not run out of work before.
THEOREM ProcessRunsUntilAsked ==
  ASSUME None # 0
  PROVE  App!Spec => []App!RunsUntilAsked
<1>1. Asked => App!RunsUntilAsked
  BY DEF Asked, App!RunsUntilAsked
<1> QED BY <1>1, InitAsked, NextAsked, PTL DEF App!Spec

=============================================================================
