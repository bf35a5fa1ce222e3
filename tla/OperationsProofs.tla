-------------------------- MODULE OperationsProofs --------------------------
(***************************************************************************)
(* Proofs about the parts that run and revoke an installation: the process *)
(* logs, for any number of invocations and any bounds, revoke-all, for any *)
(* missions, env files and bounds, autostart, for any targets and any      *)
(* number of commands and kills, and the modules that start, stop and      *)
(* restart act on and their order, for any manifests.                      *)
(***************************************************************************)
EXTENDS ProcessLog, RevokeAll, Autostart, ModuleGraph, WellFoundedInduction, FiniteSetTheorems, TLAPS

-----------------------------------------------------------------------------
(* Process logs.                                                           *)

LEMMA LoggerFacts ==
  ASSUME LoggersOK, NEW c \in Logger
  PROVE  /\ logger[c] = NotLogging <=> logger[c].at = "idle"
         /\ logger[c].at \in {"idle", "append", "measure", "unlock", "overwrite", "truncate"}
         /\ logger[c].at \in {"append", "measure", "unlock"} => logger[c] \in Appending
         /\ logger[c].at \in {"overwrite", "truncate"} => logger[c] \in Compacting
         /\ logger[c] # NotLogging => /\ logger[c].entry \in 1..MaxEntries /\ logger[c].spoilt \in BOOLEAN
                                      /\ logLock = c
<1>1. /\ logger[c] = NotLogging \/ logger[c] \in Appending \/ logger[c] \in Compacting
      /\ logger[c] # NotLogging => logLock = c
  BY DEF LoggersOK
<1>2. NotLogging.at = "idle"
  BY DEF NotLogging
<1>3. CASE logger[c] = NotLogging
  BY <1>2, <1>3
<1>4. CASE logger[c] \in Appending
  BY <1>1, <1>2, <1>4 DEF Appending
<1>5. CASE logger[c] \in Compacting
  BY <1>1, <1>2, <1>5 DEF Compacting
<1> QED BY <1>1, <1>3, <1>4, <1>5

(* The one invocation that holds the lock is the only one in the log. *)
LEMMA OneLogger ==
  ASSUME LoggersOK, NEW c \in Logger, logger[c] # NotLogging,
         NEW d \in Logger, d # c
  PROVE  logger[d] = NotLogging
BY DEF LoggersOK

(* A compaction keeps the last lines, as they were. *)
LEMMA RetainedFacts ==
  ASSUME NEW file \in Seq(Line), Len(file) > MaxLog
  PROVE  /\ Retained(file) \in Seq(Line) /\ Len(Retained(file)) = MaxLog - 1
         /\ \A i \in 1..(MaxLog - 1) : Retained(file)[i] = file[i + Len(file) - MaxLog + 1]
<1>1. MaxLog \in Nat /\ MaxLog >= 2 /\ Len(file) \in Nat
  BY LogAssumption
<1> QED BY <1>1 DEF Retained

(* A step of one invocation, that moves on or ends and leaves the others.  *)
LEMMA LoggerMoves ==
  ASSUME LoggersOK, NEW c \in Logger, NEW r \in {NotLogging} \cup Appending \cup Compacting,
         logger' = [logger EXCEPT ![c] = r],
         \/ logger[c] # NotLogging /\ logLock' = logLock
         \/ r = NotLogging /\ logger[c] # NotLogging
  PROVE  LoggersOK' /\ logger'[c] = r /\ \A d \in Logger : d # c => logger'[d] = NotLogging
<1>1. /\ logger' \in [Logger -> {NotLogging} \cup Appending \cup Compacting] /\ logger'[c] = r
      /\ \A d \in Logger : d # c => logger'[d] = logger[d]
  BY DEF LoggersOK
<1>2. \A d \in Logger : d # c => logger[d] = NotLogging
  BY OneLogger
<1>3. logger[c] # NotLogging => logLock = c
  BY DEF LoggersOK
<1> QED BY <1>1, <1>2, <1>3 DEF LoggersOK

LEMMA LogInitInv == LogInit => LogIInv
<1> SUFFICES ASSUME LogInit PROVE LogIInv
  OBVIOUS
<1>1. LogTypeOK
  BY LogAssumption DEF LogInit, LogTypeOK
<1>2. entries \in 0..MaxEntries /\ output \in 0..MaxOutput
  BY LogAssumption DEF LogInit
<1>3. LoggersOK /\ EntriesAreKept /\ NewestIsQuiet /\ NewestEntryIsKept
  BY DEF LogInit, LoggersOK, EntriesAreKept, NewestIsQuiet, NewestEntryIsKept
<1> QED BY <1>1, <1>2, <1>3 DEF LogInit, LogIInv

LEMMA LockLogStep ==
  ASSUME LogIInv, NEW c \in Logger, LockLog(c)
  PROVE  LogIInv'
<1> DEFINE r == [at |-> "append", entry |-> entries + 1, spoilt |-> FALSE]
<1>1. UNCHANGED <<log, writer, redaction, newest, output>> /\ logLock' = c /\ entries' = entries + 1
      /\ logger' = [logger EXCEPT ![c] = r] /\ logLock = Free /\ entries < MaxEntries
  BY DEF LockLog, LockFree
<1>2. entries' \in 1..MaxEntries /\ entries' \in 0..MaxEntries /\ MaxEntries \in Nat
  BY <1>1, LogAssumption DEF LogIInv
<1>3. r \in Appending /\ r.at = "append" /\ r # NotLogging
  BY <1>1, <1>2 DEF Appending, NotLogging
<1> HIDE DEF r
<1>4. \A d \in Logger : logger[d] = NotLogging
  BY <1>1, LogAssumption DEF LogIInv, LoggersOK
<1>5. /\ logger' \in [Logger -> {NotLogging} \cup Appending \cup Compacting]
      /\ logger'[c] = r /\ \A d \in Logger : d # c => logger'[d] = NotLogging
  BY <1>1, <1>3, <1>4 DEF LogIInv, LoggersOK
<1>6. LoggersOK'
  BY <1>1, <1>5 DEF LoggersOK
<1>7. \A d \in Logger : logger'[d] # NotLogging => logger'[d].at = "append"
  BY <1>3, <1>5
<1>8. EntriesAreKept'
  BY <1>7 DEF EntriesAreKept, EntryIsKept
<1>9. NewestIsQuiet'
  BY <1>1, <1>7 DEF LogIInv, NewestIsQuiet, NotLogging
<1>10. LogTypeOK' /\ NewestEntryIsKept'
  BY <1>1 DEF LogIInv, LogTypeOK, NewestEntryIsKept
<1> QED BY <1>1, <1>2, <1>6, <1>8, <1>9, <1>10 DEF LogIInv

LEMMA AppendEntryStep ==
  ASSUME LogIInv, NEW c \in Logger, AppendEntry(c)
  PROVE  LogIInv'
<1> DEFINE e == logger[c].entry
           r == [logger[c] EXCEPT !.at = "measure"]
<1>1. UNCHANGED <<writer, logLock, redaction, entries>> /\ newest' = 0 /\ output' = 0
      /\ log' = Append(log, e) /\ logger' = [logger EXCEPT ![c] = r] /\ logger[c].at = "append"
  BY DEF AppendEntry
<1>2. logger[c] \in Appending /\ logger[c] # NotLogging /\ e \in Line
  BY <1>1, LoggerFacts DEF LogIInv, Line
<1>3. r \in Appending
  BY <1>2 DEF Appending
<1>4. r.at = "measure" /\ r.entry = e
  BY <1>2 DEF Appending
<1> HIDE DEF e, r
<1>5. log \in Seq(Line)
  BY DEF LogIInv, LogTypeOK
<1>6. log' \in Seq(Line) /\ Len(log') \in Nat /\ 0 < Len(log') /\ log'[Len(log') - 0] = e
  BY <1>1, <1>2, <1>5
<1>7. LoggersOK' /\ logger'[c] = r /\ \A d \in Logger : d # c => logger'[d] = NotLogging
  BY <1>1, <1>2, <1>3, LoggerMoves DEF LogIInv
<1>8. EntryIsKept(c)'
  BY <1>1, <1>4, <1>6, <1>7 DEF EntryIsKept
<1>9. EntriesAreKept' /\ NewestIsQuiet' /\ NewestEntryIsKept'
  BY <1>1, <1>7, <1>8 DEF EntriesAreKept, NewestIsQuiet, NewestEntryIsKept
<1>10. LogTypeOK' /\ output' \in 0..MaxOutput
  <2>1. newest' \in 0..MaxEntries /\ output' \in 0..MaxOutput
    BY <1>1, LogAssumption
  <2> QED BY <1>1, <1>6, <2>1 DEF LogIInv, LogTypeOK
<1> QED BY <1>1, <1>7, <1>9, <1>10 DEF LogIInv

(* The entry has at most MaxOutput lines behind it, which the window holds.*)
LEMMA MeasureLogStep ==
  ASSUME LogIInv, NEW c \in Logger, MeasureLog(c)
  PROVE  LogIInv'
<1>1. UNCHANGED <<log, writer, logLock, redaction, newest, entries, output>> /\ logger[c].at = "measure"
  BY DEF MeasureLog
<1>2. logger[c] \in Appending /\ logger[c] # NotLogging
  BY <1>1, LoggerFacts DEF LogIInv
<1>3. newest = 0
  BY <1>1 DEF LogIInv, NewestIsQuiet
<1>4. LogTypeOK' /\ NewestIsQuiet' /\ NewestEntryIsKept'
  BY <1>1, <1>3 DEF LogIInv, LogTypeOK, NewestIsQuiet, NewestEntryIsKept
<1>5. log \in Seq(Line) /\ Len(log) \in Nat
  <2>1. log \in Seq(Line)
    BY DEF LogIInv, LogTypeOK
  <2> QED BY <2>1
<1>6. ~logger[c].spoilt => \E k \in 0..output : k < Len(log) /\ log[Len(log) - k] = logger[c].entry
  BY <1>1, <1>2 DEF LogIInv, EntriesAreKept, EntryIsKept
<1>7. output \in Nat /\ output <= MaxOutput /\ MaxLog \in Nat /\ MaxOutput \in Nat /\ MaxLog >= MaxOutput + 2
  BY LogAssumption DEF LogIInv
<1>8. CASE Len(log) <= MaxLog
  <2> DEFINE r == [logger[c] EXCEPT !.at = "unlock"]
  <2>1. logger' = [logger EXCEPT ![c] = r]
    BY <1>8 DEF MeasureLog
  <2>2. r \in Appending
    BY <1>2 DEF Appending
  <2>3. r.at = "unlock" /\ r.entry = logger[c].entry /\ r.spoilt = logger[c].spoilt
    BY <1>2 DEF Appending
  <2> HIDE DEF r
  <2>4. LoggersOK' /\ logger'[c] = r /\ \A d \in Logger : d # c => logger'[d] = NotLogging
    BY <1>1, <1>2, <2>1, <2>2, LoggerMoves DEF LogIInv
  <2>5. ~r.spoilt => Holds(log, r.entry)
    <3> SUFFICES ASSUME ~r.spoilt PROVE Holds(log, r.entry)
      OBVIOUS
    <3>1. PICK k \in 0..output : k < Len(log) /\ log[Len(log) - k] = r.entry
      BY <1>6, <2>3
    <3>2. Len(log) - k \in DOMAIN log
      BY <1>5, <1>7, <3>1
    <3> QED BY <3>1, <3>2 DEF Holds
  <2>6. EntriesAreKept'
    BY <1>1, <2>3, <2>4, <2>5 DEF EntriesAreKept, EntryIsKept
  <2> QED BY <1>1, <1>4, <2>4, <2>6 DEF LogIInv
<1>9. CASE Len(log) > MaxLog
  <2> DEFINE keep == Retained(log)
             r == [at |-> "overwrite", entry |-> logger[c].entry, spoilt |-> logger[c].spoilt, keep |-> keep]
  <2>1. logger' = [logger EXCEPT ![c] = r]
    <3>1. ~(Len(log) <= MaxLog)
      BY <1>5, <1>7, <1>9
    <3> QED BY <3>1, Zenon DEF MeasureLog
  <2>2. /\ keep \in Seq(Line) /\ Len(keep) = MaxLog - 1
        /\ \A i \in 1..(MaxLog - 1) : keep[i] = log[i + Len(log) - MaxLog + 1]
    BY <1>5, <1>9, RetainedFacts
  <2> HIDE DEF keep
  <2>3. r \in Compacting /\ r.at = "overwrite" /\ r.entry = logger[c].entry /\ r.spoilt = logger[c].spoilt
        /\ r.keep = keep
    BY <1>2, <2>2 DEF Appending, Compacting
  <2> HIDE DEF r
  <2>4. LoggersOK' /\ logger'[c] = r /\ \A d \in Logger : d # c => logger'[d] = NotLogging
    BY <1>1, <1>2, <2>1, <2>3, LoggerMoves DEF LogIInv
  <2>5. ~r.spoilt => Holds(r.keep, r.entry)
    <3> SUFFICES ASSUME ~r.spoilt PROVE Holds(keep, r.entry)
      BY <2>3
    <3>1. PICK k \in 0..output : k < Len(log) /\ log[Len(log) - k] = r.entry
      BY <1>6, <2>3
    <3>2. k \in Nat /\ k <= MaxLog - 2
      BY <1>7, <3>1
    <3>3. MaxLog - 1 - k \in 1..(MaxLog - 1) /\ (MaxLog - 1 - k) + Len(log) - MaxLog + 1 = Len(log) - k
      BY <1>5, <1>7, <3>2
    <3>4. keep[MaxLog - 1 - k] = r.entry
      BY <2>2, <3>1, <3>3
    <3>5. MaxLog - 1 - k \in DOMAIN keep
      BY <2>2, <3>3
    <3> QED BY <3>4, <3>5 DEF Holds
  <2>6. EntriesAreKept'
    BY <1>1, <2>3, <2>4, <2>5 DEF EntriesAreKept, EntryIsKept
  <2> QED BY <1>1, <1>4, <2>4, <2>6 DEF LogIInv
<1> QED BY <1>5, <1>7, <1>8, <1>9

(* The window over the beginning of the file, and then nothing after it. *)
LEMMA OverwriteLogStep ==
  ASSUME LogIInv, NEW c \in Logger, OverwriteLog(c)
  PROVE  LogIInv'
<1> DEFINE keep == logger[c].keep
           r == [logger[c] EXCEPT !.at = "truncate"]
<1>1. UNCHANGED <<writer, logLock, redaction, newest, entries, output>> /\ logger[c].at = "overwrite"
      /\ log' = keep \o SubSeq(log, Len(keep) + 1, Len(log)) /\ logger' = [logger EXCEPT ![c] = r]
  BY DEF OverwriteLog
<1>2. logger[c] \in Compacting /\ logger[c] # NotLogging
  BY <1>1, LoggerFacts DEF LogIInv
<1>3. newest = 0
  BY <1>1 DEF LogIInv, NewestIsQuiet
<1>4. r \in Compacting
  BY <1>2 DEF Compacting
<1>5. r.at = "truncate" /\ r.entry = logger[c].entry /\ r.spoilt = logger[c].spoilt /\ r.keep = keep
      /\ keep \in Seq(Line)
  BY <1>2 DEF Compacting
<1>6. log \in Seq(Line)
  BY DEF LogIInv, LogTypeOK
<1>7. ~logger[c].spoilt => Holds(keep, logger[c].entry)
  BY <1>1, <1>2 DEF LogIInv, EntriesAreKept, EntryIsKept
<1> HIDE DEF keep, r
<1>8. /\ log' \in Seq(Line) /\ Len(keep) <= Len(log') /\ \A i \in DOMAIN keep : log'[i] = keep[i]
  <2> DEFINE rest == SubSeq(log, Len(keep) + 1, Len(log))
  <2>1. Len(keep) \in Nat /\ Len(log) \in Nat /\ rest \in Seq(Line)
    BY <1>5, <1>6
  <2> HIDE DEF rest
  <2> QED BY <1>1, <1>5, <2>1 DEF rest
<1>9. LoggersOK' /\ logger'[c] = r /\ \A d \in Logger : d # c => logger'[d] = NotLogging
  BY <1>1, <1>2, <1>4, LoggerMoves DEF LogIInv
<1>10. EntriesAreKept'
  BY <1>5, <1>7, <1>8, <1>9 DEF EntriesAreKept, EntryIsKept
<1>11. LogTypeOK' /\ NewestIsQuiet' /\ NewestEntryIsKept'
  BY <1>1, <1>3, <1>8 DEF LogIInv, LogTypeOK, NewestIsQuiet, NewestEntryIsKept
<1> QED BY <1>1, <1>9, <1>10, <1>11 DEF LogIInv

LEMMA TruncateLogStep ==
  ASSUME LogIInv, NEW c \in Logger, TruncateLog(c)
  PROVE  LogIInv'
<1> DEFINE keep == logger[c].keep
           n == IF Len(keep) < Len(log) THEN Len(keep) ELSE Len(log)
           r == [at |-> "unlock", entry |-> logger[c].entry, spoilt |-> logger[c].spoilt]
<1>1. UNCHANGED <<writer, logLock, redaction, newest, entries, output>> /\ logger[c].at = "truncate"
      /\ log' = SubSeq(log, 1, n) /\ logger' = [logger EXCEPT ![c] = r]
  BY DEF TruncateLog
<1>2. logger[c] \in Compacting /\ logger[c] # NotLogging
  BY <1>1, LoggerFacts DEF LogIInv
<1>3. newest = 0
  BY <1>1 DEF LogIInv, NewestIsQuiet
<1>4. r \in Appending /\ r.at = "unlock" /\ r.entry = logger[c].entry /\ r.spoilt = logger[c].spoilt
      /\ keep \in Seq(Line)
  BY <1>2 DEF Compacting, Appending
<1>5. log \in Seq(Line)
  BY DEF LogIInv, LogTypeOK
<1>6. ~logger[c].spoilt => /\ Holds(keep, logger[c].entry)
                           /\ Len(keep) <= Len(log) /\ \A i \in DOMAIN keep : log[i] = keep[i]
  BY <1>1, <1>2 DEF LogIInv, EntriesAreKept, EntryIsKept
<1> HIDE DEF keep, r
<1>7. /\ log' \in Seq(Line) /\ Len(log') = n /\ n \in Nat
      /\ \A i \in 1..n : log'[i] = log[i]
  BY <1>1, <1>4, <1>5
<1>8. ~logger[c].spoilt => Holds(log', logger[c].entry)
  <2> SUFFICES ASSUME ~logger[c].spoilt PROVE Holds(log', logger[c].entry)
    OBVIOUS
  <2>1. PICK i \in DOMAIN keep : keep[i] = logger[c].entry
    BY <1>6 DEF Holds
  <2>2. n = Len(keep) /\ i \in 1..n
    BY <1>4, <1>5, <1>6
  <2>3. i \in DOMAIN log' /\ log'[i] = keep[i]
    BY <1>6, <1>7, <2>1, <2>2
  <2> QED BY <2>1, <2>3 DEF Holds
<1>9. LoggersOK' /\ logger'[c] = r /\ \A d \in Logger : d # c => logger'[d] = NotLogging
  BY <1>1, <1>2, <1>4, LoggerMoves DEF LogIInv
<1>10. EntriesAreKept'
  BY <1>4, <1>8, <1>9 DEF EntriesAreKept, EntryIsKept
<1>11. LogTypeOK' /\ NewestIsQuiet' /\ NewestEntryIsKept'
  BY <1>1, <1>3, <1>7 DEF LogIInv, LogTypeOK, NewestIsQuiet, NewestEntryIsKept
<1> QED BY <1>1, <1>9, <1>10, <1>11 DEF LogIInv

LEMMA UnlockLogStep ==
  ASSUME LogIInv, NEW c \in Logger, UnlockLog(c)
  PROVE  LogIInv'
<1>1. UNCHANGED <<log, writer, redaction, entries, output>> /\ logger[c].at = "unlock"
      /\ logLock' = Free /\ logger' = [logger EXCEPT ![c] = NotLogging]
      /\ newest' = IF redaction = NotRedacting /\ ~logger[c].spoilt THEN logger[c].entry ELSE 0
  BY DEF UnlockLog
<1>2. logger[c] \in Appending /\ logger[c] # NotLogging /\ logger[c].entry \in 1..MaxEntries
  BY <1>1, LoggerFacts DEF LogIInv
<1>3. ~logger[c].spoilt => Holds(log, logger[c].entry)
  BY <1>1, <1>2 DEF LogIInv, EntriesAreKept, EntryIsKept
<1>4. LoggersOK' /\ \A d \in Logger : logger'[d] = NotLogging
  BY <1>1, <1>2, LoggerMoves DEF LogIInv
<1>5. EntriesAreKept'
  BY <1>4 DEF EntriesAreKept
<1>6. NewestIsQuiet'
  BY <1>1, <1>4 DEF NewestIsQuiet, NotLogging
<1>7. NewestEntryIsKept'
  BY <1>1, <1>3 DEF NewestEntryIsKept, Holds
<1>8. newest' \in 0..MaxEntries
  BY <1>1, <1>2, LogAssumption
<1>9. LogTypeOK'
  BY <1>1, <1>8 DEF LogIInv, LogTypeOK
<1> QED BY <1>1, <1>4, <1>5, <1>6, <1>7, <1>9 DEF LogIInv

LEMMA KillLoggerStep ==
  ASSUME LogIInv, NEW c \in Logger, KillLogger(c)
  PROVE  LogIInv'
<1>1. UNCHANGED <<log, writer, redaction, newest, entries, output>> /\ logger[c] # NotLogging
      /\ logLock' \in {Free, logLock} /\ logger' = [logger EXCEPT ![c] = NotLogging]
  BY DEF KillLogger
<1>2. LoggersOK' /\ \A d \in Logger : logger'[d] = NotLogging
  BY <1>1, LoggerMoves DEF LogIInv
<1>3. EntriesAreKept'
  BY <1>2 DEF EntriesAreKept
<1>4. NewestIsQuiet'
  BY <1>1, <1>2 DEF LogIInv, NewestIsQuiet, NotLogging
<1>5. LogTypeOK' /\ NewestEntryIsKept'
  BY <1>1 DEF LogIInv, LogTypeOK, NewestEntryIsKept
<1> QED BY <1>1, <1>2, <1>3, <1>4, <1>5 DEF LogIInv

(* The process's lines come after all that is there. *)
LEMMA WriteOutputStep ==
  ASSUME LogIInv, WriteOutput
  PROVE  LogIInv'
<1>1. UNCHANGED <<writer, logger, logLock, redaction, newest, entries>> /\ output < MaxOutput
      /\ output' = output + 1 /\ log' \in {log, Append(log, Process)}
  BY DEF WriteOutput
<1>2. output \in Nat /\ MaxOutput \in Nat /\ output' \in 0..MaxOutput
  BY <1>1, LogAssumption DEF LogIInv
<1>3. log \in Seq(Line) /\ Process \in Line
  <2>1. log \in Seq(Line)
    BY DEF LogIInv, LogTypeOK
  <2> QED BY <2>1 DEF Line
<1>4. /\ log' \in Seq(Line) /\ Len(log) \in Nat /\ Len(log') \in Nat /\ Len(log') >= Len(log)
      /\ Len(log') <= Len(log) + 1
      /\ \A i \in DOMAIN log : i \in DOMAIN log' /\ log'[i] = log[i]
  BY <1>1, <1>3
<1>5. LoggersOK' /\ NewestIsQuiet'
  BY <1>1 DEF LogIInv, LoggersOK, NewestIsQuiet
<1>6. NewestEntryIsKept' /\ \A e : Holds(log, e) => Holds(log', e)
  BY <1>1, <1>4 DEF LogIInv, NewestEntryIsKept, Holds
<1>7. ASSUME NEW c \in Logger, logger[c] # NotLogging, ~logger[c].spoilt
      PROVE  EntryIsKept(c)'
  <2>1. EntryIsKept(c)
    BY <1>7 DEF LogIInv, EntriesAreKept
  <2>2. CASE logger[c].at = "measure"
    <3>1. PICK k \in 0..output : k < Len(log) /\ log[Len(log) - k] = logger[c].entry
      BY <2>1, <2>2 DEF EntryIsKept
    <3>2. Len(log) - k \in DOMAIN log /\ k \in Nat
      BY <1>2, <1>3, <1>4, <3>1
    <3>3. log'[Len(log) - k] = logger[c].entry
      BY <1>4, <3>1, <3>2
    <3>4. Len(log') = Len(log) \/ Len(log') = Len(log) + 1
      BY <1>4
    <3>5. \E j \in 0..output' : j < Len(log') /\ log'[Len(log') - j] = logger[c].entry
      <4>1. CASE Len(log') = Len(log)
        <5>1. k \in 0..output' /\ k < Len(log') /\ log'[Len(log') - k] = logger[c].entry
          BY <1>1, <1>2, <1>4, <3>1, <3>3, <4>1
        <5> QED BY <5>1
      <4>2. CASE Len(log') = Len(log) + 1
        <5>1. k + 1 \in 0..output' /\ k + 1 < Len(log') /\ Len(log') - (k + 1) = Len(log) - k
          BY <1>1, <1>2, <1>4, <3>1, <3>2, <4>2
        <5> QED BY <3>3, <5>1
      <4> QED BY <3>4, <4>1, <4>2
    <3> QED BY <1>1, <2>2, <3>5 DEF EntryIsKept
  <2>3. CASE logger[c].at = "truncate"
    <3> DEFINE keep == logger[c].keep
    <3>1. keep \in Seq(Line)
      BY <2>3, LoggerFacts DEF LogIInv, Compacting
    <3>2. Len(keep) <= Len(log) /\ \A i \in DOMAIN keep : log[i] = keep[i]
      BY <2>1, <2>3 DEF EntryIsKept
    <3> HIDE DEF keep
    <3>3. \A i \in DOMAIN keep : i \in DOMAIN log
      BY <1>3, <3>1, <3>2
    <3>4. Len(keep) <= Len(log') /\ \A i \in DOMAIN keep : log'[i] = keep[i]
      BY <1>4, <3>1, <3>2, <3>3
    <3> QED BY <1>1, <2>1, <2>3, <3>4 DEF EntryIsKept, keep
  <2>4. CASE logger[c].at \notin {"measure", "truncate"}
    BY <1>1, <1>6, <2>1, <2>4 DEF EntryIsKept
  <2> QED BY <2>2, <2>3, <2>4
<1>8. EntriesAreKept'
  BY <1>1, <1>7 DEF EntriesAreKept
<1>9. LogTypeOK'
  BY <1>1, <1>4 DEF LogIInv, LogTypeOK
<1> QED BY <1>1, <1>2, <1>5, <1>6, <1>8, <1>9 DEF LogIInv

LEMMA WriterStep ==
  ASSUME LogIInv, StartWriter \/ EndWriter
  PROVE  LogIInv'
<1>1. UNCHANGED <<log, logger, logLock, redaction, newest, entries, output>>
      /\ writer' \in {"none", "this file"}
  BY DEF StartWriter, EndWriter
<1>2. LogTypeOK' /\ NewestIsQuiet' /\ NewestEntryIsKept'
  <2>1. LogTypeOK'
    BY <1>1 DEF LogIInv, LogTypeOK
  <2>2. NewestIsQuiet' /\ NewestEntryIsKept'
    BY <1>1 DEF LogIInv, NewestIsQuiet, NewestEntryIsKept
  <2> QED BY <2>1, <2>2
<1>3. LoggersOK' /\ EntriesAreKept'
  BY <1>1 DEF LogIInv, LoggersOK, EntriesAreKept, EntryIsKept
<1> QED BY <1>1, <1>2, <1>3 DEF LogIInv

LEMMA ReadForRedactionStep ==
  ASSUME LogIInv, ReadForRedaction
  PROVE  LogIInv'
<1>1. UNCHANGED <<log, writer, logger, logLock, entries, output>> /\ newest' = 0
      /\ redaction' = [at |-> "replace", text |-> log]
  BY DEF ReadForRedaction
<1>2. redaction' \in [at : {"replace"}, text : Seq(Line)]
  BY <1>1 DEF LogIInv, LogTypeOK
<1>3. LogTypeOK' /\ NewestIsQuiet' /\ NewestEntryIsKept'
  <2>1. LogTypeOK'
    <3>1. newest' \in 0..MaxEntries
      BY <1>1, LogAssumption
    <3> QED BY <1>1, <3>1 DEF LogIInv, LogTypeOK, ReadForRedaction
  <2>2. NewestIsQuiet' /\ NewestEntryIsKept'
    BY <1>1 DEF LogIInv, NewestIsQuiet, NewestEntryIsKept
  <2> QED BY <2>1, <2>2
<1>4. LoggersOK' /\ EntriesAreKept'
  BY <1>1 DEF LogIInv, LoggersOK, EntriesAreKept, EntryIsKept
<1> QED BY <1>1, <1>2, <1>3, <1>4 DEF LogIInv

(* Whoever is in the log then has its entry spoilt, and nothing is newest. *)
LEMMA ReplaceRedactedStep ==
  ASSUME LogIInv, ReplaceRedacted
  PROVE  LogIInv'
<1>1. UNCHANGED <<logLock, newest, entries, output>> /\ log' = redaction.text
      /\ writer' \in {writer, "replaced file"} /\ redaction' = NotRedacting /\ redaction # NotRedacting
      /\ logger' = [c \in Logger |->
           IF logger[c] = NotLogging THEN NotLogging
           ELSE [at |-> IF logger[c].at \in {"append", "measure"} THEN logger[c].at ELSE "unlock",
                 entry |-> logger[c].entry, spoilt |-> TRUE]]
  BY DEF ReplaceRedacted
<1>2. newest = 0
  BY <1>1 DEF LogIInv, NewestIsQuiet
<1>3. log' \in Seq(Line)
  BY <1>1 DEF LogIInv
<1>4. ASSUME NEW c \in Logger
      PROVE  /\ logger'[c] \in {NotLogging} \cup Appending
             /\ logger'[c] # NotLogging => logger'[c].spoilt /\ logger[c] # NotLogging
  <2>1. CASE logger[c] = NotLogging
    BY <1>1, <2>1
  <2>2. CASE logger[c] # NotLogging
    <3> DEFINE r == [at |-> IF logger[c].at \in {"append", "measure"} THEN logger[c].at ELSE "unlock",
                     entry |-> logger[c].entry, spoilt |-> TRUE]
    <3>1. logger'[c] = r
      BY <1>1, <2>2
    <3>2. r \in Appending /\ r.spoilt
      BY <2>2, LoggerFacts DEF LogIInv, Appending
    <3> QED BY <2>2, <3>1, <3>2
  <2> QED BY <2>1, <2>2
<1>5. logger' = [c \in Logger |-> logger'[c]]
  BY <1>1
<1>6. LoggersOK'
  BY <1>1, <1>4, <1>5 DEF LogIInv, LoggersOK
<1>7. EntriesAreKept'
  BY <1>4 DEF EntriesAreKept
<1>8. NewestIsQuiet' /\ NewestEntryIsKept'
  BY <1>1, <1>2 DEF NewestIsQuiet, NewestEntryIsKept
<1>9. LogTypeOK'
  BY <1>1, <1>3 DEF LogIInv, LogTypeOK
<1> QED BY <1>1, <1>6, <1>7, <1>8, <1>9 DEF LogIInv

LEMMA LogNextInv == LogIInv /\ [LogNext]_log_vars => LogIInv'
<1> SUFFICES ASSUME LogIInv, [LogNext]_log_vars PROVE LogIInv'
  OBVIOUS
<1>1. CASE LogNext
  BY <1>1, LockLogStep, AppendEntryStep, MeasureLogStep, OverwriteLogStep, TruncateLogStep, UnlockLogStep,
     KillLoggerStep, WriteOutputStep, WriterStep, ReadForRedactionStep, ReplaceRedactedStep DEF LogNext
<1>2. CASE UNCHANGED log_vars
  <2>1. LogTypeOK' /\ NewestIsQuiet' /\ NewestEntryIsKept'
    BY <1>2 DEF log_vars, LogIInv, LogTypeOK, NewestIsQuiet, NewestEntryIsKept
  <2>2. LoggersOK' /\ EntriesAreKept'
    BY <1>2 DEF log_vars, LogIInv, LoggersOK, EntriesAreKept, EntryIsKept
  <2> QED BY <1>2, <2>1, <2>2 DEF log_vars, LogIInv
<1> QED BY <1>1, <1>2

(* The inductive invariant holds in every reachable state. *)
LEMMA LogInductive == LogSpec => []LogIInv
BY LogInitInv, LogNextInv, PTL DEF LogSpec

(* The entry of the last append that ended stays in the log, whatever the  *)
(* compactions, kills and the process's output, until a later one begins.  *)
THEOREM NewestEntryStays == LogSpec => []NewestEntryIsKept
<1>1. LogIInv => NewestEntryIsKept
  BY DEF LogIInv
<1> QED BY <1>1, LogInductive, PTL

-----------------------------------------------------------------------------
(* Revoke-all.                                                             *)

LEMMA RevokeFacts ==
  ASSUME AttemptsAreTyped
  PROVE  /\ revoke = NotRevoking <=> revoke.at = "idle"
         /\ revoke # NotRevoking => revoke \in Revoking
         /\ verdict = NoVerdict <=> ~verdict.ok
         /\ verdict.ok => verdict \in Reported
<1>1. NotRevoking.at = "idle" /\ ~NoVerdict.ok
  BY DEF NotRevoking, NoVerdict
<1>2. revoke = NotRevoking \/ (revoke \in Revoking /\ revoke.at # "idle")
  BY DEF AttemptsAreTyped, Revoking
<1>3. verdict = NoVerdict \/ (verdict \in Reported /\ verdict.ok = TRUE)
  BY DEF AttemptsAreTyped, Reported
<1> QED BY <1>1, <1>2, <1>3

LEMMA RevokeInitInv == RevokeInit => RevokeIInv
<1> SUFFICES ASSUME RevokeInit PROVE RevokeIInv
  OBVIOUS
<1>1. revoke = NotRevoking /\ verdict = NoVerdict /\ ~verdict.ok
  BY DEF RevokeInit, NoVerdict
<1>2. AttemptsAreTyped
  BY <1>1 DEF RevokeInit, AttemptsAreTyped
<1>3. RevokeTypeOK
  <2>1. recent \in Seq(Mission \X MissionEvent) /\ active \in Mission \cup {NoMission} /\ results \subseteq Mission
    BY DEF RevokeInit
  <2>2. controlKey \in [EnvFiles -> 0..(revokes + 1)] /\ bridgeKey \subseteq EnvFiles
    BY DEF RevokeInit, EnvFiles
  <2> QED BY <2>1, <2>2 DEF RevokeTypeOK
<1> QED BY <1>1, <1>2, <1>3 DEF RevokeIInv, VerdictIsLast, StoppedStaysStopped, KeysAreReplaced,
           MissionsArePaused, MarkerIsSet, SuccessHasRevoked

(* Spawner writes only while it runs, and then no attempt has it stopped. *)
LEMMA SpawnerWritesStep ==
  ASSUME RevokeIInv, SpawnerWrites
  PROVE  RevokeIInv'
<1>1. /\ spawnerUp /\ verdict' = NoVerdict
      /\ UNCHANGED <<spawnerUp, marker, controlKey, bridgeKey, customMcp, revoke, revokes>>
  BY DEF SpawnerWrites, env_state
<1>2. AttemptsAreTyped' /\ VerdictIsLast' /\ StoppedStaysStopped' /\ KeysAreReplaced' /\ MarkerIsSet'
  BY <1>1 DEF RevokeIInv, AttemptsAreTyped, VerdictIsLast, StoppedStaysStopped, KeysAreReplaced, MarkerIsSet,
     Revoking, Reported
<1>3. MissionsArePaused' /\ SuccessHasRevoked'
  BY <1>1 DEF RevokeIInv, StoppedStaysStopped, MissionsArePaused, SuccessHasRevoked, NoVerdict
<1>4. RevokeTypeOK'
  <2>1. recent' \in Seq(Mission \X MissionEvent)
    <3>1. ASSUME NEW m \in Mission, NEW e \in MissionEvent PROVE << <<m, e>> >> \o recent \in Seq(Mission \X MissionEvent)
      BY DEF RevokeIInv, RevokeTypeOK
    <3> QED BY <3>1 DEF SpawnerWrites, RevokeIInv, RevokeTypeOK
  <2>2. active' \in Mission \cup {NoMission} /\ results' \subseteq Mission
    BY DEF SpawnerWrites, RevokeIInv, RevokeTypeOK
  <2> QED BY <1>1, <2>1, <2>2 DEF RevokeIInv, RevokeTypeOK
<1> QED BY <1>2, <1>3, <1>4 DEF RevokeIInv

LEMMA StartSpawnerStep ==
  ASSUME RevokeIInv, StartSpawner
  PROVE  RevokeIInv'
<1>1. /\ verdict' = NoVerdict /\ spawnerUp' = TRUE
      /\ revoke' = IF revoke = NotRevoking THEN revoke ELSE [revoke EXCEPT !.stopped = FALSE]
      /\ UNCHANGED <<recent, active, results, marker, controlKey, bridgeKey, customMcp, revokes>>
  BY DEF StartSpawner, env_state, spawner_state
<1>2. RevokeTypeOK'
  BY <1>1 DEF RevokeIInv, RevokeTypeOK
<1>3. CASE revoke = NotRevoking
  <2>1. revoke' = NotRevoking
    BY <1>1, <1>3
  <2>2. AttemptsAreTyped'
    BY <1>1, <2>1 DEF RevokeIInv, AttemptsAreTyped
  <2> QED BY <1>1, <1>2, <2>1, <2>2 DEF RevokeIInv, VerdictIsLast, StoppedStaysStopped, KeysAreReplaced,
             MissionsArePaused, MarkerIsSet, SuccessHasRevoked, NoVerdict
<1>4. CASE revoke # NotRevoking
  <2>1. revoke \in Revoking
    BY <1>4, RevokeFacts DEF RevokeIInv
  <2>2. /\ revoke' \in Revoking' /\ revoke'.stopped = FALSE /\ revoke'.at = revoke.at
        /\ revoke'.failed = revoke.failed /\ revoke'.left = revoke.left /\ revoke'.key = revoke.key
    BY <1>1, <1>4, <2>1 DEF Revoking
  <2>3. AttemptsAreTyped' /\ VerdictIsLast' /\ StoppedStaysStopped'
    BY <1>1, <2>2 DEF RevokeIInv, AttemptsAreTyped, VerdictIsLast, StoppedStaysStopped
  <2>4. KeysAreReplaced' /\ MarkerIsSet'
    BY <1>1, <1>4, <2>2 DEF RevokeIInv, KeysAreReplaced, MarkerIsSet
  <2>5. MissionsArePaused' /\ SuccessHasRevoked'
    BY <1>1, <2>2 DEF MissionsArePaused, SuccessHasRevoked, NoVerdict
  <2> QED BY <1>2, <2>3, <2>4, <2>5 DEF RevokeIInv
<1> QED BY <1>3, <1>4

LEMMA StopProcessesStep ==
  ASSUME RevokeIInv, StopProcesses
  PROVE  RevokeIInv'
<1>1. /\ verdict' = NoVerdict /\ spawnerUp' \in {spawnerUp, FALSE} /\ revokes' = revokes + 1
      /\ revoke' = [at |-> "keys", failed |-> FALSE, stopped |-> ~spawnerUp', sawAll |-> TRUE,
                    left |-> EnvFiles, key |-> revokes + 2]
      /\ UNCHANGED <<recent, active, results, marker, controlKey, bridgeKey, customMcp>>
  BY DEF StopProcesses, env_state, spawner_state
<1>2. revokes \in Nat /\ spawnerUp' \in BOOLEAN
  BY <1>1 DEF RevokeIInv, AttemptsAreTyped
<1>3. revoke' \in Revoking'
  <2>1. revokes + 2 = revokes' + 1
    BY <1>1, <1>2
  <2> QED BY <1>1, <1>2, <2>1 DEF Revoking, EnvFiles, SpawnerEnv
<1>4. AttemptsAreTyped'
  BY <1>1, <1>2, <1>3 DEF RevokeIInv, AttemptsAreTyped
<1>5. RevokeTypeOK'
  <2>1. controlKey \in [EnvFiles -> 0..(revokes + 1)] /\ 0..(revokes + 1) \subseteq 0..(revokes' + 1)
    BY <1>1, <1>2 DEF RevokeIInv, RevokeTypeOK
  <2>2. controlKey' \in [EnvFiles -> 0..(revokes' + 1)]
    BY <1>1, <2>1
  <2> QED BY <1>1, <2>2 DEF RevokeIInv, RevokeTypeOK, EnvFiles, SpawnerEnv
<1>6. VerdictIsLast' /\ StoppedStaysStopped' /\ SuccessHasRevoked'
  BY <1>1, <1>2 DEF VerdictIsLast, StoppedStaysStopped, SuccessHasRevoked, NoVerdict
<1>7. KeysAreReplaced' /\ MissionsArePaused' /\ MarkerIsSet'
  <2>1. revoke'.at = "keys" /\ revoke'.left = EnvFiles
    BY <1>1
  <2>2. EnvFiles' = EnvFiles
    BY DEF EnvFiles, SpawnerEnv
  <2> QED BY <2>1, <2>2 DEF KeysAreReplaced, MissionsArePaused, MarkerIsSet
<1> QED BY <1>4, <1>5, <1>6, <1>7 DEF RevokeIInv

LEMMA RotateFileStep ==
  ASSUME RevokeIInv, RotateFile
  PROVE  RevokeIInv'
<1> DEFINE f == CHOOSE x \in revoke.left : TRUE
<1>1. /\ revoke.at = "keys" /\ revoke.left # {}
      /\ UNCHANGED <<spawnerUp, recent, active, results, marker, customMcp, verdict, revokes>>
  BY DEF RotateFile, spawner_state
<1>2. PICK written \in BOOLEAN :
        /\ IF written
             THEN /\ controlKey' = [controlKey EXCEPT ![f] = NewKey(f, revoke.key)]
                  /\ bridgeKey' = bridgeKey \ {f}
             ELSE UNCHANGED <<controlKey, bridgeKey>>
        /\ revoke' = [revoke EXCEPT !.left = @ \ {f}, !.failed = @ \/ ~written]
  BY DEF RotateFile
<1>3. f \in revoke.left
  BY <1>1
<1> HIDE DEF f
<1>4. revoke \in Revoking /\ revoke # NotRevoking /\ revokes \in Nat /\ revoke.key = revokes + 1
  BY <1>1, RevokeFacts DEF RevokeIInv, AttemptsAreTyped, Revoking
<1>5. f \in EnvFiles
  BY <1>3, <1>4 DEF Revoking
<1>6. /\ revoke' \in Revoking' /\ revoke'.at = "keys" /\ revoke'.left = revoke.left \ {f}
      /\ revoke'.failed = (revoke.failed \/ ~written) /\ revoke'.key = revoke.key
      /\ revoke'.stopped = revoke.stopped
  BY <1>1, <1>2, <1>4 DEF Revoking, EnvFiles, SpawnerEnv
<1>7. AttemptsAreTyped' /\ VerdictIsLast' /\ StoppedStaysStopped'
  BY <1>1, <1>4, <1>6 DEF RevokeIInv, AttemptsAreTyped, VerdictIsLast, StoppedStaysStopped, Reported
<1>8. NewKey(f, revoke.key) \in {0, revoke.key}
  BY DEF NewKey
<1>9. RevokeTypeOK'
  <2>1. controlKey' \in [EnvFiles -> 0..(revokes + 1)] /\ bridgeKey' \subseteq EnvFiles
    <3>1. NewKey(f, revoke.key) \in 0..(revokes + 1)
      BY <1>4, <1>8
    <3> QED BY <1>2, <3>1 DEF RevokeIInv, RevokeTypeOK
  <2> QED BY <1>1, <2>1 DEF RevokeIInv, RevokeTypeOK, EnvFiles, SpawnerEnv
<1>10. KeysAreReplaced'
  <2> SUFFICES ASSUME ~revoke'.failed
               PROVE  \A g \in EnvFiles \ revoke'.left : controlKey'[g] \in {0, revoke'.key} /\ g \notin bridgeKey'
    BY <1>6 DEF KeysAreReplaced, EnvFiles, SpawnerEnv
  <2>1. written /\ ~revoke.failed
    BY <1>6
  <2>2. /\ controlKey' = [controlKey EXCEPT ![f] = NewKey(f, revoke.key)]
        /\ bridgeKey' = bridgeKey \ {f}
    BY <1>2, <2>1
  <2>3. \A g \in EnvFiles \ revoke.left : controlKey[g] \in {0, revoke.key} /\ g \notin bridgeKey
    BY <1>4, <2>1 DEF RevokeIInv, KeysAreReplaced
  <2>4. controlKey \in [EnvFiles -> 0..(revokes + 1)]
    BY DEF RevokeIInv, RevokeTypeOK
  <2> QED BY <1>5, <1>6, <1>8, <2>2, <2>3, <2>4
<1>11. MissionsArePaused' /\ MarkerIsSet'
  BY <1>6 DEF MissionsArePaused, MarkerIsSet
<1>12. SuccessHasRevoked'
  BY <1>1, <1>4, RevokeFacts DEF RevokeIInv, VerdictIsLast, SuccessHasRevoked
<1> QED BY <1>7, <1>9, <1>10, <1>11, <1>12 DEF RevokeIInv

LEMMA DisableMcpStep ==
  ASSUME RevokeIInv, DisableMcp
  PROVE  RevokeIInv'
<1>1. /\ revoke.at = "keys" /\ revoke.left = {}
      /\ UNCHANGED <<spawnerUp, recent, active, results, marker, controlKey, bridgeKey, verdict, revokes>>
  BY DEF DisableMcp, spawner_state
<1>2. PICK written \in BOOLEAN :
        /\ customMcp' = (customMcp /\ ~written)
        /\ revoke' = [revoke EXCEPT !.at = "recent", !.failed = @ \/ ~written]
  BY DEF DisableMcp, Go
<1>3. revoke \in Revoking /\ revoke # NotRevoking
  BY <1>1, RevokeFacts DEF RevokeIInv
<1>4. /\ revoke' \in Revoking' /\ revoke'.at = "recent" /\ revoke'.left = revoke.left
      /\ revoke'.failed = (revoke.failed \/ ~written) /\ revoke'.key = revoke.key
      /\ revoke'.stopped = revoke.stopped
  BY <1>1, <1>2, <1>3 DEF Revoking, EnvFiles, SpawnerEnv
<1>5. AttemptsAreTyped' /\ VerdictIsLast' /\ StoppedStaysStopped'
  BY <1>1, <1>2, <1>3, <1>4 DEF RevokeIInv, AttemptsAreTyped, VerdictIsLast, StoppedStaysStopped, Reported
<1>6. RevokeTypeOK' /\ MissionsArePaused' /\ MarkerIsSet'
  BY <1>1, <1>4 DEF RevokeIInv, RevokeTypeOK, MissionsArePaused, MarkerIsSet, EnvFiles, SpawnerEnv
<1>7. KeysAreReplaced'
  BY <1>1, <1>2, <1>3, <1>4 DEF RevokeIInv, KeysAreReplaced, EnvFiles, SpawnerEnv
<1>8. SuccessHasRevoked'
  BY <1>1, <1>3, RevokeFacts DEF RevokeIInv, VerdictIsLast, SuccessHasRevoked
<1> QED BY <1>5, <1>6, <1>7, <1>8 DEF RevokeIInv

(* A step on one of Spawner's files leaves the rest of what was done. *)
LEMMA MissionFileStep ==
  ASSUME RevokeIInv, revoke \in Revoking, NEW readable \in BOOLEAN, NEW failed \in BOOLEAN,
         NEW next \in {"active", "results", "marker"}, revoke.at \in {"recent", "active", "results"},
         revoke' = [revoke EXCEPT !.at = next, !.sawAll = @ /\ readable, !.failed = @ \/ failed],
         UNCHANGED <<spawnerUp, marker, controlKey, bridgeKey, customMcp, verdict, revokes>>
  PROVE  /\ AttemptsAreTyped' /\ VerdictIsLast' /\ StoppedStaysStopped' /\ KeysAreReplaced' /\ MarkerIsSet'
         /\ ~verdict'.ok
         /\ revoke' # NotRevoking /\ revoke'.at = next /\ revoke'.stopped = revoke.stopped
         /\ revoke'.sawAll = (revoke.sawAll /\ readable) /\ revoke'.failed = (revoke.failed \/ failed)
<1>1. /\ revoke' \in Revoking' /\ revoke'.at = next /\ revoke'.left = revoke.left
      /\ revoke'.failed = (revoke.failed \/ failed) /\ revoke'.key = revoke.key
      /\ revoke'.stopped = revoke.stopped /\ revoke'.sawAll = (revoke.sawAll /\ readable)
  BY DEF Revoking, EnvFiles, SpawnerEnv
<1>2. revoke # NotRevoking /\ revoke' # NotRevoking
  <2>1. NotRevoking.at = "idle"
    BY DEF NotRevoking
  <2> QED BY <1>1, <2>1
<1>3. AttemptsAreTyped' /\ VerdictIsLast' /\ StoppedStaysStopped'
  BY <1>1, <1>2 DEF RevokeIInv, AttemptsAreTyped, VerdictIsLast, StoppedStaysStopped, Reported
<1>4. KeysAreReplaced' /\ MarkerIsSet'
  BY <1>1, <1>2 DEF RevokeIInv, KeysAreReplaced, MarkerIsSet, EnvFiles, SpawnerEnv
<1>5. ~verdict'.ok
  BY <1>2, RevokeFacts DEF RevokeIInv, VerdictIsLast
<1> QED BY <1>1, <1>2, <1>3, <1>4, <1>5

(* With the pauses before them, no mission's newest event can be paused. *)
LEMMA PausesPause ==
  ASSUME recent \in Seq(Mission \X MissionEvent), NEW pauses \in PauseEntries, recent' = pauses \o recent
  PROVE  recent' \in Seq(Mission \X MissionEvent) /\ ToPause' = {}
<1>1. PICK order \in UNION {[1..n -> ToPause] : n \in 0..Len(recent)} :
        Range(order) = ToPause /\ pauses = [k \in DOMAIN order |-> <<order[k], "mission_paused">>]
  BY DEF PauseEntries
<1>2. PICK n \in 0..Len(recent) : order \in [1..n -> ToPause]
  BY <1>1
<1>3. n \in Nat /\ DOMAIN order = 1..n
  BY <1>2
<1>4. pauses \in Seq(Mission \X MissionEvent) /\ Len(pauses) = n
      /\ \A k \in 1..n : pauses[k] = <<order[k], "mission_paused">>
  <2>1. \A k \in 1..n : pauses[k] = <<order[k], "mission_paused">> /\ order[k] \in Mission
    BY <1>1, <1>2, <1>3 DEF ToPause
  <2>2. pauses \in [1..n -> Mission \X MissionEvent]
    BY <1>1, <1>3, <2>1 DEF MissionEvent
  <2>3. pauses \in Seq(Mission \X MissionEvent)
    BY <1>3, <2>2
  <2>4. Len(pauses) = n
    BY <1>3, <2>2
  <2> QED BY <2>1, <2>3, <2>4
<1>5. /\ recent' \in Seq(Mission \X MissionEvent) /\ Len(recent') = n + Len(recent)
      /\ \A k \in 1..n : recent'[k] = pauses[k]
      /\ \A k \in 1..Len(recent) : recent'[n + k] = recent[k]
  <2> DEFINE LogEntry == Mission \X MissionEvent
  <2>1. pauses \in Seq(LogEntry) /\ recent \in Seq(LogEntry) /\ Len(recent) \in Nat
    BY <1>4
  <2> HIDE DEF LogEntry
  <2>2. pauses \o recent \in Seq(LogEntry)
    BY <2>1
  <2>5. Len(pauses \o recent) = n + Len(recent)
    <3>1. Len(pauses) = n
      BY <1>4
    <3>2. Len(pauses \o recent) = Len(pauses) + Len(recent)
      BY <2>1
    <3> QED BY <3>1, <3>2
  <2>3. \A k \in 1..n : (pauses \o recent)[k] = pauses[k]
    BY <1>3, <1>4, <2>1
  <2>4. \A k \in 1..Len(recent) : (pauses \o recent)[n + k] = recent[k]
    BY <1>3, <1>4, <2>1
  <2> QED BY <2>2, <2>3, <2>4, <2>5 DEF LogEntry
<1>6. ASSUME NEW m \in Mission, NEW k \in DOMAIN recent', recent'[k][1] = m,
             \A j \in 1..(k - 1) : recent'[j][1] # m
      PROVE  recent'[k][2] \notin Pausable
  <2>1. CASE k \in 1..n
    <3>1. recent'[k][2] = "mission_paused"
      BY <1>4, <1>5, <2>1
    <3> QED BY <3>1 DEF Pausable
  <2>2. CASE k \notin 1..n
    <3> DEFINE i == k - n
    <3>0. Len(recent) \in Nat /\ DOMAIN recent = 1..Len(recent) /\ DOMAIN recent' = 1..(n + Len(recent))
      BY <1>5
    <3>1. i \in 1..Len(recent) /\ i \in DOMAIN recent /\ k = n + i /\ k \in Nat
      BY <1>3, <1>6, <2>2, <3>0
    <3>2. recent'[k] = recent[i]
      BY <1>5, <3>1
    <3>3. \A j \in 1..(i - 1) : recent[j][1] # m
      <4> SUFFICES ASSUME NEW j \in 1..(i - 1) PROVE recent[j][1] # m
        OBVIOUS
      <4>1. j \in 1..Len(recent) /\ n + j \in 1..(k - 1)
        BY <1>3, <3>0, <3>1, SMTT(30)
      <4> QED BY <1>5, <1>6, <4>1
    <3>4. m \notin ToPause
      <4>1. ASSUME m \in ToPause PROVE FALSE
        <5>1. PICK j \in 1..n : order[j] = m
          BY <1>1, <1>3, <4>1 DEF Range
        <5>2. recent'[j][1] = m
          BY <1>4, <1>5, <5>1
        <5>3. j \in 1..(k - 1)
          BY <1>3, <3>0, <2>2, <5>1
        <5> QED BY <1>6, <5>2, <5>3
      <4> QED BY <4>1
    <3>5. recent[i][2] \in LatestEvent(m)
      BY <1>6, <3>1, <3>2, <3>3 DEF LatestEvent
    <3> QED BY <3>2, <3>4, <3>5 DEF ToPause
  <2> QED BY <2>1, <2>2
<1>7. ToPause' = {}
  BY <1>6 DEF ToPause, LatestEvent
<1> QED BY <1>5, <1>7

LEMMA PauseRecentStep ==
  ASSUME RevokeIInv, PauseRecent
  PROVE  RevokeIInv'
<1>1. /\ revoke.at = "recent"
      /\ UNCHANGED <<spawnerUp, active, results, marker, controlKey, bridgeKey, customMcp, verdict, revokes>>
  BY DEF PauseRecent, env_state
<1>2. PICK readable \in BOOLEAN, written \in BOOLEAN :
        /\ readable \/ ~written
        /\ IF written THEN \E pauses \in PauseEntries : recent' = pauses \o recent ELSE recent' = recent
        /\ revoke' = [revoke EXCEPT !.at = "active", !.sawAll = @ /\ readable,
                        !.failed = @ \/ (readable /\ ToPause # {} /\ ~written)]
  BY DEF PauseRecent
<1>3. revoke \in Revoking /\ recent \in Seq(Mission \X MissionEvent)
  BY <1>1, RevokeFacts DEF RevokeIInv, RevokeTypeOK
<1> DEFINE failed == readable /\ ToPause # {} /\ ~written
<1>4. /\ AttemptsAreTyped' /\ VerdictIsLast' /\ StoppedStaysStopped' /\ KeysAreReplaced' /\ MarkerIsSet'
      /\ ~verdict'.ok
      /\ revoke' # NotRevoking /\ revoke'.at = "active" /\ revoke'.stopped = revoke.stopped
      /\ revoke'.sawAll = (revoke.sawAll /\ readable) /\ revoke'.failed = (revoke.failed \/ failed)
  <2>1. failed \in BOOLEAN
    OBVIOUS
  <2>2. revoke' = [revoke EXCEPT !.at = "active", !.sawAll = @ /\ readable, !.failed = @ \/ failed]
    BY <1>2
  <2> HIDE DEF failed
  <2> QED BY <1>1, <1>3, <2>1, <2>2, MissionFileStep, Zenon
<1>5. recent' \in Seq(Mission \X MissionEvent) /\ (written => ToPause' = {}) /\ (~written => ToPause' = ToPause)
  <2>1. CASE written
    BY <1>2, <1>3, <2>1, PausesPause
  <2>2. CASE ~written
    BY <1>2, <1>3, <2>2 DEF ToPause, LatestEvent
  <2> QED BY <2>1, <2>2
<1>6. RevokeTypeOK'
  BY <1>1, <1>5 DEF RevokeIInv, RevokeTypeOK
<1>7. MissionsArePaused'
  BY <1>2, <1>4, <1>5 DEF MissionsArePaused
<1>8. SuccessHasRevoked'
  BY <1>4 DEF SuccessHasRevoked
<1> QED BY <1>4, <1>6, <1>7, <1>8 DEF RevokeIInv

LEMMA PauseActiveStep ==
  ASSUME RevokeIInv, PauseActive
  PROVE  RevokeIInv'
<1>1. /\ revoke.at = "active"
      /\ UNCHANGED <<spawnerUp, recent, results, marker, controlKey, bridgeKey, customMcp, verdict, revokes>>
  BY DEF PauseActive, env_state
<1>2. PICK readable \in BOOLEAN, written \in BOOLEAN :
        /\ active' = IF written THEN NoMission ELSE active
        /\ revoke' = [revoke EXCEPT !.at = "results", !.sawAll = @ /\ readable,
                        !.failed = @ \/ (readable /\ active # NoMission /\ ~written)]
  BY DEF PauseActive
<1>3. revoke \in Revoking /\ revoke # NotRevoking
  BY <1>1, RevokeFacts DEF RevokeIInv
<1> DEFINE failed == readable /\ active # NoMission /\ ~written
<1>4. /\ AttemptsAreTyped' /\ VerdictIsLast' /\ StoppedStaysStopped' /\ KeysAreReplaced' /\ MarkerIsSet'
      /\ ~verdict'.ok
      /\ revoke' # NotRevoking /\ revoke'.at = "results" /\ revoke'.stopped = revoke.stopped
      /\ revoke'.sawAll = (revoke.sawAll /\ readable) /\ revoke'.failed = (revoke.failed \/ failed)
  <2>1. failed \in BOOLEAN
    OBVIOUS
  <2>2. revoke' = [revoke EXCEPT !.at = "results", !.sawAll = @ /\ readable, !.failed = @ \/ failed]
    BY <1>2
  <2> HIDE DEF failed
  <2> QED BY <1>1, <1>3, <2>1, <2>2, MissionFileStep, Zenon
<1>5. RevokeTypeOK' /\ ToPause' = ToPause
  BY <1>1, <1>2 DEF RevokeIInv, RevokeTypeOK, ToPause, LatestEvent
<1>6. MissionsArePaused'
  BY <1>1, <1>2, <1>3, <1>4, <1>5 DEF RevokeIInv, MissionsArePaused
<1>7. SuccessHasRevoked'
  BY <1>4 DEF SuccessHasRevoked
<1> QED BY <1>4, <1>5, <1>6, <1>7 DEF RevokeIInv

LEMMA CancelResultsStep ==
  ASSUME RevokeIInv, CancelResults
  PROVE  RevokeIInv'
<1>1. /\ revoke.at = "results"
      /\ UNCHANGED <<spawnerUp, recent, active, marker, controlKey, bridgeKey, customMcp, verdict, revokes>>
  BY DEF CancelResults, env_state
<1>2. PICK readable \in BOOLEAN, written \in BOOLEAN :
        /\ results' = IF written THEN {} ELSE results
        /\ revoke' = [revoke EXCEPT !.at = "marker", !.sawAll = @ /\ readable,
                        !.failed = @ \/ (readable /\ results # {} /\ ~written)]
  BY DEF CancelResults
<1>3. revoke \in Revoking /\ revoke # NotRevoking
  BY <1>1, RevokeFacts DEF RevokeIInv
<1> DEFINE failed == readable /\ results # {} /\ ~written
<1>4. /\ AttemptsAreTyped' /\ VerdictIsLast' /\ StoppedStaysStopped' /\ KeysAreReplaced' /\ MarkerIsSet'
      /\ ~verdict'.ok
      /\ revoke' # NotRevoking /\ revoke'.at = "marker" /\ revoke'.stopped = revoke.stopped
      /\ revoke'.sawAll = (revoke.sawAll /\ readable) /\ revoke'.failed = (revoke.failed \/ failed)
  <2>1. failed \in BOOLEAN
    OBVIOUS
  <2>2. revoke' = [revoke EXCEPT !.at = "marker", !.sawAll = @ /\ readable, !.failed = @ \/ failed]
    BY <1>2
  <2> HIDE DEF failed
  <2> QED BY <1>1, <1>3, <2>1, <2>2, MissionFileStep, Zenon
<1>5. RevokeTypeOK' /\ ToPause' = ToPause
  BY <1>1, <1>2 DEF RevokeIInv, RevokeTypeOK, ToPause, LatestEvent
<1>6. MissionsArePaused'
  BY <1>1, <1>2, <1>3, <1>4, <1>5 DEF RevokeIInv, MissionsArePaused
<1>7. SuccessHasRevoked'
  BY <1>4 DEF SuccessHasRevoked
<1> QED BY <1>4, <1>5, <1>6, <1>7 DEF RevokeIInv

LEMMA WriteMarkerStep ==
  ASSUME RevokeIInv, WriteMarker
  PROVE  RevokeIInv'
<1>1. /\ revoke.at = "marker"
      /\ UNCHANGED <<spawnerUp, recent, active, results, controlKey, bridgeKey, customMcp, verdict, revokes>>
  BY DEF WriteMarker, env_state, spawner_state
<1>2. PICK written \in BOOLEAN :
        /\ marker' = (marker \/ written)
        /\ revoke' = [revoke EXCEPT !.at = "bundle", !.failed = @ \/ ~written]
  BY DEF WriteMarker, Go
<1>3. revoke \in Revoking /\ revoke # NotRevoking
  BY <1>1, RevokeFacts DEF RevokeIInv
<1>4. /\ revoke' \in Revoking' /\ revoke'.at = "bundle" /\ revoke'.left = revoke.left
      /\ revoke'.failed = (revoke.failed \/ ~written) /\ revoke'.key = revoke.key
      /\ revoke'.stopped = revoke.stopped /\ revoke'.sawAll = revoke.sawAll
  BY <1>1, <1>2, <1>3 DEF Revoking, EnvFiles, SpawnerEnv
<1>5. AttemptsAreTyped' /\ VerdictIsLast' /\ StoppedStaysStopped'
  BY <1>1, <1>2, <1>3, <1>4 DEF RevokeIInv, AttemptsAreTyped, VerdictIsLast, StoppedStaysStopped, Reported
<1>6. RevokeTypeOK' /\ ToPause' = ToPause
  BY <1>1 DEF RevokeIInv, RevokeTypeOK, ToPause, LatestEvent, EnvFiles, SpawnerEnv
<1>7. KeysAreReplaced' /\ MarkerIsSet'
  BY <1>1, <1>2, <1>3, <1>4 DEF RevokeIInv, KeysAreReplaced, MarkerIsSet, EnvFiles, SpawnerEnv
<1>8. MissionsArePaused'
  BY <1>1, <1>3, <1>4, <1>6 DEF RevokeIInv, MissionsArePaused
<1>9. SuccessHasRevoked'
  BY <1>1, <1>3, RevokeFacts DEF RevokeIInv, VerdictIsLast, SuccessHasRevoked
<1> QED BY <1>5, <1>6, <1>7, <1>8, <1>9 DEF RevokeIInv

(* An attempt that reports success has done every part on the files left. *)
LEMMA ReportVerdictStep ==
  ASSUME RevokeIInv, ReportVerdict
  PROVE  RevokeIInv'
<1>1. /\ revoke.at = "bundle" /\ revoke' = NotRevoking
      /\ UNCHANGED <<spawnerUp, recent, active, results, marker, controlKey, bridgeKey, customMcp, revokes>>
  BY DEF ReportVerdict, env_state, spawner_state
<1>2. PICK bundle \in BOOLEAN :
        verdict' = IF VerdictOk(revoke.failed, bundle)
                   THEN [ok |-> TRUE, stopped |-> revoke.stopped, sawAll |-> revoke.sawAll, key |-> revoke.key]
                   ELSE NoVerdict
  BY DEF ReportVerdict
<1>3. revoke \in Revoking /\ revoke # NotRevoking
  BY <1>1, RevokeFacts DEF RevokeIInv
<1>4. verdict' \in {NoVerdict} \cup Reported'
  <2>1. ASSUME VerdictOk(revoke.failed, bundle) PROVE verdict' \in Reported'
    BY <1>1, <1>2, <1>3, <2>1 DEF Revoking, Reported
  <2> QED BY <1>2, <2>1
<1>5. AttemptsAreTyped' /\ VerdictIsLast' /\ StoppedStaysStopped' /\ KeysAreReplaced' /\ MissionsArePaused'
      /\ MarkerIsSet'
  BY <1>1, <1>4 DEF RevokeIInv, AttemptsAreTyped, VerdictIsLast, StoppedStaysStopped, KeysAreReplaced,
     MissionsArePaused, MarkerIsSet
<1>6. RevokeTypeOK' /\ ToPause' = ToPause
  BY <1>1 DEF RevokeIInv, RevokeTypeOK, ToPause, LatestEvent, EnvFiles, SpawnerEnv
<1>7. SuccessHasRevoked'
  <2> SUFFICES ASSUME verdict'.ok, verdict'.stopped, verdict'.sawAll
               PROVE  /\ \A m \in Mission : Quiescent(m)'
                      /\ marker' /\ ~customMcp' /\ bridgeKey' = {}
                      /\ \A f \in EnvFiles : controlKey'[f] \in {0, verdict'.key}
    BY DEF SuccessHasRevoked, EnvFiles, SpawnerEnv
  <2>1. ~NoVerdict.ok
    BY DEF NoVerdict
  <2>2. ~revoke.failed /\ revoke.stopped /\ revoke.sawAll /\ verdict'.key = revoke.key
    BY <1>2, <2>1 DEF VerdictOk
  <2>3. ToPause' = {} /\ active' = NoMission /\ results' = {}
    BY <1>1, <1>3, <1>6, <2>2 DEF RevokeIInv, MissionsArePaused
  <2>4. \A m \in Mission : Quiescent(m)'
    BY <2>3, RevokeAssumption DEF Quiescent, ToPause
  <2>5. marker'
    BY <1>1, <1>3, <2>2 DEF RevokeIInv, MarkerIsSet
  <2>6. revoke.left = {} /\ ~customMcp' /\ \A f \in EnvFiles : controlKey'[f] \in {0, revoke.key} /\ f \notin bridgeKey'
    BY <1>1, <1>3, <2>2 DEF RevokeIInv, KeysAreReplaced
  <2>7. bridgeKey' = {}
    BY <1>1, <2>6 DEF RevokeIInv, RevokeTypeOK
  <2> QED BY <2>2, <2>4, <2>5, <2>6, <2>7
<1> QED BY <1>5, <1>6, <1>7 DEF RevokeIInv

LEMMA KillRevokeStep ==
  ASSUME RevokeIInv, KillRevoke
  PROVE  RevokeIInv'
<1>1. /\ revoke # NotRevoking /\ revoke' = NotRevoking
      /\ UNCHANGED <<spawnerUp, recent, active, results, marker, controlKey, bridgeKey, customMcp, verdict, revokes>>
  BY DEF KillRevoke, env_state, spawner_state
<1>2. AttemptsAreTyped' /\ VerdictIsLast' /\ StoppedStaysStopped' /\ KeysAreReplaced' /\ MissionsArePaused'
      /\ MarkerIsSet'
  BY <1>1 DEF RevokeIInv, AttemptsAreTyped, VerdictIsLast, StoppedStaysStopped, KeysAreReplaced,
     MissionsArePaused, MarkerIsSet, Reported
<1>3. RevokeTypeOK'
  BY <1>1 DEF RevokeIInv, RevokeTypeOK, EnvFiles, SpawnerEnv
<1>4. SuccessHasRevoked'
  BY <1>1, RevokeFacts DEF RevokeIInv, VerdictIsLast, SuccessHasRevoked
<1> QED BY <1>2, <1>3, <1>4 DEF RevokeIInv

LEMMA RevokeNextInv == RevokeIInv /\ [RevokeNext]_revoke_vars => RevokeIInv'
<1> SUFFICES ASSUME RevokeIInv, [RevokeNext]_revoke_vars PROVE RevokeIInv'
  OBVIOUS
<1>1. CASE RevokeNext
  BY <1>1, SpawnerWritesStep, StartSpawnerStep, StopProcessesStep, RotateFileStep, DisableMcpStep,
     PauseRecentStep, PauseActiveStep, CancelResultsStep, WriteMarkerStep, ReportVerdictStep,
     KillRevokeStep DEF RevokeNext
<1>2. CASE UNCHANGED revoke_vars
  <2>1. AttemptsAreTyped' /\ RevokeTypeOK'
    <3>1. UNCHANGED <<spawnerUp, recent, active, results, marker, controlKey, bridgeKey, customMcp, revoke,
                      verdict, revokes>>
      BY <1>2 DEF revoke_vars
    <3>2. AttemptsAreTyped'
      BY <3>1 DEF RevokeIInv, AttemptsAreTyped, Revoking, Reported
    <3>3. RevokeTypeOK'
      BY <3>1 DEF RevokeIInv, RevokeTypeOK
    <3> QED BY <3>2, <3>3
  <2>2. VerdictIsLast' /\ StoppedStaysStopped' /\ KeysAreReplaced' /\ MarkerIsSet'
    BY <1>2 DEF revoke_vars, RevokeIInv, VerdictIsLast, StoppedStaysStopped, KeysAreReplaced, MarkerIsSet
  <2>3. MissionsArePaused' /\ SuccessHasRevoked'
    BY <1>2 DEF revoke_vars, RevokeIInv, MissionsArePaused, SuccessHasRevoked, Quiescent, ToPause, LatestEvent
  <2> QED BY <2>1, <2>2, <2>3 DEF RevokeIInv
<1> QED BY <1>1, <1>2

(* The inductive invariant holds in every reachable state. *)
LEMMA RevokeInductive == RevokeSpec => []RevokeIInv
BY RevokeInitInv, RevokeNextInv, PTL DEF RevokeSpec

(* A revoke-all that reports success, with Spawner down from its stop step *)
(* on and its files readable, has revoked everything: for any missions, env*)
(* files, number of events, attempts and kills.                            *)
THEOREM SuccessMeansRevoked == RevokeSpec => []SuccessHasRevoked
<1>1. RevokeIInv => SuccessHasRevoked
  BY DEF RevokeIInv
<1> QED BY <1>1, RevokeInductive, PTL

-----------------------------------------------------------------------------
(* Autostart.                                                              *)

(* What no step of a running command changes. *)
Underway ==
  /\ os' = os /\ answered' = answered /\ SwitchRecord' /\ switching' # NotSwitching
  /\ switching'.cmd = switching.cmd /\ switching'.target = switching.target

StepDone == switching'.todo = <<>> \o Tail(switching.todo)

(* A step's one entry now starts target, and the others what they did. *)
Placed(e, target) ==
  /\ entry'[e] = target /\ \A x \in Entry \ {e} : entry'[x] = entry[x]
  /\ entry' \in [Entry -> StartTarget \cup {NoTarget}]

OneStep == WriteEntry \/ RemoveEntry \/ CallHelper \/ CallScheduler \/ CallReg \/ ReachWindows

LEMMA RunningCommand ==
  ASSUME SwitchRecord PROVE switching # NotSwitching
BY DEF SwitchRecord, NotSwitching

LEMMA Advanced ==
  ASSUME SwitchRecord, NEW failed \in BOOLEAN, NEW more, Advance(failed, more)
  PROVE  /\ Underway
         /\ switching'.todo = more \o Tail(switching.todo) /\ switching'.lost = switching.lost
         /\ switching'.failed = (switching.failed \/ failed)
<1> DEFINE f == switching.failed \/ failed
           t == more \o Tail(switching.todo)
<1>1. switching' = [switching EXCEPT !.todo = t, !.failed = f]
  BY DEF Advance
<1>2. f \in BOOLEAN
  BY DEF SwitchRecord
<1>3. switching = [cmd |-> switching.cmd, target |-> switching.target, todo |-> switching.todo,
                   failed |-> switching.failed, lost |-> switching.lost]
  BY DEF SwitchRecord
<1>4. switching.lost \in BOOLEAN
  BY DEF SwitchRecord
<1> HIDE DEF f, t
<1>5. switching' = [cmd |-> switching.cmd, target |-> switching.target, todo |-> t,
                    failed |-> f, lost |-> switching.lost]
  BY <1>1, <1>3
<1>6. /\ switching'.cmd = switching.cmd /\ switching'.target = switching.target
      /\ switching'.todo = t /\ switching'.failed = f /\ switching'.lost = switching.lost
  BY <1>5
<1>7. SwitchRecord'
  BY <1>2, <1>4, <1>5, <1>6 DEF SwitchRecord
<1>8. switching' # NotSwitching
  BY <1>5 DEF NotSwitching
<1> QED BY <1>6, <1>7, <1>8 DEF Advance, Underway, f, t

LEMMA Placing ==
  ASSUME entry \in [Entry -> StartTarget \cup {NoTarget}], NEW e \in Entry,
         NEW target \in StartTarget \cup {NoTarget}, Set(e, target)
  PROVE  Placed(e, target)
BY DEF Set, Placed

LEMMA StepOfItsKind ==
  ASSUME OneStep
  PROVE  LET kind == Head(switching.todo)[1] IN
         /\ switching.todo # <<>>
         /\ kind = "write" => WriteEntry
         /\ kind = "remove" => RemoveEntry
         /\ kind \in {"must", "may"} => CallHelper
         /\ kind \in {"register", "unregister"} => CallScheduler
         /\ kind \in {"try", "drop"} => CallReg
         /\ kind \in {"write_or_fail", "remove_if_found"} => ReachWindows
<1> DEFINE kind == Head(switching.todo)[1]
<1>1. /\ WriteEntry => switching.todo # <<>> /\ kind = "write"
      /\ RemoveEntry => switching.todo # <<>> /\ kind = "remove"
      /\ CallHelper => switching.todo # <<>> /\ kind \in {"must", "may"}
      /\ CallScheduler => switching.todo # <<>> /\ kind \in {"register", "unregister"}
      /\ CallReg => switching.todo # <<>> /\ kind \in {"try", "drop"}
      /\ ReachWindows => switching.todo # <<>> /\ kind \in {"write_or_fail", "remove_if_found"}
  BY DEF WriteEntry, RemoveEntry, CallHelper, CallScheduler, CallReg, ReachWindows, Due
<1> HIDE DEF kind
<1>2. /\ switching.todo # <<>>
      /\ kind = "write" => WriteEntry
      /\ kind = "remove" => RemoveEntry
      /\ kind \in {"must", "may"} => CallHelper
      /\ kind \in {"register", "unregister"} => CallScheduler
      /\ kind \in {"try", "drop"} => CallReg
      /\ kind \in {"write_or_fail", "remove_if_found"} => ReachWindows
  BY <1>1 DEF OneStep
<1> QED BY <1>2 DEF kind

(* What each step does to the command and to the entries. *)
LEMMA Written ==
  ASSUME SwitchRecord, AutostartTypeOK, About \in Entry,
         switching.target \in StartTarget \cup {NoTarget},
         \/ WriteEntry
         \/ RemoveEntry /\ switching.target = NoTarget
  PROVE  /\ Underway /\ StepDone /\ Placed(About, switching.target) /\ unitEnabled' = unitEnabled
         /\ switching'.failed = switching.failed /\ switching'.lost = switching.lost
<1>1. Set(About, switching.target) /\ Advance(FALSE, <<>>) /\ unitEnabled' = unitEnabled
  BY DEF WriteEntry, RemoveEntry
<1>2. switching.failed \in BOOLEAN
  BY DEF SwitchRecord
<1>3. switching'.todo = <<>> \o Tail(switching.todo) /\ Underway
      /\ switching'.lost = switching.lost /\ switching'.failed = (switching.failed \/ FALSE)
  BY <1>1, Advanced
<1>4. Placed(About, switching.target)
  BY <1>1, Placing DEF AutostartTypeOK
<1> QED BY <1>1, <1>2, <1>3, <1>4 DEF StepDone

LEMMA Removed ==
  ASSUME SwitchRecord, AutostartTypeOK, About \in Entry, RemoveEntry
  PROVE  /\ Underway /\ StepDone /\ Placed(About, NoTarget)
         /\ switching'.failed = switching.failed /\ switching'.lost = switching.lost
<1>1. Set(About, NoTarget) /\ Advance(FALSE, <<>>)
  BY DEF RemoveEntry
<1>2. switching.failed \in BOOLEAN
  BY DEF SwitchRecord
<1>3. switching'.todo = <<>> \o Tail(switching.todo) /\ Underway
      /\ switching'.lost = switching.lost /\ switching'.failed = (switching.failed \/ FALSE)
  BY <1>1, Advanced
<1>4. Placed(About, NoTarget)
  BY <1>1, Placing DEF AutostartTypeOK
<1> QED BY <1>1, <1>2, <1>3, <1>4 DEF StepDone

LEMMA Helped ==
  ASSUME SwitchRecord, AutostartTypeOK, CallHelper
  PROVE  /\ Underway /\ StepDone /\ entry' = entry /\ unitEnabled' \in BOOLEAN
         /\ switching'.lost = switching.lost
         /\ Head(switching.todo)[1] = "must" /\ About = "enable" => switching'.failed \/ unitEnabled'
<1>1. PICK works \in BOOLEAN :
        /\ unitEnabled' = CASE works /\ About = "enable" -> TRUE
                            [] works /\ About = "disable" -> FALSE
                            [] OTHER -> unitEnabled
        /\ Advance(~works /\ Due({"must"}), <<>>)
  BY DEF CallHelper
<1>2. (~works /\ Due({"must"})) \in BOOLEAN
  OBVIOUS
<1>3. /\ Underway /\ switching'.todo = <<>> \o Tail(switching.todo) /\ switching'.lost = switching.lost
      /\ switching'.failed = (switching.failed \/ (~works /\ Due({"must"})))
  BY <1>1, <1>2, Advanced
<1>4. unitEnabled' \in BOOLEAN /\ (works /\ About = "enable" => unitEnabled')
  BY <1>1 DEF AutostartTypeOK
<1>5. Head(switching.todo)[1] = "must" => Due({"must"})
  BY DEF Due, CallHelper
<1>6. switching.failed \in BOOLEAN
  BY DEF SwitchRecord
<1> QED BY <1>3, <1>4, <1>5, <1>6 DEF StepDone, CallHelper

LEMMA Scheduled ==
  ASSUME SwitchRecord, AutostartTypeOK, CallScheduler,
         switching.target \in StartTarget \cup {NoTarget}
  PROVE  /\ Underway /\ unitEnabled' = unitEnabled
         /\ switching'.lost = switching.lost
         /\ \/ StepDone /\ Placed("task", switching.target) /\ switching'.failed = switching.failed
            \/ /\ entry' = entry /\ Head(switching.todo)[1] = "register"
               /\ switching'.todo = FallbackSteps \o Tail(switching.todo)
            \/ /\ entry' = entry /\ Head(switching.todo)[1] = "unregister"
               /\ StepDone /\ switching'.failed
<1>1. \/ Set("task", switching.target) /\ Advance(FALSE, <<>>)
      \/ entry' = entry /\ Due({"register"}) /\ Advance(FALSE, FallbackSteps)
      \/ entry' = entry /\ ~Due({"register"}) /\ Advance(TRUE, <<>>)
  BY DEF CallScheduler
<1>2. switching.failed \in BOOLEAN /\ "task" \in Entry
  BY DEF SwitchRecord, Entry
<1>3. Due({"register"}) => Head(switching.todo)[1] = "register"
  BY DEF Due
<1>4. ~Due({"register"}) => Head(switching.todo)[1] = "unregister"
  BY DEF Due, CallScheduler
<1>5. CASE Set("task", switching.target) /\ Advance(FALSE, <<>>)
  <2>1. Placed("task", switching.target)
    BY <1>2, <1>5, Placing DEF AutostartTypeOK
  <2>2. /\ Underway /\ switching'.todo = <<>> \o Tail(switching.todo) /\ switching'.lost = switching.lost
        /\ switching'.failed = (switching.failed \/ FALSE)
    BY <1>5, Advanced
  <2> QED BY <1>2, <2>1, <2>2 DEF StepDone, CallScheduler
<1>6. CASE entry' = entry /\ Due({"register"}) /\ Advance(FALSE, FallbackSteps)
  <2>1. Underway /\ switching'.todo = FallbackSteps \o Tail(switching.todo) /\ switching'.lost = switching.lost
    BY <1>6, Advanced
  <2> QED BY <1>3, <1>6, <2>1 DEF CallScheduler
<1>7. CASE entry' = entry /\ ~Due({"register"}) /\ Advance(TRUE, <<>>)
  <2>1. /\ Underway /\ switching'.todo = <<>> \o Tail(switching.todo) /\ switching'.lost = switching.lost
        /\ switching'.failed = (switching.failed \/ TRUE)
    BY <1>7, Advanced
  <2> QED BY <1>4, <1>7, <2>1 DEF StepDone, CallScheduler
<1> QED BY <1>1, <1>5, <1>6, <1>7

LEMMA RunKeyCalled ==
  ASSUME SwitchRecord, AutostartTypeOK, CallReg,
         switching.target \in StartTarget \cup {NoTarget}
  PROVE  /\ Underway /\ StepDone /\ unitEnabled' = unitEnabled
         /\ switching'.failed = switching.failed /\ switching'.lost = switching.lost
         /\ entry' = entry \/ Placed("run_key", switching.target)
<1>1. Advance(FALSE, <<>>) /\ (entry' = entry \/ Set("run_key", switching.target))
  BY DEF CallReg
<1>2. switching.failed \in BOOLEAN /\ "run_key" \in Entry
  BY DEF SwitchRecord, Entry
<1>3. Set("run_key", switching.target) => Placed("run_key", switching.target)
  BY <1>2, Placing DEF AutostartTypeOK
<1>4. /\ Underway /\ switching'.todo = <<>> \o Tail(switching.todo) /\ switching'.lost = switching.lost
      /\ switching'.failed = (switching.failed \/ FALSE)
  BY <1>1, Advanced
<1> QED BY <1>1, <1>2, <1>3, <1>4 DEF StepDone, CallReg

LEMMA WindowsReached ==
  ASSUME SwitchRecord, AutostartTypeOK, ReachWindows,
         switching.target \in StartTarget \cup {NoTarget}
  PROVE  /\ Underway /\ switching'.todo = Tail(switching.todo) /\ unitEnabled' = unitEnabled
         /\ \/ Placed("wsl_script", switching.target)
            \/ /\ entry' = entry /\ switching'.lost
               /\ Head(switching.todo)[1] = "write_or_fail" => switching'.failed
<1>1. PICK present \in BOOLEAN :
        /\ IF present THEN Set("wsl_script", switching.target) ELSE UNCHANGED entry
        /\ switching' = [switching EXCEPT !.todo = Tail(@), !.lost = ~present,
                           !.failed = ~present /\ Due({"write_or_fail"})]
  BY DEF ReachWindows
<1> DEFINE f == ~present /\ Due({"write_or_fail"})
           t == Tail(switching.todo)
<1>2. f \in BOOLEAN
  OBVIOUS
<1>3. switching = [cmd |-> switching.cmd, target |-> switching.target, todo |-> switching.todo,
                   failed |-> switching.failed, lost |-> switching.lost]
  BY DEF SwitchRecord
<1>4. switching' = [switching EXCEPT !.todo = t, !.lost = ~present, !.failed = f]
  BY <1>1, <1>3
<1>5. Head(switching.todo)[1] = "write_or_fail" /\ ~present => f
  BY DEF Due, ReachWindows
<1> HIDE DEF f, t
<1>6. switching' = [cmd |-> switching.cmd, target |-> switching.target, todo |-> t,
                    failed |-> f, lost |-> ~present]
  BY <1>3, <1>4
<1>7. /\ switching'.cmd = switching.cmd /\ switching'.target = switching.target
      /\ switching'.todo = t /\ switching'.failed = f /\ switching'.lost = ~present
  BY <1>6
<1>8. SwitchRecord' /\ switching' # NotSwitching
  BY <1>2, <1>6, <1>7 DEF SwitchRecord, NotSwitching
<1>9. present => Placed("wsl_script", switching.target)
  <2>1. "wsl_script" \in Entry
    BY DEF Entry
  <2> QED BY <1>1, <2>1, Placing DEF AutostartTypeOK
<1> QED BY <1>1, <1>5, <1>7, <1>8, <1>9 DEF Underway, ReachWindows, t

HooksOnly == AutostartTypeOK' /\ \A x \in Entry \ Hooks : entry'[x] = entry[x]

LEMMA OnlyAHook ==
  ASSUME AutostartTypeOK, Underway, unitEnabled' \in BOOLEAN,
         NEW e \in Hooks, NEW t, Placed(e, t) \/ entry' = entry
  PROVE  HooksOnly
BY DEF HooksOnly, AutostartTypeOK, Underway, Placed

(* One step of `on` and of `off` on each system. *)
LEMMA OnLinuxStep ==
  ASSUME SwitchRecord, AutostartTypeOK, SystemHasNoDesktop, OneStep,
         NEW t \in StartTarget, switching.target = t, OnLinux(t)
  PROVE  OnLinux(t)' /\ Underway /\ HooksOnly /\ SystemHasNoDesktop'
<1> DEFINE head == Head(switching.todo)
           rest == << <<"must", "reload">>, <<"must", "enable">> >>
<1>1. Hooks = {"unit", "xdg"}
  BY DEF OnLinux, Hooks
<1>2. /\ switching.todo # <<>> /\ (head[1] = "write" => WriteEntry) /\ (head[1] = "must" => CallHelper)
      /\ head[2] = About
  BY StepOfItsKind DEF About
<1>3. unitEnabled \in BOOLEAN
  BY DEF AutostartTypeOK
<1>4. CASE os = "linux_user" /\ To(InstallSteps)
  <2>1. switching.todo = << <<"write", "unit">>, <<"write", "xdg">>, <<"must", "reload">>, <<"must", "enable">> >>
    BY <1>4 DEF To, InstallSteps
  <2>2. /\ head = <<"write", "unit">>
        /\ <<>> \o Tail(switching.todo) = << <<"write", "xdg">>, <<"must", "reload">>, <<"must", "enable">> >>
    BY <2>1
  <2>3. WriteEntry /\ About = "unit"
    BY <1>2, <2>2
  <2>4. Underway /\ StepDone /\ Placed("unit", t) /\ unitEnabled' = unitEnabled
    BY <2>3, Written DEF Entry
  <2>5. HooksOnly
    BY <1>1, <1>3, <2>4, OnlyAHook
  <2>6. To(<< <<"write", "xdg">>, <<"must", "reload">>, <<"must", "enable">> >>)'
    BY <2>2, <2>4 DEF To, StepDone
  <2>7. os' = "linux_user" /\ entry'["unit"] = t
    BY <1>4, <2>4 DEF Underway, Placed
  <2>8. SystemHasNoDesktop'
    BY <1>4, <2>4, <2>7 DEF SystemHasNoDesktop, Placed, Entry
  <2> QED BY <2>4, <2>5, <2>6, <2>7, <2>8 DEF OnLinux
<1>5. CASE os = "linux_system" /\ To(InstallSteps)
  <2>1. switching.todo = << <<"write", "unit">>, <<"must", "reload">>, <<"must", "enable">> >>
    BY <1>5 DEF To, InstallSteps
  <2>2. head = <<"write", "unit">> /\ <<>> \o Tail(switching.todo) = rest
    BY <2>1
  <2>3. WriteEntry /\ About = "unit"
    BY <1>2, <2>2
  <2>4. Underway /\ StepDone /\ Placed("unit", t) /\ unitEnabled' = unitEnabled
    BY <2>3, Written DEF Entry
  <2>5. HooksOnly
    BY <1>1, <1>3, <2>4, OnlyAHook
  <2>6. To(rest)'
    BY <2>2, <2>4 DEF To, StepDone
  <2>7. os' = "linux_system" /\ LinuxWritten(t)'
    BY <1>5, <2>4 DEF Underway, Placed, LinuxWritten
  <2>8. SystemHasNoDesktop'
    BY <1>5, <2>4, <2>7 DEF SystemHasNoDesktop, Placed, Entry
  <2> QED BY <2>4, <2>5, <2>6, <2>7, <2>8 DEF OnLinux
<1>6. CASE /\ os = "linux_user" /\ entry["unit"] = t
           /\ To(<< <<"write", "xdg">>, <<"must", "reload">>, <<"must", "enable">> >>)
  <2>1. switching.todo = << <<"write", "xdg">>, <<"must", "reload">>, <<"must", "enable">> >>
    BY <1>6 DEF To
  <2>2. head = <<"write", "xdg">> /\ <<>> \o Tail(switching.todo) = rest
    BY <2>1
  <2>3. WriteEntry /\ About = "xdg"
    BY <1>2, <2>2
  <2>4. Underway /\ StepDone /\ Placed("xdg", t) /\ unitEnabled' = unitEnabled
    BY <2>3, Written DEF Entry
  <2>5. HooksOnly
    BY <1>1, <1>3, <2>4, OnlyAHook
  <2>6. To(rest)'
    BY <2>2, <2>4 DEF To, StepDone
  <2>7. os' = "linux_user" /\ LinuxWritten(t)'
    BY <1>6, <2>4 DEF Underway, Placed, LinuxWritten, Entry
  <2>8. SystemHasNoDesktop'
    BY <1>6, <2>4, <2>7 DEF SystemHasNoDesktop, Placed, Entry
  <2> QED BY <2>4, <2>5, <2>6, <2>7, <2>8 DEF OnLinux
<1>7. CASE LinuxWritten(t) /\ To(rest)
  <2>2. head = <<"must", "reload">> /\ <<>> \o Tail(switching.todo) = << <<"must", "enable">> >>
    BY <1>7 DEF To
  <2>3. CallHelper
    BY <1>2, <2>2
  <2>4. Underway /\ StepDone /\ entry' = entry /\ unitEnabled' \in BOOLEAN
    BY <2>3, Helped
  <2>5. HooksOnly
    BY <1>1, <2>4, OnlyAHook
  <2>6. To(<< <<"must", "enable">> >>)'
    BY <2>2, <2>4 DEF To, StepDone
  <2>7. os' = os /\ LinuxWritten(t)'
    BY <1>7, <2>4 DEF Underway, LinuxWritten
  <2>8. SystemHasNoDesktop'
    BY <1>7, <2>4, <2>7 DEF SystemHasNoDesktop, Placed, Entry
  <2> QED BY <2>4, <2>5, <2>6, <2>7, <2>8 DEF OnLinux
<1>8. CASE LinuxWritten(t) /\ To(<< <<"must", "enable">> >>)
  <2>2. head = <<"must", "enable">> /\ <<>> \o Tail(switching.todo) = <<>>
    BY <1>8 DEF To
  <2>3. CallHelper /\ About = "enable"
    BY <1>2, <2>2
  <2>4. /\ Underway /\ StepDone /\ entry' = entry /\ unitEnabled' \in BOOLEAN
        /\ switching'.failed \/ unitEnabled'
    BY <2>2, <2>3, Helped
  <2>5. HooksOnly
    BY <1>1, <2>4, OnlyAHook
  <2>6. To(<<>>)'
    BY <2>2, <2>4 DEF To, StepDone
  <2>7. os' = os /\ LinuxWritten(t)'
    BY <1>8, <2>4 DEF Underway, LinuxWritten
  <2>8. SystemHasNoDesktop'
    BY <1>8, <2>4, <2>7 DEF SystemHasNoDesktop, Placed, Entry
  <2> QED BY <2>4, <2>5, <2>6, <2>7, <2>8 DEF OnLinux
<1>9. ~To(<<>>)
  BY <1>2 DEF To
<1> QED BY <1>4, <1>5, <1>6, <1>7, <1>8, <1>9 DEF OnLinux

LEMMA OnDarwinStep ==
  ASSUME SwitchRecord, AutostartTypeOK, OneStep,
         NEW t \in StartTarget, switching.target = t, OnDarwin(t)
  PROVE  OnDarwin(t)' /\ Underway /\ HooksOnly
<1> DEFINE head == Head(switching.todo)
           rest == << <<"must", "bootstrap">>, <<"must", "enable_label">> >>
<1>1. Hooks = {"plist"} /\ os = "darwin"
  BY DEF OnDarwin, Hooks
<1>2. /\ switching.todo # <<>> /\ (head[1] = "write" => WriteEntry) /\ (head[1] = "must" => CallHelper)
      /\ head[2] = About
  BY StepOfItsKind DEF About
<1>3. unitEnabled \in BOOLEAN
  BY DEF AutostartTypeOK
<1>4. CASE To(InstallSteps)
  <2>1. switching.todo = << <<"write", "plist">>, <<"must", "bootstrap">>, <<"must", "enable_label">> >>
    BY <1>1, <1>4 DEF To, InstallSteps
  <2>2. head = <<"write", "plist">> /\ <<>> \o Tail(switching.todo) = rest
    BY <2>1
  <2>3. WriteEntry /\ About = "plist"
    BY <1>2, <2>2
  <2>4. Underway /\ StepDone /\ Placed("plist", t) /\ unitEnabled' = unitEnabled
    BY <2>3, Written DEF Entry
  <2>5. HooksOnly
    BY <1>1, <1>3, <2>4, OnlyAHook
  <2>6. To(rest)' /\ os' = "darwin" /\ entry'["plist"] = t
    BY <1>1, <2>2, <2>4 DEF To, StepDone, Underway, Placed
  <2> QED BY <2>4, <2>5, <2>6 DEF OnDarwin
<1>5. CASE entry["plist"] = t /\ (To(rest) \/ To(<< <<"must", "enable_label">> >>))
  <2>1. /\ head[1] = "must"
        /\ To(rest) => <<>> \o Tail(switching.todo) = << <<"must", "enable_label">> >>
        /\ To(<< <<"must", "enable_label">> >>) => <<>> \o Tail(switching.todo) = <<>>
    <3>1. CASE To(rest)
      <4>1. head = <<"must", "bootstrap">> /\ <<>> \o Tail(switching.todo) = << <<"must", "enable_label">> >>
        BY <3>1 DEF To
      <4> QED BY <3>1, <4>1 DEF To
    <3>2. CASE To(<< <<"must", "enable_label">> >>)
      <4>1. head = <<"must", "enable_label">> /\ <<>> \o Tail(switching.todo) = <<>>
        BY <3>2 DEF To
      <4> QED BY <3>2, <4>1 DEF To
    <3> QED BY <1>5, <3>1, <3>2
  <2>2. CallHelper
    BY <1>2, <2>1
  <2>3. Underway /\ StepDone /\ entry' = entry /\ unitEnabled' \in BOOLEAN
    BY <2>2, Helped
  <2>4. HooksOnly
    BY <1>1, <2>3, OnlyAHook
  <2>5. To(<< <<"must", "enable_label">> >>)' \/ To(<<>>)'
    BY <1>5, <2>1, <2>3 DEF To, StepDone
  <2>6. os' = "darwin" /\ entry'["plist"] = t
    BY <1>1, <1>5, <2>3 DEF Underway
  <2> QED BY <2>3, <2>4, <2>5, <2>6 DEF OnDarwin
<1>6. ~To(<<>>)
  BY <1>2 DEF To
<1> QED BY <1>4, <1>5, <1>6 DEF OnDarwin

LEMMA OnWindowsStep ==
  ASSUME SwitchRecord, AutostartTypeOK, OneStep,
         NEW t \in StartTarget, switching.target = t, OnWindows(t)
  PROVE  OnWindows(t)' /\ Underway /\ HooksOnly
<1> DEFINE head == Head(switching.todo)
<1>1. Hooks = {"task", "script", "run_key"} /\ os = "win32"
  BY DEF OnWindows, Hooks
<1>2. /\ switching.todo # <<>> /\ (head[1] = "write" => WriteEntry)
      /\ (head[1] = "register" => CallScheduler) /\ (head[1] = "try" => CallReg)
      /\ head[2] = About
  BY StepOfItsKind DEF About
<1>3. unitEnabled \in BOOLEAN
  BY DEF AutostartTypeOK
<1>4. CASE To(InstallSteps)
  <2>1. switching.todo = << <<"register", "task">> >>
    BY <1>1, <1>4 DEF To, InstallSteps
  <2>2. /\ head = <<"register", "task">> /\ <<>> \o Tail(switching.todo) = <<>>
        /\ FallbackSteps \o Tail(switching.todo) = FallbackSteps
    BY <2>1 DEF FallbackSteps
  <2>3. CallScheduler /\ head[1] # "unregister"
    BY <1>2, <2>2
  <2>4. /\ Underway /\ unitEnabled' = unitEnabled
        /\ \/ StepDone /\ Placed("task", t)
           \/ entry' = entry /\ switching'.todo = FallbackSteps \o Tail(switching.todo)
    BY <2>3, Scheduled
  <2>5. HooksOnly
    BY <1>1, <1>3, <2>4, OnlyAHook
  <2>6. (To(<<>>)' /\ entry'["task"] = t) \/ To(FallbackSteps)'
    BY <2>2, <2>4 DEF To, StepDone, Placed, FallbackSteps
  <2>7. os' = "win32"
    BY <1>1, <2>4 DEF Underway
  <2> QED BY <2>4, <2>5, <2>6, <2>7 DEF OnWindows
<1>5. CASE To(FallbackSteps)
  <2>1. switching.todo = << <<"write", "script">>, <<"try", "run_key">> >>
    BY <1>5 DEF To, FallbackSteps
  <2>2. head = <<"write", "script">> /\ <<>> \o Tail(switching.todo) = << <<"try", "run_key">> >>
    BY <2>1
  <2>3. WriteEntry /\ About = "script"
    BY <1>2, <2>2
  <2>4. Underway /\ StepDone /\ Placed("script", t) /\ unitEnabled' = unitEnabled
    BY <2>3, Written DEF Entry
  <2>5. HooksOnly
    BY <1>1, <1>3, <2>4, OnlyAHook
  <2>6. To(<< <<"try", "run_key">> >>)' /\ os' = "win32" /\ entry'["script"] = t
    BY <1>1, <2>2, <2>4 DEF To, StepDone, Underway, Placed
  <2> QED BY <2>4, <2>5, <2>6 DEF OnWindows
<1>6. CASE entry["script"] = t /\ To(<< <<"try", "run_key">> >>)
  <2>1. switching.todo = << <<"try", "run_key">> >>
    BY <1>6 DEF To
  <2>2. head = <<"try", "run_key">> /\ <<>> \o Tail(switching.todo) = <<>>
    BY <2>1
  <2>3. CallReg
    BY <1>2, <2>2
  <2>4. /\ Underway /\ StepDone /\ unitEnabled' = unitEnabled
        /\ entry' = entry \/ Placed("run_key", t)
    BY <2>3, RunKeyCalled
  <2>5. HooksOnly
    BY <1>1, <1>3, <2>4, OnlyAHook
  <2>6. To(<<>>)' /\ os' = "win32" /\ entry'["script"] = t
    BY <1>1, <1>6, <2>2, <2>4 DEF To, StepDone, Underway, Placed, Entry
  <2> QED BY <2>4, <2>5, <2>6 DEF OnWindows
<1>7. ~To(<<>>)
  BY <1>2 DEF To
<1> QED BY <1>4, <1>5, <1>6, <1>7 DEF OnWindows

LEMMA OnWslStep ==
  ASSUME SwitchRecord, AutostartTypeOK, OneStep,
         NEW t \in StartTarget, switching.target = t, OnWsl(t)
  PROVE  OnWsl(t)' /\ Underway /\ HooksOnly
<1> DEFINE head == Head(switching.todo)
<1>1. Hooks = {"wsl_script"} /\ os = "wsl"
  BY DEF OnWsl, Hooks
<1>2. switching.todo # <<>> /\ (head[1] = "write_or_fail" => ReachWindows)
  BY StepOfItsKind
<1>3. unitEnabled \in BOOLEAN
  BY DEF AutostartTypeOK
<1>4. To(InstallSteps)
  BY <1>2 DEF OnWsl, To
<1>5. switching.todo = << <<"write_or_fail", "wsl_script">> >>
  BY <1>1, <1>4 DEF To, InstallSteps
<1>6. head = <<"write_or_fail", "wsl_script">> /\ Tail(switching.todo) = <<>>
  BY <1>5
<1>7. /\ Underway /\ switching'.todo = Tail(switching.todo) /\ unitEnabled' = unitEnabled
      /\ Placed("wsl_script", t) \/ (entry' = entry /\ switching'.failed)
  BY <1>2, <1>6, WindowsReached
<1>8. HooksOnly
  BY <1>1, <1>3, <1>7, OnlyAHook
<1>9. To(<<>>)' /\ os' = "wsl" /\ (switching'.failed \/ entry'["wsl_script"] = t)
  BY <1>1, <1>6, <1>7 DEF To, Underway, Placed
<1> QED BY <1>7, <1>8, <1>9 DEF OnWsl

LEMMA OffLinuxStep ==
  ASSUME SwitchRecord, AutostartTypeOK, SystemHasNoDesktop, OneStep, OffLinux
  PROVE  OffLinux' /\ Underway /\ HooksOnly /\ SystemHasNoDesktop'
<1> DEFINE head == Head(switching.todo)
<1>1. Hooks = {"unit", "xdg"} /\ os \in {"linux_user", "linux_system"}
  BY DEF OffLinux, Hooks
<1>2. /\ switching.todo # <<>> /\ (head[1] \in {"must", "may"} => CallHelper)
      /\ (head[1] = "remove" => RemoveEntry) /\ head[2] = About
  BY StepOfItsKind DEF About
<1>3. RemoveEntry => unitEnabled' = unitEnabled /\ unitEnabled' \in BOOLEAN
  BY DEF RemoveEntry, AutostartTypeOK
<1>4. CASE To(UninstallSteps)
  <2>1. switching.todo = << <<"must", "disable">>, <<"remove", "unit">>, <<"remove", "xdg">>, <<"may", "reload">> >>
    BY <1>1, <1>4 DEF To, UninstallSteps
  <2>2. /\ head = <<"must", "disable">>
        /\ <<>> \o Tail(switching.todo) = << <<"remove", "unit">>, <<"remove", "xdg">>, <<"may", "reload">> >>
    BY <2>1
  <2>3. CallHelper
    BY <1>2, <2>2
  <2>4. Underway /\ StepDone /\ entry' = entry /\ unitEnabled' \in BOOLEAN
    BY <2>3, Helped
  <2>5. HooksOnly
    BY <1>1, <2>4, OnlyAHook
  <2>6. To(<< <<"remove", "unit">>, <<"remove", "xdg">>, <<"may", "reload">> >>)' /\ os' = os
    BY <2>2, <2>4 DEF To, StepDone, Underway
  <2>7. SystemHasNoDesktop'
    BY <2>4, <2>6 DEF SystemHasNoDesktop, Placed, Entry
  <2> QED BY <1>1, <2>4, <2>5, <2>6, <2>7 DEF OffLinux
<1>5. CASE To(<< <<"remove", "unit">>, <<"remove", "xdg">>, <<"may", "reload">> >>)
  <2>1. switching.todo = << <<"remove", "unit">>, <<"remove", "xdg">>, <<"may", "reload">> >>
    BY <1>5 DEF To
  <2>2. /\ head = <<"remove", "unit">>
        /\ <<>> \o Tail(switching.todo) = << <<"remove", "xdg">>, <<"may", "reload">> >>
    BY <2>1
  <2>3. RemoveEntry /\ About = "unit"
    BY <1>2, <2>2
  <2>4. Underway /\ StepDone /\ Placed("unit", NoTarget)
    BY <2>3, Removed DEF Entry
  <2>5. HooksOnly
    BY <1>1, <1>3, <2>3, <2>4, OnlyAHook
  <2>6. To(<< <<"remove", "xdg">>, <<"may", "reload">> >>)' /\ os' = os /\ entry'["unit"] = NoTarget
    BY <2>2, <2>4 DEF To, StepDone, Underway, Placed
  <2>7. SystemHasNoDesktop'
    BY <2>4, <2>6 DEF SystemHasNoDesktop, Placed, Entry
  <2> QED BY <1>1, <2>4, <2>5, <2>6, <2>7 DEF OffLinux
<1>6. CASE entry["unit"] = NoTarget /\ To(<< <<"remove", "xdg">>, <<"may", "reload">> >>)
  <2>1. switching.todo = << <<"remove", "xdg">>, <<"may", "reload">> >>
    BY <1>6 DEF To
  <2>2. head = <<"remove", "xdg">> /\ <<>> \o Tail(switching.todo) = << <<"may", "reload">> >>
    BY <2>1
  <2>3. RemoveEntry /\ About = "xdg"
    BY <1>2, <2>2
  <2>4. Underway /\ StepDone /\ Placed("xdg", NoTarget)
    BY <2>3, Removed DEF Entry
  <2>5. HooksOnly
    BY <1>1, <1>3, <2>3, <2>4, OnlyAHook
  <2>6. /\ To(<< <<"may", "reload">> >>)' /\ os' = os
        /\ entry'["unit"] = NoTarget /\ entry'["xdg"] = NoTarget
    BY <1>6, <2>2, <2>4 DEF To, StepDone, Underway, Placed, Entry
  <2>7. SystemHasNoDesktop'
    BY <2>4, <2>6 DEF SystemHasNoDesktop, Placed, Entry
  <2> QED BY <1>1, <2>4, <2>5, <2>6, <2>7 DEF OffLinux
<1>7. CASE entry["unit"] = NoTarget /\ entry["xdg"] = NoTarget /\ To(<< <<"may", "reload">> >>)
  <2>1. switching.todo = << <<"may", "reload">> >>
    BY <1>7 DEF To
  <2>2. head = <<"may", "reload">> /\ <<>> \o Tail(switching.todo) = <<>>
    BY <2>1
  <2>3. CallHelper
    BY <1>2, <2>2
  <2>4. Underway /\ StepDone /\ entry' = entry /\ unitEnabled' \in BOOLEAN
    BY <2>3, Helped
  <2>5. HooksOnly
    BY <1>1, <2>4, OnlyAHook
  <2>6. To(<<>>)' /\ os' = os /\ entry'["unit"] = NoTarget /\ entry'["xdg"] = NoTarget
    BY <1>7, <2>2, <2>4 DEF To, StepDone, Underway
  <2>7. SystemHasNoDesktop'
    BY <2>4, <2>6 DEF SystemHasNoDesktop, Placed, Entry
  <2> QED BY <1>1, <2>4, <2>5, <2>6, <2>7 DEF OffLinux
<1>8. ~To(<<>>)
  BY <1>2 DEF To
<1> QED BY <1>4, <1>5, <1>6, <1>7, <1>8 DEF OffLinux

LEMMA OffDarwinStep ==
  ASSUME SwitchRecord, AutostartTypeOK, OneStep, OffDarwin
  PROVE  OffDarwin' /\ Underway /\ HooksOnly
<1> DEFINE head == Head(switching.todo)
<1>1. Hooks = {"plist"} /\ os = "darwin"
  BY DEF OffDarwin, Hooks
<1>2. switching.todo # <<>> /\ (head[1] = "remove" => RemoveEntry) /\ head[2] = About
  BY StepOfItsKind DEF About
<1>3. RemoveEntry => unitEnabled' = unitEnabled /\ unitEnabled' \in BOOLEAN
  BY DEF RemoveEntry, AutostartTypeOK
<1>4. To(UninstallSteps)
  BY <1>2 DEF OffDarwin, To
<1>5. switching.todo = << <<"remove", "plist">> >>
  BY <1>1, <1>4 DEF To, UninstallSteps
<1>6. head = <<"remove", "plist">> /\ <<>> \o Tail(switching.todo) = <<>>
  BY <1>5
<1>7. RemoveEntry /\ About = "plist"
  BY <1>2, <1>6
<1>8. Underway /\ StepDone /\ Placed("plist", NoTarget)
  BY <1>7, Removed DEF Entry
<1>9. HooksOnly
  BY <1>1, <1>3, <1>7, <1>8, OnlyAHook
<1>10. To(<<>>)' /\ os' = "darwin" /\ entry'["plist"] = NoTarget
  BY <1>1, <1>6, <1>8 DEF To, StepDone, Underway, Placed
<1> QED BY <1>8, <1>9, <1>10 DEF OffDarwin

LEMMA OffWindowsStep ==
  ASSUME SwitchRecord, AutostartTypeOK, OneStep, switching.target = NoTarget, OffWindows
  PROVE  OffWindows' /\ Underway /\ HooksOnly
<1> DEFINE head == Head(switching.todo)
<1>1. Hooks = {"task", "script", "run_key"} /\ os = "win32"
  BY DEF OffWindows, Hooks
<1>2. /\ switching.todo # <<>> /\ (head[1] = "remove" => RemoveEntry) /\ head[2] = About
      /\ (head[1] = "unregister" => CallScheduler) /\ (head[1] = "drop" => CallReg)
  BY StepOfItsKind DEF About
<1>3. unitEnabled \in BOOLEAN
  BY DEF AutostartTypeOK
<1>4. CASE To(UninstallSteps)
  <2>1. switching.todo = << <<"unregister", "task">>, <<"remove", "script">>, <<"drop", "run_key">> >>
    BY <1>1, <1>4 DEF To, UninstallSteps
  <2>2. /\ head = <<"unregister", "task">>
        /\ <<>> \o Tail(switching.todo) = << <<"remove", "script">>, <<"drop", "run_key">> >>
    BY <2>1
  <2>3. CallScheduler /\ head[1] # "register"
    BY <1>2, <2>2
  <2>4. /\ Underway /\ unitEnabled' = unitEnabled /\ StepDone
        /\ Placed("task", NoTarget) \/ (entry' = entry /\ switching'.failed)
    BY <2>3, Scheduled
  <2>5. HooksOnly
    BY <1>1, <1>3, <2>4, OnlyAHook
  <2>6. /\ To(<< <<"remove", "script">>, <<"drop", "run_key">> >>)' /\ os' = "win32"
        /\ switching'.failed \/ entry'["task"] = NoTarget
    BY <1>1, <2>2, <2>4 DEF To, StepDone, Underway, Placed
  <2> QED BY <2>4, <2>5, <2>6 DEF OffWindows
<1>5. CASE /\ switching.failed \/ entry["task"] = NoTarget
           /\ To(<< <<"remove", "script">>, <<"drop", "run_key">> >>)
  <2>1. switching.todo = << <<"remove", "script">>, <<"drop", "run_key">> >>
    BY <1>5 DEF To
  <2>2. /\ head = <<"remove", "script">>
        /\ <<>> \o Tail(switching.todo) = << <<"drop", "run_key">> >>
    BY <2>1
  <2>3. RemoveEntry /\ About = "script"
    BY <1>2, <2>2
  <2>4. /\ Underway /\ StepDone /\ Placed("script", NoTarget)
        /\ switching'.failed = switching.failed /\ unitEnabled' = unitEnabled
    BY <2>3, Removed DEF Entry, RemoveEntry
  <2>5. HooksOnly
    BY <1>1, <1>3, <2>4, OnlyAHook
  <2>6. To(<< <<"drop", "run_key">> >>)' /\ os' = "win32"
    BY <1>1, <2>2, <2>4 DEF To, StepDone, Underway
  <2>7. StartupGone'
    BY <1>5, <2>4 DEF StartupGone, Placed, Entry
  <2> QED BY <2>4, <2>5, <2>6, <2>7 DEF OffWindows
<1>6. CASE StartupGone /\ To(<< <<"drop", "run_key">> >>)
  <2>1. switching.todo = << <<"drop", "run_key">> >>
    BY <1>6 DEF To
  <2>2. head = <<"drop", "run_key">> /\ <<>> \o Tail(switching.todo) = <<>>
    BY <2>1
  <2>3. CallReg
    BY <1>2, <2>2
  <2>4. /\ Underway /\ StepDone /\ unitEnabled' = unitEnabled /\ switching'.failed = switching.failed
        /\ entry' = entry \/ Placed("run_key", NoTarget)
    BY <2>3, RunKeyCalled
  <2>5. HooksOnly
    BY <1>1, <1>3, <2>4, OnlyAHook
  <2>6. To(<<>>)' /\ os' = "win32"
    BY <1>1, <2>2, <2>4 DEF To, StepDone, Underway
  <2>7. StartupGone'
    BY <1>6, <2>4 DEF StartupGone, Placed, Entry
  <2> QED BY <2>4, <2>5, <2>6, <2>7 DEF OffWindows
<1>7. ~To(<<>>)
  BY <1>2 DEF To
<1> QED BY <1>4, <1>5, <1>6, <1>7 DEF OffWindows

LEMMA OffWslStep ==
  ASSUME SwitchRecord, AutostartTypeOK, OneStep, switching.target = NoTarget, OffWsl
  PROVE  OffWsl' /\ Underway /\ HooksOnly
<1> DEFINE head == Head(switching.todo)
<1>1. Hooks = {"wsl_script"} /\ os = "wsl"
  BY DEF OffWsl, Hooks
<1>2. switching.todo # <<>> /\ (head[1] = "remove_if_found" => ReachWindows)
  BY StepOfItsKind
<1>3. unitEnabled \in BOOLEAN
  BY DEF AutostartTypeOK
<1>4. To(UninstallSteps)
  BY <1>2 DEF OffWsl, To
<1>5. switching.todo = << <<"remove_if_found", "wsl_script">> >>
  BY <1>1, <1>4 DEF To, UninstallSteps
<1>6. head = <<"remove_if_found", "wsl_script">> /\ Tail(switching.todo) = <<>>
  BY <1>5
<1>7. /\ Underway /\ switching'.todo = Tail(switching.todo) /\ unitEnabled' = unitEnabled
      /\ Placed("wsl_script", NoTarget) \/ (entry' = entry /\ switching'.lost)
  BY <1>2, <1>6, WindowsReached
<1>8. HooksOnly
  BY <1>1, <1>3, <1>7, OnlyAHook
<1>9. To(<<>>)' /\ os' = "wsl" /\ (switching'.lost \/ entry'["wsl_script"] = NoTarget)
  BY <1>1, <1>6, <1>7 DEF To, Underway, Placed
<1> QED BY <1>7, <1>8, <1>9 DEF OffWsl

(* What is there when the last step is done. *)
LEMMA OnDone ==
  ASSUME NEW t \in StartTarget, To(<<>>), ~switching.failed,
         OnLinux(t) \/ OnDarwin(t) \/ OnWindows(t) \/ OnWsl(t)
  PROVE  \/ os \in {"linux_user", "linux_system"} /\ LinuxWritten(t) /\ unitEnabled
         \/ os = "darwin" /\ entry["plist"] = t
         \/ os = "win32" /\ t \in {entry["task"], entry["script"]}
         \/ os = "wsl" /\ entry["wsl_script"] = t
<1>1. /\ ~To(<< <<"write", "xdg">>, <<"must", "reload">>, <<"must", "enable">> >>)
      /\ ~To(<< <<"must", "reload">>, <<"must", "enable">> >>) /\ ~To(<< <<"must", "enable">> >>)
      /\ ~To(<< <<"must", "bootstrap">>, <<"must", "enable_label">> >>)
      /\ ~To(<< <<"must", "enable_label">> >>) /\ ~To(<< <<"try", "run_key">> >>)
  BY DEF To
<1>2. ~To(FallbackSteps)
  BY DEF To, FallbackSteps
<1>3. os \in {"linux_user", "linux_system", "darwin", "win32", "wsl"}
  BY DEF OnLinux, OnDarwin, OnWindows, OnWsl
<1>4. InstallSteps # <<>>
  <2>1. /\ << <<"write", "unit">>, <<"write", "xdg">>, <<"must", "reload">>, <<"must", "enable">> >> # <<>>
        /\ << <<"write", "unit">>, <<"must", "reload">>, <<"must", "enable">> >> # <<>>
        /\ << <<"write", "plist">>, <<"must", "bootstrap">>, <<"must", "enable_label">> >> # <<>>
        /\ << <<"register", "task">> >> # <<>>
        /\ << <<"write_or_fail", "wsl_script">> >> # <<>>
    OBVIOUS
  <2> QED BY <1>3, <2>1 DEF InstallSteps
<1>5. ~To(InstallSteps)
  BY <1>4 DEF To
<1> QED BY <1>1, <1>2, <1>5 DEF OnLinux, OnDarwin, OnWindows, OnWsl

LEMMA OffDone ==
  ASSUME To(<<>>), OffLinux \/ OffDarwin \/ OffWindows \/ OffWsl
  PROVE  \/ /\ os \in {"linux_user", "linux_system"}
            /\ entry["unit"] = NoTarget /\ entry["xdg"] = NoTarget
         \/ os = "darwin" /\ entry["plist"] = NoTarget
         \/ os = "win32" /\ StartupGone
         \/ os = "wsl" /\ (switching.lost \/ entry["wsl_script"] = NoTarget)
<1>1. /\ ~To(<< <<"remove", "unit">>, <<"remove", "xdg">>, <<"may", "reload">> >>)
      /\ ~To(<< <<"remove", "xdg">>, <<"may", "reload">> >>)
      /\ ~To(<< <<"may", "reload">> >>)
      /\ ~To(<< <<"remove", "script">>, <<"drop", "run_key">> >>) /\ ~To(<< <<"drop", "run_key">> >>)
  BY DEF To
<1>2. os \in {"linux_user", "linux_system", "darwin", "win32", "wsl"}
  BY DEF OffLinux, OffDarwin, OffWindows, OffWsl
<1>3. UninstallSteps # <<>>
  <2>1. /\ << <<"must", "disable">>, <<"remove", "unit">>, <<"remove", "xdg">>, <<"may", "reload">> >> # <<>>
        /\ << <<"remove", "plist">> >> # <<>>
        /\ << <<"unregister", "task">>, <<"remove", "script">>, <<"drop", "run_key">> >> # <<>>
        /\ << <<"remove_if_found", "wsl_script">> >> # <<>>
    OBVIOUS
  <2> QED BY <1>2, <2>1 DEF UninstallSteps
<1>4. ~To(UninstallSteps)
  BY <1>3 DEF To
<1> QED BY <1>1, <1>4 DEF OffLinux, OffDarwin, OffWindows, OffWsl

LEMMA WhatTheLoginStarts ==
  ASSUME AutostartTypeOK, \A e \in Entry \ Hooks : entry[e] = NoTarget
  PROVE  /\ AtLogin = {entry[e] : e \in {x \in Hooks \ {"run_key"} : x = "unit" => unitEnabled}} \ {NoTarget}
         /\ Found(TRUE) = {e \in Hooks : entry[e] # NoTarget}
<1>1. Hooks \subseteq Entry
  BY DEF AutostartTypeOK, System, Hooks, Entry
<1> QED BY <1>1 DEF AtLogin, Found

LEMMA OnAnswersTruly ==
  ASSUME AutostartTypeOK, SystemHasNoDesktop, \A e \in Entry \ Hooks : entry[e] = NoTarget,
         NEW t \in StartTarget, To(<<>>), ~switching.failed,
         OnLinux(t) \/ OnDarwin(t) \/ OnWindows(t) \/ OnWsl(t)
  PROVE  /\ t \in AtLogin /\ (os # "win32" => AtLogin = {t})
         /\ Found(TRUE) # {}
         /\ os # "win32" \/ entry["script"] \in {NoTarget, StarterTarget} =>
              (t = StarterTarget => HookIsCurrent(TRUE, TRUE))
         /\ os # "win32" /\ t # StarterTarget => ~HookIsCurrent(TRUE, TRUE)
<1>1. /\ AtLogin = {entry[e] : e \in {x \in Hooks \ {"run_key"} : x = "unit" => unitEnabled}} \ {NoTarget}
      /\ Found(TRUE) = {e \in Hooks : entry[e] # NoTarget}
  BY WhatTheLoginStarts
<1>2. t # NoTarget
  BY AutostartAssumption
<1>3. StaleHooks(TRUE, TRUE) = {e \in Found(TRUE) \ {"task", "run_key"} : entry[e] # StarterTarget}
  BY DEF StaleHooks, Queried
<1>4. CASE os \in {"linux_user", "linux_system"} /\ LinuxWritten(t) /\ unitEnabled
  <2>1. Hooks = {"unit", "xdg"}
    BY <1>4 DEF Hooks
  <2>2. entry["unit"] = t /\ entry["xdg"] \in {t, NoTarget}
    BY <1>4 DEF LinuxWritten, SystemHasNoDesktop
  <2>3. AtLogin = {t}
    BY <1>1, <1>2, <1>4, <2>1, <2>2
  <2>4. "unit" \in Found(TRUE) /\ \A e \in Found(TRUE) : entry[e] = t
    BY <1>1, <1>2, <2>1, <2>2
  <2> QED BY <1>3, <1>4, <2>3, <2>4 DEF HookIsCurrent
<1>5. CASE os = "darwin" /\ entry["plist"] = t
  <2>1. Hooks = {"plist"}
    BY <1>5 DEF Hooks
  <2>2. AtLogin = {t} /\ Found(TRUE) = {"plist"}
    BY <1>1, <1>2, <1>5, <2>1
  <2> QED BY <1>3, <1>5, <2>2 DEF HookIsCurrent
<1>6. CASE os = "win32" /\ t \in {entry["task"], entry["script"]}
  <2>1. Hooks = {"task", "script", "run_key"}
    BY <1>6 DEF Hooks
  <2>2. t \in AtLogin /\ Found(TRUE) # {}
    <3>1. PICK e \in {"task", "script"} : entry[e] = t
      BY <1>6
    <3>2. e \in {x \in Hooks \ {"run_key"} : x = "unit" => unitEnabled}
      BY <2>1, <3>1
    <3> QED BY <1>1, <1>2, <3>1, <3>2
  <2>3. Found(TRUE) \ {"task", "run_key"} \subseteq {"script"}
    BY <1>1, <2>1
  <2>4. entry["script"] \in {NoTarget, StarterTarget} => StaleHooks(TRUE, TRUE) = {}
    BY <1>1, <1>3, <2>3
  <2> QED BY <1>6, <2>2, <2>4 DEF HookIsCurrent
<1>7. CASE os = "wsl" /\ entry["wsl_script"] = t
  <2>1. Hooks = {"wsl_script"}
    BY <1>7 DEF Hooks
  <2>2. AtLogin = {t} /\ Found(TRUE) = {"wsl_script"}
    BY <1>1, <1>2, <1>7, <2>1
  <2> QED BY <1>3, <1>7, <2>2 DEF HookIsCurrent
<1> QED BY <1>4, <1>5, <1>6, <1>7, OnDone

LEMMA OffAnswersTruly ==
  ASSUME AutostartTypeOK, \A e \in Entry \ Hooks : entry[e] = NoTarget,
         To(<<>>), ~switching.failed, OffLinux \/ OffDarwin \/ OffWindows \/ OffWsl
  PROVE  switching.lost \/ (AtLogin = {} /\ Found(TRUE) \subseteq {"run_key"})
<1>1. /\ AtLogin = {entry[e] : e \in {x \in Hooks \ {"run_key"} : x = "unit" => unitEnabled}} \ {NoTarget}
      /\ Found(TRUE) = {e \in Hooks : entry[e] # NoTarget}
  BY WhatTheLoginStarts
<1>2. switching.lost \/ \A e \in Hooks \ {"run_key"} : entry[e] = NoTarget
  BY OffDone DEF Hooks, StartupGone
<1> QED BY <1>1, <1>2

-----------------------------------------------------------------------------

LEMMA SameAnswers ==
  ASSUME AutostartAnswersTrue, os' = os, entry' = entry, unitEnabled' = unitEnabled, answered' = answered
  PROVE  AutostartAnswersTrue'
BY DEF AutostartAnswersTrue, AnswersAreTrue, AuditAgrees, AtLogin, Found, StaleHooks, HookIsCurrent, Hooks

LEMMA NoAnswerIsTrue ==
  ASSUME answered = NoAnswer PROVE AutostartAnswersTrue
BY DEF NoAnswer, AutostartAnswersTrue, AnswersAreTrue, AuditAgrees

LEMMA AutostartInitOK ==
  ASSUME AutostartInit PROVE AutostartIInv
<1>1. AutostartTypeOK /\ SystemHasNoDesktop /\ \A e \in Entry \ Hooks : entry[e] = NoTarget
  BY DEF AutostartInit, AutostartTypeOK, SystemHasNoDesktop, Entry
<1>2. AutostartAnswersTrue
  BY NoAnswerIsTrue DEF AutostartInit
<1> QED BY <1>1, <1>2 DEF AutostartInit, AutostartIInv

LEMMA StepKeeps ==
  ASSUME AutostartIInv, switching # NotSwitching, OneStep
  PROVE  AutostartIInv'
<1>1. AutostartTypeOK /\ SystemHasNoDesktop /\ SwitchRecord /\ answered = NoAnswer
  BY DEF AutostartIInv, SwitchOnItsWay
<1>2. \A e \in Entry \ Hooks : entry[e] = NoTarget
  BY DEF AutostartIInv
<1>3. ASSUME Underway, HooksOnly, SystemHasNoDesktop', SwitchOnItsWay' PROVE AutostartIInv'
  <2>1. answered' = NoAnswer
    BY <1>1, <1>3 DEF Underway
  <2>2. AutostartAnswersTrue'
    BY <2>1 DEF NoAnswer, AutostartAnswersTrue, AnswersAreTrue, AuditAgrees
  <2>3. Hooks' = Hooks
    BY <1>3 DEF Underway, Hooks
  <2>4. (\A e \in Entry \ Hooks : entry[e] = NoTarget)'
    BY <1>2, <1>3, <2>3 DEF HooksOnly
  <2> QED BY <1>3, <2>2, <2>4 DEF AutostartIInv, HooksOnly
<1>4. CASE /\ switching.cmd = "on" /\ switching.target \in StartTarget
           /\ OnLinux(switching.target) \/ OnDarwin(switching.target)
              \/ OnWindows(switching.target) \/ OnWsl(switching.target)
  <2>1. PICK t \in StartTarget : switching.target = t
    BY <1>4
  <2>2. OnLinux(t) \/ OnDarwin(t) \/ OnWindows(t) \/ OnWsl(t)
    BY <1>4, <2>1
  <2>3. /\ Underway /\ HooksOnly /\ SystemHasNoDesktop'
        /\ OnLinux(t)' \/ OnDarwin(t)' \/ OnWindows(t)' \/ OnWsl(t)'
    <3>1. CASE OnLinux(t)
      BY <1>1, <2>1, <3>1, OnLinuxStep
    <3>2. CASE OnDarwin(t)
      BY <1>1, <2>1, <3>2, OnDarwinStep DEF OnDarwin, SystemHasNoDesktop
    <3>3. CASE OnWindows(t)
      BY <1>1, <2>1, <3>3, OnWindowsStep DEF OnWindows, SystemHasNoDesktop
    <3>4. CASE OnWsl(t)
      BY <1>1, <2>1, <3>4, OnWslStep DEF OnWsl, SystemHasNoDesktop
    <3> QED BY <2>2, <3>1, <3>2, <3>3, <3>4
  <2>4. /\ answered' = NoAnswer /\ SwitchRecord' /\ switching'.cmd = "on" /\ switching'.target = t
    BY <1>1, <1>4, <2>1, <2>3 DEF Underway
  <2>5. SwitchOnItsWay'
    BY <2>3, <2>4 DEF SwitchOnItsWay
  <2> QED BY <1>3, <2>3, <2>5
<1>5. CASE /\ switching.cmd = "off" /\ switching.target = NoTarget
           /\ OffLinux \/ OffDarwin \/ OffWindows \/ OffWsl
  <2>1. /\ Underway /\ HooksOnly /\ SystemHasNoDesktop'
        /\ OffLinux' \/ OffDarwin' \/ OffWindows' \/ OffWsl'
    <3>1. CASE OffLinux
      BY <1>1, <3>1, OffLinuxStep
    <3>2. CASE OffDarwin
      BY <1>1, <3>2, OffDarwinStep DEF OffDarwin, SystemHasNoDesktop
    <3>3. CASE OffWindows
      BY <1>1, <1>5, <3>3, OffWindowsStep DEF OffWindows, SystemHasNoDesktop
    <3>4. CASE OffWsl
      BY <1>1, <1>5, <3>4, OffWslStep DEF OffWsl, SystemHasNoDesktop
    <3> QED BY <1>5, <3>1, <3>2, <3>3, <3>4
  <2>2. /\ answered' = NoAnswer /\ SwitchRecord' /\ switching'.cmd = "off" /\ switching'.target = NoTarget
    BY <1>1, <1>5, <2>1 DEF Underway
  <2>3. SwitchOnItsWay'
    BY <2>1, <2>2 DEF SwitchOnItsWay
  <2> QED BY <1>3, <2>1, <2>3
<1> QED BY <1>4, <1>5 DEF AutostartIInv, SwitchOnItsWay

LEMMA StartKeeps ==
  ASSUME AutostartIInv, NEW cmd, NEW target, NEW steps, Switch(cmd, target, steps),
         \/ cmd = "on" /\ target \in StartTarget /\ steps = InstallSteps
         \/ cmd = "off" /\ target = NoTarget /\ steps = UninstallSteps
  PROVE  AutostartIInv'
<1>1. /\ switching' = [cmd |-> cmd, target |-> target, todo |-> steps, failed |-> FALSE, lost |-> FALSE]
      /\ answered' = NoAnswer /\ os' = os /\ entry' = entry /\ unitEnabled' = unitEnabled
  BY DEF Switch
<1>2. /\ AutostartTypeOK' /\ SystemHasNoDesktop'
      /\ (\A e \in Entry \ Hooks : entry[e] = NoTarget)'
  BY <1>1 DEF AutostartIInv, AutostartTypeOK, SystemHasNoDesktop, Hooks
<1>3. AutostartAnswersTrue'
  BY <1>1 DEF NoAnswer, AutostartAnswersTrue, AnswersAreTrue, AuditAgrees
<1>4. /\ switching'.cmd = cmd /\ switching'.target = target /\ switching'.todo = steps
      /\ switching'.failed = FALSE /\ switching'.lost = FALSE
  BY <1>1
<1>5. SwitchRecord'
  BY <1>1, <1>4 DEF SwitchRecord
<1>6. os' \in {"linux_user", "linux_system", "darwin", "win32", "wsl"}
  BY <1>2 DEF AutostartTypeOK, System
<1>7. InstallSteps' = InstallSteps /\ UninstallSteps' = UninstallSteps
  BY <1>1 DEF InstallSteps, UninstallSteps
<1>8. CASE cmd = "on" /\ target \in StartTarget /\ steps = InstallSteps
  <2>1. To(InstallSteps)'
    BY <1>4, <1>7, <1>8 DEF To
  <2>2. OnLinux(target)' \/ OnDarwin(target)' \/ OnWindows(target)' \/ OnWsl(target)'
    BY <1>6, <2>1 DEF OnLinux, OnDarwin, OnWindows, OnWsl
  <2>3. SwitchOnItsWay'
    BY <1>1, <1>4, <1>5, <1>8, <2>2 DEF SwitchOnItsWay
  <2> QED BY <1>2, <1>3, <2>3 DEF AutostartIInv
<1>9. CASE cmd = "off" /\ target = NoTarget /\ steps = UninstallSteps
  <2>1. To(UninstallSteps)'
    BY <1>4, <1>7, <1>9 DEF To
  <2>2. OffLinux' \/ OffDarwin' \/ OffWindows' \/ OffWsl'
    BY <1>6, <2>1 DEF OffLinux, OffDarwin, OffWindows, OffWsl
  <2>3. SwitchOnItsWay'
    BY <1>1, <1>4, <1>5, <1>9, <2>2 DEF SwitchOnItsWay
  <2> QED BY <1>2, <1>3, <2>3 DEF AutostartIInv
<1> QED BY <1>8, <1>9

LEMMA EndKeeps ==
  ASSUME AutostartIInv, EndSwitch PROVE AutostartIInv'
<1>1. /\ answered' = [cmd |-> switching.cmd, ok |-> ~switching.failed, target |-> switching.target,
                      lost |-> switching.lost]
      /\ switching' = NotSwitching /\ To(<<>>) /\ switching # NotSwitching
      /\ os' = os /\ entry' = entry /\ unitEnabled' = unitEnabled
  BY DEF EndSwitch, To
<1>2. /\ answered'.cmd = switching.cmd /\ answered'.ok = ~switching.failed
      /\ answered'.target = switching.target /\ answered'.lost = switching.lost
  BY <1>1
<1>3. /\ AutostartTypeOK' /\ SystemHasNoDesktop'
      /\ (\A e \in Entry \ Hooks : entry[e] = NoTarget)'
  BY <1>1 DEF AutostartIInv, AutostartTypeOK, SystemHasNoDesktop, Hooks
<1>4. /\ AtLogin' = AtLogin /\ Found(TRUE)' = Found(TRUE)
      /\ HookIsCurrent(TRUE, TRUE)' = HookIsCurrent(TRUE, TRUE)
  BY <1>1 DEF AtLogin, Found, HookIsCurrent, StaleHooks, Hooks
<1>5. /\ AutostartTypeOK /\ SystemHasNoDesktop /\ \A e \in Entry \ Hooks : entry[e] = NoTarget
      /\ SwitchOnItsWay
  BY <1>1 DEF AutostartIInv
<1>6. AutostartAnswersTrue'
  <2>1. CASE switching.failed
    BY <1>2, <2>1 DEF AutostartAnswersTrue, AnswersAreTrue, AuditAgrees
  <2>2. CASE ~switching.failed /\ switching.cmd = "on"
    <3>1. PICK t \in StartTarget : switching.target = t
      BY <1>5, <2>2 DEF SwitchOnItsWay
    <3>2. OnLinux(t) \/ OnDarwin(t) \/ OnWindows(t) \/ OnWsl(t)
      BY <1>5, <2>2, <3>1 DEF SwitchOnItsWay
    <3>3. /\ t \in AtLogin /\ (os # "win32" => AtLogin = {t})
          /\ Found(TRUE) # {}
          /\ os # "win32" \/ entry["script"] \in {NoTarget, StarterTarget} =>
               (t = StarterTarget => HookIsCurrent(TRUE, TRUE))
          /\ os # "win32" /\ t # StarterTarget => ~HookIsCurrent(TRUE, TRUE)
      BY <1>1, <1>5, <2>2, <3>2, OnAnswersTruly
    <3> QED BY <1>1, <1>2, <1>4, <2>2, <3>1, <3>3 DEF AutostartAnswersTrue, AnswersAreTrue, AuditAgrees
  <2>3. CASE ~switching.failed /\ switching.cmd = "off"
    <3>1. OffLinux \/ OffDarwin \/ OffWindows \/ OffWsl
      BY <1>5, <2>3 DEF SwitchOnItsWay
    <3>2. switching.lost \/ (AtLogin = {} /\ Found(TRUE) \subseteq {"run_key"})
      BY <1>1, <1>5, <2>3, <3>1, OffAnswersTruly
    <3> QED BY <1>2, <1>4, <2>3, <3>2 DEF AutostartAnswersTrue, AnswersAreTrue, AuditAgrees
  <2> QED BY <1>5, <2>1, <2>2, <2>3 DEF SwitchOnItsWay
<1> QED BY <1>1, <1>3, <1>6 DEF AutostartIInv

(* The inductive invariant holds in every reachable state. *)
LEMMA AutostartInductive == AutostartSpec => []AutostartIInv
<1>1. AutostartInit => AutostartIInv
  BY AutostartInitOK
<1>2. AutostartIInv /\ [AutostartNext]_autostart_vars => AutostartIInv'
  <2> SUFFICES ASSUME AutostartIInv, [AutostartNext]_autostart_vars PROVE AutostartIInv'
    OBVIOUS
  <2>1. CASE TurnOn
    <3>1. PICK t \in StartTarget : Switch("on", t, InstallSteps)
      BY <2>1 DEF TurnOn
    <3> QED BY <3>1, StartKeeps
  <2>2. CASE TurnOff
    BY <2>2, StartKeeps DEF TurnOff
  <2>3. CASE OneStep
    <3>1. switching # NotSwitching
      <4>1. switching.todo # <<>>
        BY <2>3, StepOfItsKind
      <4> QED BY <4>1 DEF NotSwitching
    <3> QED BY <2>3, <3>1, StepKeeps
  <2>4. CASE EndSwitch
    BY <2>4, EndKeeps
  <2>5. CASE KillSwitch
    <3>1. os' = os /\ entry' = entry /\ unitEnabled' = unitEnabled /\ answered' = answered
          /\ switching' = NotSwitching
      BY <2>5 DEF KillSwitch
    <3>2. AutostartAnswersTrue'
      BY <3>1, SameAnswers DEF AutostartIInv
    <3>3. /\ AutostartTypeOK' /\ SystemHasNoDesktop'
          /\ (\A e \in Entry \ Hooks : entry[e] = NoTarget)'
      BY <3>1 DEF AutostartIInv, AutostartTypeOK, SystemHasNoDesktop, Hooks
    <3> QED BY <3>1, <3>2, <3>3 DEF AutostartIInv
  <2>6. CASE UNCHANGED autostart_vars
    <3>1. os' = os /\ entry' = entry /\ unitEnabled' = unitEnabled /\ answered' = answered
          /\ switching' = switching
      BY <2>6 DEF autostart_vars
    <3>2. AutostartAnswersTrue'
      BY <3>1, SameAnswers DEF AutostartIInv
    <3>3. /\ AutostartTypeOK' /\ SystemHasNoDesktop'
          /\ (\A e \in Entry \ Hooks : entry[e] = NoTarget)'
      BY <3>1 DEF AutostartIInv, AutostartTypeOK, SystemHasNoDesktop, Hooks
    <3>4. SwitchOnItsWay' = SwitchOnItsWay
      BY <3>1 DEF SwitchOnItsWay, SwitchRecord, OnLinux, OnDarwin, OnWindows, OnWsl, To, LinuxWritten,
                  OffLinux, OffDarwin, OffWindows, OffWsl, StartupGone, InstallSteps, UninstallSteps
    <3> QED BY <3>1, <3>2, <3>3, <3>4 DEF AutostartIInv
  <2> QED BY <2>1, <2>2, <2>3, <2>4, <2>5, <2>6 DEF AutostartNext, OneStep
<1> QED BY <1>1, <1>2, PTL DEF AutostartSpec

(* Whatever earlier commands left, failed or killed half-way, an autostart *)
(* command that answers success is right about the next login, and the     *)
(* audit of `fix autostart` agrees with it: for any targets and any number *)
(* of commands and kills.                                                  *)
THEOREM AutostartAnswers == AutostartSpec => []AutostartAnswersTrue
<1>1. AutostartIInv => AutostartAnswersTrue
  BY DEF AutostartIInv
<1> QED BY <1>1, AutostartInductive, PTL

-----------------------------------------------------------------------------
(* The order in which modules are started and stopped.                     *)

(* A set of numbers that is not empty has a least one.                     *)
LEMMA LeastIsThere ==
  ASSUME NEW S, S \subseteq Nat, S # {}
  PROVE  \E least \in S : \A y \in S : least <= y
<1>1. PICK least \in S : \A b \in S : ~(<<b, least>> \in OpToRel(<, Nat))
  BY NatLessThanWellFounded, WFMin
<1>2. ASSUME NEW y \in S, y < least PROVE FALSE
  <2>1. <<y, least>> \in {ss \in Nat \X Nat : ss[1] < ss[2]}
    BY <1>2
  <2> QED BY <1>1, <2>1 DEF OpToRel
<1> QED BY <1>2

-----------------------------------------------------------------------------
(* Reachability over the needs of modules, and circles.                    *)

LEMMA ReachedFacts ==
  ASSUME NEW names \in SUBSET Name, NEW adds \in [Name -> SUBSET Name]
  PROVE  /\ names \subseteq Reached(names, adds) /\ Reached(names, adds) \subseteq Name
         /\ Closed(Reached(names, adds), adds)
         /\ \A set \in SUBSET Name : names \subseteq set /\ Closed(set, adds) => Reached(names, adds) \subseteq set
<1>1. /\ names \subseteq Reached(names, adds) /\ Reached(names, adds) \subseteq Name
      /\ \A set \in SUBSET Name : names \subseteq set /\ Closed(set, adds) => Reached(names, adds) \subseteq set
  BY DEF Reached
<1>2. ASSUME NEW m \in Reached(names, adds), NEW d \in adds[m]
      PROVE  d \in Reached(names, adds)
  <2>1. d \in Name /\ m \in Name
    BY <1>1
  <2>2. ASSUME NEW set \in SUBSET Name, names \subseteq set, Closed(set, adds) PROVE d \in set
    BY <1>1, <2>2 DEF Closed
  <2> QED BY <2>1, <2>2 DEF Reached
<1> QED BY <1>1, <1>2 DEF Closed

LEMMA NeedsAreNames ==
  ASSUME GraphTypeOK
  PROVE  /\ \A m : Needs(m) \subseteq Name /\ NeededBy(m) \subseteq Installed
         /\ \A set : NeedsWithin(set) \in [Name -> SUBSET Name]
         /\ \A set, m : m \in Name => NeedsWithin(set)[m] = Needs(m) \cap set
         /\ Dependent \in [Name -> SUBSET Name] /\ \A m \in Name : Dependent[m] = NeededBy(m)
         /\ Installed \subseteq Name /\ Absent \in Name /\ Absent \notin Installed /\ Needs(Absent) = {}
         /\ NeedsWithin(Name) = [m \in Name |-> Needs(m)]
<1>1. \A m : Needs(m) \subseteq Name /\ NeededBy(m) \subseteq Installed
  BY DEF GraphTypeOK, Needs, NeededBy
<1>2. Installed \subseteq Name /\ Absent \in Name /\ Absent \notin Installed
  BY GraphAssumption DEF Installed, Absent, Name
<1>3. \A set, m : m \in Name => NeedsWithin(set)[m] = Needs(m) \cap set
  BY DEF NeedsWithin
<1>4. \A set : NeedsWithin(set) \in [Name -> SUBSET Name]
  BY <1>1 DEF NeedsWithin
<1>5. Dependent \in [Name -> SUBSET Name] /\ \A m \in Name : Dependent[m] = NeededBy(m)
  BY <1>1, <1>2 DEF Dependent
<1>6. \A m \in Name : Needs(m) \cap Name = Needs(m)
  BY <1>1
<1>7. NeedsWithin(Name) = [m \in Name |-> Needs(m)]
  BY <1>6 DEF NeedsWithin
<1> QED BY <1>1, <1>2, <1>3, <1>4, <1>5, <1>7 DEF Needs

LEMMA ReachedGrows ==
  ASSUME NEW names \in SUBSET Name, NEW more \in SUBSET Name, NEW adds \in [Name -> SUBSET Name],
         names \subseteq Reached(more, adds)
  PROVE  Reached(names, adds) \subseteq Reached(more, adds)
BY ReachedFacts

(* A circle within some modules is one within more of them.                *)
LEMMA CycleGrows ==
  ASSUME GraphTypeOK, NEW set \in SUBSET Name, NEW larger \in SUBSET Name, set \subseteq larger, HasCycle(set)
  PROVE  HasCycle(larger)
<1>1. PICK m \in set : m \in Reached(Needs(m) \cap set, NeedsWithin(set))
  BY DEF HasCycle
<1>2. ASSUME NEW closed \in SUBSET Name, Needs(m) \cap larger \subseteq closed, Closed(closed, NeedsWithin(larger))
      PROVE  m \in closed
  <2>1. Closed(closed, NeedsWithin(set))
    BY <1>2, NeedsAreNames DEF Closed
  <2> QED BY <1>1, <1>2, <2>1 DEF Reached
<1>3. m \in Reached(Needs(m) \cap larger, NeedsWithin(larger))
  BY <1>1, <1>2 DEF Reached
<1> QED BY <1>3 DEF HasCycle

-----------------------------------------------------------------------------
(* The order of modules: depth first.                                      *)

LEMMA SortStarts ==
  ASSUME NEW sel
  PROVE  OrderedOK(sel, <<>>) /\ PathOK(sel, <<>>, <<>>)
BY DEF OrderedOK, PathOK

LEMMA SequenceFacts ==
  ASSUME GraphTypeOK
  PROVE  /\ DOMAIN path = 1..Len(path) /\ Len(path) \in Nat
         /\ DOMAIN ordered = 1..Len(ordered) /\ Len(ordered) \in Nat
         /\ \A i \in DOMAIN path : /\ path[i] \in Visit
                                   /\ path[i].name \in Installed /\ path[i].left \subseteq Installed
         /\ \A i \in DOMAIN ordered : ordered[i] \in Installed
         /\ ToSet(ordered) = {ordered[i] : i \in 1..Len(ordered)} /\ ToSet(ordered) \subseteq Installed
         /\ path # <<>> => Len(path) \in DOMAIN path
<1>1. path \in Seq(Visit) /\ ordered \in Seq(Installed)
  BY DEF GraphTypeOK
<1>2. ASSUME NEW i \in DOMAIN path
      PROVE  /\ path[i] \in Visit
             /\ path[i].name \in Installed /\ path[i].left \subseteq Installed
  <2>1. path[i] \in Visit
    BY <1>1
  <2> QED BY <2>1 DEF Visit
<1> QED BY <1>1, <1>2 DEF ToSet

(* An ordered set of modules has no circle, and all of it is in order.     *)
LEMMA SortedIsOrdered ==
  ASSUME GraphTypeOK, SortOK, path = <<>>, selected \subseteq ToSet(ordered)
  PROVE  Orders(ordered, selected) /\ ~HasCycle(selected) /\ ordered # Error
<1>1. ToSet(ordered) = selected
  <2>1. \A i \in 1..Len(ordered) : ordered[i] \in selected
    BY SequenceFacts DEF SortOK, OrderedOK
  <2>2. ToSet(ordered) = {ordered[i] : i \in 1..Len(ordered)}
    BY SequenceFacts
  <2> QED BY <2>1, <2>2
<1>2. Len(ordered) = Cardinality(selected)
  <2>1. ordered \in [1..Len(ordered) -> selected]
    BY <1>1, SequenceFacts DEF GraphTypeOK
  <2>a. \A i, j \in 1..Len(ordered) : ordered[i] = ordered[j] => i = j
    BY SequenceFacts DEF SortOK, OrderedOK
  <2>b. \A m \in selected : \E i \in 1..Len(ordered) : ordered[i] = m
    BY <1>1, SequenceFacts
  <2>2. ordered \in Bijection(1..Len(ordered), selected)
    BY <2>1, <2>a, <2>b DEF Bijection, Injection, Surjection, IsInjective
  <2>3. ExistsBijection(1..Len(ordered), selected)
    BY <2>2 DEF ExistsBijection
  <2> QED BY <2>3, SequenceFacts, FS_CountingElements
<1>3. \A i, j \in DOMAIN ordered : ordered[i] \in Needs(ordered[j]) => i < j
  BY <1>1, SequenceFacts DEF SortOK, OrderedOK
<1>4. ASSUME NEW m \in selected, m \in Reached(Needs(m) \cap selected, NeedsWithin(selected))
      PROVE  FALSE
  <2>1. PICK i \in DOMAIN ordered : ordered[i] = m
    BY <1>1, SequenceFacts
  <2> DEFINE earlier == {ordered[j] : j \in 1..(i - 1)}
  <2>2. \A j \in 1..(i - 1) : j \in DOMAIN ordered /\ j < i
    BY <2>1, SequenceFacts
  <2>3. earlier \subseteq Name
    BY <2>2, SequenceFacts, NeedsAreNames
  <2>4. Needs(m) \cap selected \subseteq earlier
    BY <2>1, SequenceFacts DEF SortOK, OrderedOK
  <2>5. Closed(earlier, NeedsWithin(selected))
    <3>1. ASSUME NEW j \in 1..(i - 1) PROVE Needs(ordered[j]) \cap selected \subseteq earlier
      BY <2>1, <2>2, SequenceFacts DEF SortOK, OrderedOK
    <3> QED BY <2>3, <3>1, NeedsAreNames DEF Closed
  <2>6. m \in earlier
    BY <1>4, <2>3, <2>4, <2>5 DEF Reached
  <2> QED BY <2>1, <2>2, <2>6, SequenceFacts DEF SortOK, OrderedOK
<1>5. ordered # Error
  <2>1. 0 \notin Installed
    BY DEF Installed
  <2> QED BY <2>1, SequenceFacts DEF Error
<1> QED BY <1>1, <1>2, <1>3, <1>4, <1>5 DEF Orders, HasCycle

(* A module that is met again on the path is on a circle.                  *)
LEMMA MetAgainIsCycle ==
  ASSUME GraphTypeOK, SortOK, path # <<>>, NEW name \in Top.left, NEW k \in DOMAIN path, path[k].name = name
  PROVE  HasCycle(selected)
<1> DEFINE n == Len(path)
<1>1. /\ n \in Nat /\ n \in DOMAIN path /\ DOMAIN path = 1..n
      /\ name \in Needs(path[n].name) \cap selected
  BY SequenceFacts DEF SortOK, PathOK, Top
<1>2. ASSUME NEW closed \in SUBSET Name, Needs(name) \cap selected \subseteq closed,
             Closed(closed, NeedsWithin(selected))
      PROVE  name \in closed
  <2>1. CASE k = n
    BY <1>1, <1>2, <2>1
  <2>2. CASE k # n
    <3> DEFINE outside == {i \in (k + 1)..n : path[i].name \notin closed}
    <3>1. ASSUME outside # {} PROVE FALSE
      <4>0. outside \subseteq Nat
        BY <1>1
      <4>1. PICK i \in outside : \A j \in outside : i <= j
        BY <3>1, <4>0, LeastIsThere
      <4>2. i \in DOMAIN path /\ i - 1 \in DOMAIN path /\ i \in (k + 1)..n
        BY <1>1
      <4>3. path[i].name \in Needs(path[i - 1].name) \cap selected
        <5>1. (i - 1) + 1 = i
          BY <4>2, <1>1
        <5> QED BY <4>2, <5>1 DEF SortOK, PathOK
      <4>4. CASE i = k + 1
        BY <1>1, <1>2, <4>3, <4>4
      <4>5. CASE i # k + 1
        <5>1. i - 1 \in (k + 1)..n /\ i - 1 < i
          BY <1>1, <4>2, <4>5
        <5>2. path[i - 1].name \in closed
          BY <4>1, <5>1, <1>1
        <5>3. path[i].name \in NeedsWithin(selected)[path[i - 1].name]
          BY <4>3, <5>2, NeedsAreNames
        <5> QED BY <1>2, <5>2, <5>3 DEF Closed
      <4> QED BY <4>4, <4>5
    <3>2. path[n].name \in closed
      BY <1>1, <2>2, <3>1
    <3>3. name \in NeedsWithin(selected)[path[n].name]
      BY <1>1, <3>2, NeedsAreNames
    <3> QED BY <1>2, <3>2, <3>3 DEF Closed
  <2> QED BY <2>1, <2>2
<1>3. name \in selected /\ name \in Name
  BY <1>1, NeedsAreNames DEF GraphTypeOK
<1>4. name \in Reached(Needs(name) \cap selected, NeedsWithin(selected))
  BY <1>2, <1>3 DEF Reached
<1> QED BY <1>3, <1>4 DEF HasCycle

-----------------------------------------------------------------------------
(* The order of modules: the steps of the commands.                        *)

(* No step changes the manifests.                                          *)
LEMMA SameGraph ==
  ASSUME UNCHANGED needs
  PROVE  /\ \A m : Needs(m)' = Needs(m) /\ NeededBy(m)' = NeededBy(m)
         /\ \A set : NeedsWithin(set)' = NeedsWithin(set)
         /\ Dependent' = Dependent
         /\ \A set : HasCycle(set)' = HasCycle(set)
         /\ \A list, set : Orders(list, set)' = Orders(list, set) /\ OrderedOK(set, list)' = OrderedOK(set, list)
         /\ \A list, set, visits : PathOK(set, visits, list)' = PathOK(set, visits, list)
<1>1. \A m : Needs(m)' = Needs(m)
  BY DEF Needs
<1>2. \A m : NeededBy(m)' = NeededBy(m)
  BY <1>1 DEF NeededBy
<1>3. (\A set : NeedsWithin(set)' = NeedsWithin(set)) /\ Dependent' = Dependent
  BY <1>1, <1>2 DEF NeedsWithin, Dependent
<1>4. \A set : HasCycle(set)' = HasCycle(set)
  BY <1>1, <1>3 DEF HasCycle
<1>5. \A list, set : Orders(list, set)' = Orders(list, set)
  BY <1>1 DEF Orders
<1>6. \A list, set : OrderedOK(set, list)' = OrderedOK(set, list)
  BY <1>1 DEF OrderedOK
<1>7. \A list, set, visits : PathOK(set, visits, list)' = PathOK(set, visits, list)
  BY <1>1 DEF PathOK
<1> QED BY <1>1, <1>2, <1>3, <1>4, <1>5, <1>6, <1>7

LEMMA SameCommand ==
  ASSUME UNCHANGED <<needs, profiled, asked>>
  PROVE  Dependents' = Dependents /\ Restarted' = Restarted /\ ToStart' = ToStart /\ ToStop' = ToStop
<1>1. Dependents' = Dependents /\ Restarted' = Restarted
  BY SameGraph DEF Dependents, Restarted
<1>2. NeedsWithin(Name)' = NeedsWithin(Name)
  BY SameGraph
<1> QED BY <1>1, <1>2 DEF ToStart, ToStop

(* The dependents of a request, and what a command starts.                 *)
LEMMA CommandFacts ==
  ASSUME GraphTypeOK, LoopInv, at # "idle"
  PROVE  /\ asked \in [cmd : Commands, names : SUBSET Name]
         /\ asked.names \subseteq Dependents /\ Dependents \subseteq Name /\ ToStart \subseteq Name
         /\ Dependents \subseteq asked.names \cup Installed
         /\ asked.cmd # "restart_cascade" => ToStart = Reached(asked.names, NeedsWithin(Name))
         /\ Restarted \subseteq Dependents /\ (profiled = {} => Restarted = Dependents)
         /\ asked.cmd = "restart_cascade" =>
              Restarted \subseteq ToStart /\ ToStart = Reached(Restarted, NeedsWithin(Name))
         /\ \A m \in ToStart : Needs(m) \subseteq ToStart
         /\ \A set \in SUBSET Name : set \subseteq ToStart => Reached(set, NeedsWithin(Name)) \subseteq ToStart
<1>1. /\ asked \in [cmd : Commands, names : SUBSET Name] /\ asked.names \in SUBSET Name
      /\ NeedsWithin(Name) \in [Name -> SUBSET Name] /\ Dependent \in [Name -> SUBSET Name]
  BY NeedsAreNames DEF LoopInv
<1>2. asked.names \subseteq Dependents /\ Dependents \in SUBSET Name
  BY <1>1, ReachedFacts DEF Dependents
<1>3. Dependents \subseteq asked.names \cup Installed
  <2>1. asked.names \cup Installed \in SUBSET Name
    BY <1>1, NeedsAreNames
  <2>2. Closed(asked.names \cup Installed, Dependent)
    BY <2>1, NeedsAreNames DEF Closed
  <2>3. \A set \in SUBSET Name : asked.names \subseteq set /\ Closed(set, Dependent) => Dependents \subseteq set
    BY <1>1, ReachedFacts DEF Dependents
  <2>4. asked.names \subseteq asked.names \cup Installed
    OBVIOUS
  <2> QED BY <2>1, <2>2, <2>3, <2>4
<1>4. PICK from \in SUBSET Name : /\ ToStart = Reached(from, NeedsWithin(Name))
                                  /\ from = IF asked.cmd = "restart_cascade" THEN Restarted ELSE asked.names
  BY <1>1, <1>2 DEF ToStart, Restarted
<1>5. from \subseteq ToStart /\ ToStart \in SUBSET Name /\ Closed(ToStart, NeedsWithin(Name))
  BY <1>1, <1>4, ReachedFacts
<1>6. \A m \in ToStart : Needs(m) \subseteq ToStart
  BY <1>5, NeedsAreNames DEF Closed
<1>7. ASSUME NEW set \in SUBSET Name, set \subseteq ToStart
      PROVE  Reached(set, NeedsWithin(Name)) \subseteq ToStart
  BY <1>1, <1>5, <1>7, ReachedFacts
<1>8. Restarted \subseteq Dependents /\ (profiled = {} => Restarted = Dependents)
  BY <1>2 DEF Restarted
<1> QED BY <1>1, <1>2, <1>3, <1>4, <1>5, <1>6, <1>7, <1>8

(* A sorted list is an answer of the right type, from either end.          *)
LEMMA OrderedReversed ==
  ASSUME GraphTypeOK
  PROVE  Reverse(ordered) \in Seq(Installed) /\ Reverse(Reverse(ordered)) = ordered
<1>1. ordered \in Seq(Installed) /\ Len(ordered) \in Nat /\ ordered = [i \in 1..Len(ordered) |-> ordered[i]]
  BY DEF GraphTypeOK
<1>2. Reverse(ordered) = [i \in 1..Len(ordered) |-> ordered[(Len(ordered) - i) + 1]]
  BY DEF Reverse
<1>3. \A i \in 1..Len(ordered) : (Len(ordered) - i) + 1 \in 1..Len(ordered) /\ ordered[(Len(ordered) - i) + 1] \in Installed
  BY <1>1
<1>4. Reverse(ordered) \in Seq(Installed) /\ Len(Reverse(ordered)) = Len(ordered)
  BY <1>1, <1>2, <1>3
<1>5. Reverse(Reverse(ordered)) = [i \in 1..Len(ordered) |-> Reverse(ordered)[(Len(ordered) - i) + 1]]
  BY <1>4 DEF Reverse
<1>6. \A i \in 1..Len(ordered) : Reverse(ordered)[(Len(ordered) - i) + 1] = ordered[i]
  BY <1>1, <1>2, <1>3
<1> QED BY <1>1, <1>4, <1>5, <1>6

(* Refusing is right when there is a circle among what the loop sorts, or  *)
(* a name that is not installed among what is needed.                      *)
LEMMA RefuseKeeps ==
  ASSUME GraphIInv, Refuse, at \notin {"idle", "done"},
         \/ asked.cmd \in {"start", "restart", "restart_cascade"} /\ (Absent \in ToStart \/ HasCycle(ToStart))
         \/ asked.cmd \in {"stop", "stop_cascade"} /\ (Absent \in asked.names \/ HasCycle(ToStop))
  PROVE  GraphIInv'
<1>1. /\ needs' = needs /\ profiled' = profiled /\ asked' = asked /\ todo' = todo /\ starts' = starts /\ requested' = requested
      /\ stack' = stack /\ found' = found /\ selected' = selected /\ path' = path /\ ordered' = ordered
      /\ answer' = Error /\ at' = "done"
  BY DEF Refuse
<1>2. GraphTypeOK'
  <2>1. Error \in Seq(Name \cup {0})
    BY DEF Error
  <2> QED BY <1>1, <2>1 DEF GraphIInv, GraphTypeOK
<1>3. CollectInv' /\ RestartInv' /\ ~Sorting'
  BY <1>1 DEF CollectInv, RestartInv, Sorting
<1>4. LoopInv'
  BY <1>1 DEF LoopInv, GraphIInv
<1>5. OrderServesNeeds'
  <2>1. ToStart' = ToStart /\ ToStop' = ToStop /\ HasCycle(ToStart)' = HasCycle(ToStart) /\ HasCycle(ToStop)' = HasCycle(ToStop)
    <3>1. ToStart' = ToStart /\ ToStop' = ToStop
      BY <1>1, SameCommand
    <3>2. \A set : HasCycle(set)' = HasCycle(set)
      BY <1>1, SameGraph
    <3> QED BY <3>1, <3>2
  <2> QED BY <1>1, <2>1 DEF OrderServesNeeds
<1> QED BY <1>2, <1>3, <1>4, <1>5 DEF GraphIInv

LEMMA AskKeeps == GraphIInv /\ Ask => GraphIInv'
<1> SUFFICES ASSUME GraphIInv, Ask PROVE GraphIInv'
  OBVIOUS
<1>1. PICK cmd \in Commands, names \in (SUBSET Name) \ {{}} :
        /\ asked' = [cmd |-> cmd, names |-> names]
        /\ IF cmd = "stop"
             THEN /\ at' = "sort_stops" /\ found' = names /\ selected' = names \cap Installed
                  /\ path' = <<>> /\ ordered' = <<>> /\ stack' = {} /\ requested' = requested
             ELSE /\ at' = IF cmd \in Cascade THEN "collect_stops" ELSE "collect_starts"
                  /\ requested' = names /\ stack' = names /\ found' = {}
                  /\ selected' = selected /\ path' = path /\ ordered' = ordered
  BY DEF Ask, Closure, Sort
<1>2. /\ needs' = needs /\ profiled' = profiled /\ answer' = answer /\ todo' = todo /\ starts' = starts
      /\ asked'.cmd = cmd /\ asked'.names = names /\ names \subseteq Name
      /\ asked' \in [cmd : Commands, names : SUBSET Name]
  BY <1>1 DEF Ask
<1>3. GraphTypeOK /\ starts = {} /\ profiled = {}
  BY DEF GraphIInv, LoopInv, Ask
<1>4. at' \in {"sort_stops", "collect_stops", "collect_starts"} /\ at' # "done" /\ at' # "idle"
  BY <1>1
<1>5. GraphTypeOK'
  <2>1. /\ requested \subseteq Name /\ selected \subseteq Installed /\ path \in Seq(Visit) /\ ordered \in Seq(Installed)
        /\ <<>> \in Seq(Visit) /\ <<>> \in Seq(Installed)
    BY <1>3 DEF GraphTypeOK
  <2>2. requested' \subseteq Name /\ stack' \subseteq Name /\ found' \subseteq Name /\ selected' \subseteq Installed
    BY <1>1, <1>2, <2>1
  <2>3. path' \in Seq(Visit) /\ ordered' \in Seq(Installed)
    BY <1>1, <2>1
  <2> QED BY <1>2, <1>3, <1>4, <2>2, <2>3 DEF GraphTypeOK
<1>6. CollectInv'
  <2>1. ASSUME at' \in {"collect_stops", "collect_starts"}
        PROVE  requested' = names /\ stack' = names /\ found' = {}
    BY <1>1, <2>1
  <2>2. Added' \in [Name -> SUBSET Name]
    <3>1. Dependent' \in [Name -> SUBSET Name] /\ NeedsWithin(Name)' \in [Name -> SUBSET Name]
      BY <1>2, <1>3, NeedsAreNames, SameGraph
    <3> QED BY <3>1 DEF Added
  <2>3. names \subseteq Reached(names, Added')
    BY <1>2, <2>2, ReachedFacts
  <2>4. at' \in {"collect_starts", "sort_starts"} => found' = {}
    BY <1>1, <1>4
  <2> QED BY <2>1, <2>3, <2>4 DEF CollectInv
<1>7. LoopInv'
  <2>1. CASE cmd = "stop"
    <3>1. at' = "sort_stops" /\ found' = names /\ selected' = names \cap Installed
      BY <1>1, <2>1
    <3>2. ToStop' = names
      BY <1>2, <2>1 DEF ToStop
    <3> QED BY <1>2, <1>3, <2>1, <3>1, <3>2 DEF LoopInv, Cascade
  <2>2. CASE cmd \in Cascade
    <3>1. at' = "collect_stops" /\ requested' = names
      BY <1>1, <2>2 DEF Cascade
    <3> QED BY <1>2, <1>3, <2>2, <3>1 DEF LoopInv
  <2>3. CASE cmd \in {"start", "restart"}
    <3>1. at' = "collect_starts" /\ requested' = names
      BY <1>1, <2>3 DEF Cascade
    <3> QED BY <1>2, <1>3, <2>3, <3>1 DEF LoopInv
  <2> QED BY <2>1, <2>2, <2>3 DEF Commands
<1>8. RestartInv'
  <2>1. cmd = "restart_cascade" => at' = "collect_stops"
    BY <1>1 DEF Cascade
  <2> QED BY <1>2, <2>1 DEF RestartInv
<1>9. Sorting' => SortOK'
  <2>1. ASSUME Sorting' PROVE path' = <<>> /\ ordered' = <<>>
    BY <1>1, <2>1 DEF Sorting
  <2>2. \A sel : OrderedOK(sel, <<>>) /\ PathOK(sel, <<>>, <<>>)
    BY SortStarts
  <2>3. \A sel : OrderedOK(sel, <<>>)' /\ PathOK(sel, <<>>, <<>>)'
    BY <1>2, <2>2, SameGraph
  <2> QED BY <2>1, <2>3 DEF SortOK, OrderedOK, PathOK
<1>10. OrderServesNeeds'
  BY <1>4 DEF OrderServesNeeds
<1> QED BY <1>5, <1>6, <1>7, <1>8, <1>9, <1>10 DEF GraphIInv

(* One turn of the loop over the stack.                                    *)
LEMMA SeeKeeps ==
  ASSUME GraphIInv, at \in {"collect_stops", "collect_starts"}, stack # {}, See(Popped, Added[Popped]),
         at = "collect_starts" => Popped # Absent
  PROVE  GraphIInv'
<1> DEFINE name == Popped
<1>1. /\ found' = found \cup {name}
      /\ stack' = (stack \ {name}) \cup (IF name \in found THEN {} ELSE Added[name])
      /\ needs' = needs /\ profiled' = profiled /\ asked' = asked /\ answer' = answer /\ at' = at /\ todo' = todo /\ starts' = starts
      /\ requested' = requested /\ selected' = selected /\ path' = path /\ ordered' = ordered
  BY DEF See
<1>2. GraphTypeOK /\ name \in stack /\ name \in Name /\ stack \subseteq Name /\ found \subseteq Name /\ requested \in SUBSET Name
  BY DEF GraphIInv, GraphTypeOK, Popped
<1>3. Added \in [Name -> SUBSET Name] /\ Added' = Added
  <2>1. Dependent \in [Name -> SUBSET Name] /\ NeedsWithin(Name) \in [Name -> SUBSET Name]
    BY <1>2, NeedsAreNames
  <2>2. Dependent' = Dependent /\ NeedsWithin(Name)' = NeedsWithin(Name)
    BY <1>1, SameGraph
  <2> QED BY <1>1, <2>1, <2>2 DEF Added
<1>4. GraphTypeOK'
  BY <1>1, <1>2, <1>3 DEF GraphTypeOK
<1>5. CollectInv'
  <2>1. /\ requested \subseteq found \cup stack
        /\ found \cup stack \subseteq Reached(requested, Added)
        /\ \A m \in found : Added[m] \subseteq found \cup stack
        /\ at = "collect_starts" => Absent \notin found
    BY DEF GraphIInv, CollectInv
  <2>2. Added[name] \subseteq Reached(requested, Added)
    <3>1. Closed(Reached(requested, Added), Added)
      BY <1>2, <1>3, ReachedFacts
    <3> QED BY <1>2, <2>1, <3>1 DEF Closed
  <2>3. found' \cup stack' = found \cup stack \cup Added[name]
    BY <1>1, <1>2, <2>1
  <2>4. \A m \in found' : Added[m] \subseteq found' \cup stack'
    BY <1>1, <2>1, <2>3
  <2>5. Reached(requested, Added)' = Reached(requested, Added)
    BY <1>1, <1>3
  <2> QED BY <1>1, <1>3, <2>1, <2>2, <2>3, <2>4, <2>5 DEF CollectInv
<1>6. LoopInv' /\ RestartInv'
  <2>1. ToStart' = ToStart /\ Restarted' = Restarted /\ (\A m : Needs(m)' = Needs(m))
    BY <1>1, SameCommand, SameGraph
  <2>2. LoopInv'
    BY <1>1, <2>1 DEF GraphIInv, LoopInv
  <2>3. RestartInv'
    BY <1>1, <2>1 DEF GraphIInv, RestartInv
  <2> QED BY <2>2, <2>3
<1>7. ~Sorting' /\ OrderServesNeeds'
  BY <1>1 DEF Sorting, OrderServesNeeds
<1> QED BY <1>4, <1>5, <1>6, <1>7 DEF GraphIInv

LEMMA CollectStopKeeps == GraphIInv /\ CollectStop => GraphIInv'
<1> SUFFICES ASSUME GraphIInv, CollectStop PROVE GraphIInv'
  OBVIOUS
<1>1. at = "collect_stops" /\ stack # {} /\ See(Popped, NeededBy(Popped))
  BY DEF CollectStop
<1>2. Popped \in Name /\ GraphTypeOK
  BY <1>1 DEF GraphIInv, GraphTypeOK, Popped
<1>3. Added[Popped] = NeededBy(Popped)
  BY <1>1, <1>2, NeedsAreNames DEF Added
<1> QED BY <1>1, <1>3, SeeKeeps

LEMMA CollectStartKeeps == GraphIInv /\ CollectStart => GraphIInv'
<1> SUFFICES ASSUME GraphIInv, CollectStart PROVE GraphIInv'
  OBVIOUS
<1>1. at = "collect_starts" /\ stack # {}
  BY DEF CollectStart
<1>2. Popped \in Name /\ Popped \in stack /\ GraphTypeOK /\ requested \in SUBSET Name /\ LoopInv
  BY <1>1 DEF GraphIInv, GraphTypeOK, Popped
<1>3. Added = NeedsWithin(Name) /\ Added[Popped] = Needs(Popped)
  BY <1>1, <1>2, NeedsAreNames DEF Added
<1>4. CASE Popped = Absent \/ Absent \in Needs(Popped)
  <2>1. Refuse
    BY <1>4 DEF CollectStart
  <2>2. Reached(requested, NeedsWithin(Name)) \subseteq ToStart
    BY <1>1, <1>2, CommandFacts DEF LoopInv
  <2>3. Popped \in ToStart
    BY <1>1, <1>2, <1>3, <2>2 DEF GraphIInv, CollectInv
  <2>4. Absent \in ToStart
    BY <1>1, <1>2, <1>4, <2>3, CommandFacts
  <2>5. asked.cmd \in {"start", "restart", "restart_cascade"}
    BY <1>1, <1>2 DEF LoopInv
  <2> QED BY <1>1, <2>1, <2>4, <2>5, RefuseKeeps
<1>5. CASE ~(Popped = Absent \/ Absent \in Needs(Popped))
  <2>1. See(Popped, Added[Popped])
    BY <1>3, <1>5 DEF CollectStart
  <2> QED BY <1>1, <1>5, <2>1, SeeKeeps
<1> QED BY <1>4, <1>5

LEMMA SortBegins ==
  ASSUME path' = <<>>, ordered' = <<>>
  PROVE  SortOK'
BY DEF SortOK, OrderedOK, PathOK

LEMMA SortIsKept ==
  ASSUME needs' = needs, OrderedOK(selected', ordered'), PathOK(selected', path', ordered')
  PROVE  SortOK'
<1>1. Installed' = Installed /\ \A m : Needs(m)' = Needs(m)
  BY DEF Needs
<1>2. OrderedOK(selected, ordered)'
  BY <1>1 DEF OrderedOK
<1>3. PathOK(selected, path, ordered)'
  BY <1>1 DEF PathOK
<1> QED BY <1>2, <1>3 DEF SortOK

LEMMA CollectDoneKeeps == GraphIInv /\ CollectDone => GraphIInv'
<1> SUFFICES ASSUME GraphIInv, CollectDone PROVE GraphIInv'
  OBVIOUS
<1>1. /\ at \in {"collect_stops", "collect_starts"} /\ stack = {}
      /\ at' = IF at = "collect_stops" THEN "sort_stops" ELSE "sort_starts"
      /\ selected' = found \cap Installed /\ path' = <<>> /\ ordered' = <<>> /\ stack' = {}
      /\ needs' = needs /\ profiled' = profiled /\ asked' = asked /\ answer' = answer /\ todo' = todo /\ starts' = starts
      /\ requested' = requested /\ found' = found
  BY DEF CollectDone, Sort
<1>2. GraphTypeOK /\ LoopInv /\ CollectInv /\ RestartInv /\ requested \in SUBSET Name /\ found \in SUBSET Name
  BY DEF GraphIInv, GraphTypeOK
<1>3. GraphTypeOK'
  <2>1. path' \in Seq(Visit) /\ ordered' \in Seq(Installed)
    BY <1>1
  <2> QED BY <1>1, <1>2, <2>1 DEF GraphTypeOK
<1>4. Added \in [Name -> SUBSET Name]
  BY <1>2, NeedsAreNames DEF Added
<1>5. found = Reached(requested, Added)
  <2>1. requested \subseteq found /\ Closed(found, Added) /\ found \subseteq Reached(requested, Added)
    BY <1>1, <1>2 DEF CollectInv, Closed
  <2> QED BY <1>2, <1>4, <2>1, ReachedFacts
<1>6. CollectInv'
  BY <1>1, <1>2 DEF CollectInv
<1>7. ToStart' = ToStart /\ ToStop' = ToStop /\ Restarted' = Restarted /\ \A m : Needs(m)' = Needs(m)
  BY <1>1, SameCommand, SameGraph
<1>8. LoopInv'
  <2>1. CASE at = "collect_stops"
    <3>1. found = Dependents /\ asked.cmd \in Cascade
      BY <1>2, <1>5, <2>1 DEF LoopInv, Added, Dependents
    <3>2. found' = ToStop'
      BY <1>1, <1>7, <3>1 DEF ToStop, Cascade
    <3> QED BY <1>1, <1>2, <2>1, <3>1, <3>2 DEF LoopInv
  <2>2. CASE at = "collect_starts"
    <3>1. found = Reached(requested, NeedsWithin(Name)) /\ found \subseteq Installed
      BY <1>2, <1>5, <2>2, NeedsAreNames DEF Added, CollectInv, Name
    <3>2. Reached(requested, NeedsWithin(Name))' = Reached(requested, NeedsWithin(Name))
      <4>1. NeedsWithin(Name)' = NeedsWithin(Name)
        BY <1>1, SameGraph
      <4> QED BY <1>1, <4>1
    <3>3. found' = Reached(requested, NeedsWithin(Name))' /\ selected' = found'
      BY <1>1, <3>1, <3>2
    <3>4. at' = "sort_starts"
      BY <1>1, <2>2
    <3> QED BY <1>1, <1>2, <1>7, <2>2, <3>3, <3>4 DEF LoopInv
  <2> QED BY <1>1, <2>1, <2>2
<1>9. RestartInv'
  <2>1. at = "collect_stops" => at' \notin {"restart", "collect_starts", "sort_starts", "sort_all"}
    BY <1>1
  <2>2. at = "collect_starts" => at' = "sort_starts"
    BY <1>1
  <2> QED BY <1>1, <1>2, <1>7, <2>1, <2>2 DEF RestartInv
<1>10. SortOK' /\ OrderServesNeeds'
  <2>1. at' # "done"
    BY <1>1
  <2> QED BY <1>1, <2>1, SortBegins DEF OrderServesNeeds
<1> QED BY <1>3, <1>6, <1>8, <1>9, <1>10 DEF GraphIInv

(* What a sort is asked to order is what the command is about.             *)
LEMMA SelectedFacts ==
  ASSUME GraphIInv, Sorting
  PROVE  /\ selected \in SUBSET Name /\ at \notin {"idle", "done"} /\ asked.cmd \in Commands
         /\ asked.cmd \in {"start", "restart", "restart_cascade"} => selected \subseteq ToStart /\ ToStart \in SUBSET Name
         /\ asked.cmd \in {"stop", "stop_cascade"} => selected \subseteq ToStop /\ ToStop \in SUBSET Name
<1>1. GraphTypeOK /\ LoopInv /\ RestartInv /\ at \in {"sort_stops", "sort_starts", "sort_all"}
  BY DEF GraphIInv, Sorting
<1>2. selected \in SUBSET Name /\ at # "idle" /\ asked \in [cmd : Commands, names : SUBSET Name]
  BY <1>1, NeedsAreNames DEF GraphTypeOK, LoopInv
<1>3. /\ Dependents \in SUBSET Name /\ ToStart \in SUBSET Name /\ asked.names \in SUBSET Name
      /\ asked.cmd # "restart_cascade" => ToStart = Reached(asked.names, NeedsWithin(Name))
      /\ Restarted \subseteq Dependents /\ (profiled = {} => Restarted = Dependents)
      /\ asked.cmd = "restart_cascade" => Restarted \subseteq ToStart
      /\ \A set \in SUBSET Name : set \subseteq ToStart => Reached(set, NeedsWithin(Name)) \subseteq ToStart
  BY <1>1, <1>2, CommandFacts
<1>4. CASE at = "sort_stops"
  BY <1>1, <1>2, <1>3, <1>4 DEF LoopInv, ToStop, Cascade
<1>5. CASE at = "sort_starts"
  <2>1. CASE asked.cmd \in {"start", "restart"}
    BY <1>1, <1>2, <1>3, <1>5, <2>1 DEF LoopInv
  <2>2. CASE asked.cmd = "restart_cascade"
    <3>1. selected = Reached(requested, NeedsWithin(Name)) /\ requested \subseteq ToStart /\ requested \in SUBSET Name
      BY <1>1, <1>3, <1>5, <2>2 DEF LoopInv, GraphTypeOK
    <3>2. selected \subseteq ToStart
      BY <1>3, <3>1
    <3> QED BY <1>1, <1>2, <1>3, <2>2, <3>2
  <2> QED BY <1>1, <1>5, <2>1, <2>2 DEF LoopInv
<1>6. CASE at = "sort_all"
  BY <1>1, <1>2, <1>3, <1>6 DEF LoopInv, RestartInv
<1> QED BY <1>1, <1>4, <1>5, <1>6

(* A step of the sort that leaves the rest of the command alone.           *)
LEMMA SortStepKeeps ==
  ASSUME GraphIInv, Sorting, path' \in Seq(Visit), ordered' \in Seq(Installed), SortOK',
         UNCHANGED <<needs, profiled, asked, answer, at, todo, starts, requested, stack, found, selected>>
  PROVE  GraphIInv'
<1>1. /\ needs' = needs /\ profiled' = profiled /\ asked' = asked /\ answer' = answer /\ at' = at /\ todo' = todo /\ starts' = starts
      /\ requested' = requested /\ stack' = stack /\ found' = found /\ selected' = selected
  OBVIOUS
<1>2. GraphTypeOK /\ LoopInv /\ CollectInv /\ RestartInv
  BY DEF GraphIInv
<1>3. GraphTypeOK'
  BY <1>1, <1>2 DEF GraphTypeOK
<1>4. /\ ToStart' = ToStart /\ ToStop' = ToStop /\ Restarted' = Restarted /\ \A m : Needs(m)' = Needs(m)
      /\ Reached(requested, NeedsWithin(Name))' = Reached(requested, NeedsWithin(Name))
  <2>1. NeedsWithin(Name)' = NeedsWithin(Name)
    BY <1>1, SameGraph
  <2>2. Reached(requested, NeedsWithin(Name))' = Reached(requested, NeedsWithin(Name))
    BY <1>1, <2>1
  <2> QED BY <1>1, <2>2, SameCommand, SameGraph
<1>5. CollectInv'
  BY <1>1, <1>2 DEF CollectInv, Sorting
<1>6. LoopInv'
  BY <1>1, <1>2, <1>4 DEF LoopInv
<1>7. RestartInv'
  BY <1>1, <1>2, <1>4 DEF RestartInv
<1>8. OrderServesNeeds'
  BY <1>1 DEF OrderServesNeeds, Sorting
<1> QED BY <1>3, <1>5, <1>6, <1>7, <1>8 DEF GraphIInv

LEMMA VisitIsTyped ==
  ASSUME GraphTypeOK, NEW name \in selected
  PROVE  /\ VisitOf(name) \in Visit /\ name \in Installed
         /\ VisitOf(name).name = name /\ VisitOf(name).left = Needs(name) \cap selected
<1>1. name \in Installed /\ Needs(name) \cap selected \in SUBSET Installed
  BY DEF GraphTypeOK
<1> QED BY <1>1 DEF Visit, VisitOf

LEMMA VisitNextKeeps == GraphIInv /\ VisitNext => GraphIInv'
<1> SUFFICES ASSUME GraphIInv, VisitNext PROVE GraphIInv'
  OBVIOUS
<1>1. PICK name \in Unordered : path' = Append(path, VisitOf(name))
  BY DEF VisitNext
<1>2. /\ Sorting /\ path = <<>> /\ GraphTypeOK /\ SortOK /\ ordered' = ordered /\ selected' = selected /\ needs' = needs
      /\ UNCHANGED <<needs, profiled, asked, answer, at, todo, starts, requested, stack, found, selected>>
  BY DEF VisitNext, GraphIInv, Visiting
<1>3. name \in selected /\ name \notin ToSet(ordered) /\ VisitOf(name) \in Visit
  BY <1>1, <1>2, VisitIsTyped DEF Unordered
<1>4. path' = <<VisitOf(name)>> /\ path' \in Seq(Visit) /\ DOMAIN path' = {1} /\ path'[1] = VisitOf(name)
  BY <1>1, <1>2, <1>3
<1>5. PathOK(selected, <<VisitOf(name)>>, ordered)
  <2> DEFINE visits == <<VisitOf(name)>>
  <2>1. DOMAIN visits = {1} /\ visits[1].name = name /\ visits[1].left = Needs(name) \cap selected /\ 1 + 1 \notin DOMAIN visits
    BY <1>2, <1>3, VisitIsTyped
  <2> HIDE DEF visits
  <2>2. PathOK(selected, visits, ordered)
    BY <1>3, <2>1 DEF PathOK
  <2> QED BY <2>2 DEF visits
<1>6. SortOK'
  <2>1. OrderedOK(selected', ordered') /\ PathOK(selected', path', ordered')
    BY <1>2, <1>4, <1>5 DEF SortOK
  <2> QED BY <1>2, <2>1, SortIsKept
<1>7. ordered' \in Seq(Installed)
  BY <1>2 DEF GraphTypeOK
<1> QED BY <1>2, <1>4, <1>6, <1>7, SortStepKeeps

LEMMA VisitFacts ==
  ASSUME NEW sel, NEW visits, NEW list, PathOK(sel, visits, list)
  PROVE  /\ \A i \in DOMAIN visits : /\ visits[i].name \in sel /\ visits[i].name \notin ToSet(list)
                                      /\ visits[i].left \subseteq Needs(visits[i].name) \cap sel
         /\ \A i \in DOMAIN visits : \A d \in (Needs(visits[i].name) \cap sel) \ visits[i].left :
              d \in ToSet(list) \/ (i + 1 \in DOMAIN visits /\ visits[i + 1].name = d)
         /\ \A i \in DOMAIN visits : i + 1 \in DOMAIN visits => visits[i + 1].name \in Needs(visits[i].name) \cap sel
         /\ \A i, j \in DOMAIN visits : visits[i].name = visits[j].name => i = j
BY DEF PathOK

LEMMA VisitNeededKeeps == GraphIInv /\ VisitNeeded => GraphIInv'
<1> SUFFICES ASSUME GraphIInv, VisitNeeded PROVE GraphIInv'
  OBVIOUS
<1> DEFINE rest(name) == [path EXCEPT ![Len(path)].left = @ \ {name}]
<1>0. PICK n : n = Len(path)
  OBVIOUS
<1>1. PICK name \in Top.left :
        IF \E i \in DOMAIN path : path[i].name = name THEN Refuse
        ELSE /\ path' = IF name \in ToSet(ordered) THEN rest(name) ELSE Append(rest(name), VisitOf(name))
             /\ UNCHANGED <<needs, profiled, asked, answer, at, todo, starts, requested, stack, found, selected, ordered>>
  BY DEF VisitNeeded
<1>2. /\ Sorting /\ path # <<>> /\ GraphTypeOK /\ SortOK /\ OrderedOK(selected, ordered) /\ PathOK(selected, path, ordered)
      /\ n \in Nat /\ n \in DOMAIN path /\ DOMAIN path = 1..n /\ Top = path[n] /\ n + 1 \notin DOMAIN path
      /\ path \in Seq(Visit) /\ ordered \in Seq(Installed)
      /\ \A i \in DOMAIN path : path[i] \in Visit
  <2>1. Sorting /\ path # <<>> /\ GraphTypeOK /\ SortOK /\ OrderedOK(selected, ordered) /\ PathOK(selected, path, ordered)
    BY DEF VisitNeeded, GraphIInv, Visiting, SortOK
  <2> QED BY <1>0, <2>1, SequenceFacts DEF GraphTypeOK, Top
<1>3. name \in Needs(path[n].name) \cap selected /\ name \in path[n].left /\ path[n].name \in selected /\ name \in selected
  BY <1>1, <1>2 DEF PathOK
<1>a. /\ \A i \in 1..n : /\ path[i].name \in selected /\ path[i].name \notin ToSet(ordered)
                         /\ path[i].left \subseteq Needs(path[i].name) \cap selected
      /\ \A i \in 1..n : \A d \in (Needs(path[i].name) \cap selected) \ path[i].left :
           d \in ToSet(ordered) \/ (i + 1 \in 1..n /\ path[i + 1].name = d)
      /\ \A i \in 1..n : i + 1 \in 1..n => path[i + 1].name \in Needs(path[i].name) \cap selected
      /\ \A i, j \in 1..n : path[i].name = path[j].name => i = j
  <2>1. PathOK(selected, path, ordered) /\ DOMAIN path = 1..n
    BY <1>2
  <2>2. /\ \A i \in DOMAIN path : /\ path[i].name \in selected /\ path[i].name \notin ToSet(ordered)
                                /\ path[i].left \subseteq Needs(path[i].name) \cap selected
        /\ \A i \in DOMAIN path : \A d \in (Needs(path[i].name) \cap selected) \ path[i].left :
             d \in ToSet(ordered) \/ (i + 1 \in DOMAIN path /\ path[i + 1].name = d)
        /\ \A i \in DOMAIN path : i + 1 \in DOMAIN path => path[i + 1].name \in Needs(path[i].name) \cap selected
        /\ \A i, j \in DOMAIN path : path[i].name = path[j].name => i = j
    BY <2>1, VisitFacts
  <2> QED BY <2>1, <2>2
<1>4. CASE \E i \in DOMAIN path : path[i].name = name
  <2>1. Refuse /\ HasCycle(selected)
    BY <1>1, <1>2, <1>4, MetAgainIsCycle
  <2>2. /\ selected \in SUBSET Name /\ at \notin {"idle", "done"} /\ asked.cmd \in Commands
        /\ asked.cmd \in {"start", "restart", "restart_cascade"} => selected \subseteq ToStart /\ ToStart \in SUBSET Name
        /\ asked.cmd \in {"stop", "stop_cascade"} => selected \subseteq ToStop /\ ToStop \in SUBSET Name
    BY <1>2, SelectedFacts
  <2>3. asked.cmd \in {"start", "restart", "restart_cascade"} => HasCycle(ToStart)
    BY <1>2, <2>1, <2>2, CycleGrows
  <2>4. asked.cmd \in {"stop", "stop_cascade"} => HasCycle(ToStop)
    BY <1>2, <2>1, <2>2, CycleGrows
  <2> QED BY <2>1, <2>2, <2>3, <2>4, RefuseKeeps DEF Commands, Cascade
<1>5. CASE ~\E i \in DOMAIN path : path[i].name = name
  <2>1. PICK kept : kept = rest(name)
    OBVIOUS
  <2>2. /\ kept \in Seq(Visit) /\ Len(kept) = n /\ DOMAIN kept = 1..n
        /\ \A i \in 1..n : /\ kept[i].name = path[i].name
                           /\ kept[i].left = IF i = n THEN path[i].left \ {name} ELSE path[i].left
    <3>1. /\ DOMAIN kept = 1..n /\ \A i \in (1..n) \ {n} : kept[i] = path[i]
          /\ kept[n] = [path[n] EXCEPT !.left = @ \ {name}]
      BY <1>0, <1>2, <2>1
    <3>2. path[n] \in [name : Installed, left : SUBSET Installed]
      BY <1>2 DEF Visit
    <3>3. kept[n] \in Visit /\ kept[n].name = path[n].name /\ kept[n].left = path[n].left \ {name}
      BY <3>1, <3>2 DEF Visit
    <3>4. \A i \in 1..n : kept[i] \in Visit
      BY <1>2, <3>1, <3>3
    <3>5. kept = [i \in 1..n |-> kept[i]]
      BY <1>2, <2>1, <3>1
    <3>6. kept \in Seq(Visit) /\ Len(kept) = n
      BY <1>2, <3>1, <3>4, <3>5, SMTT(30)
    <3> QED BY <3>1, <3>3, <3>6
  <2>3. /\ UNCHANGED <<needs, profiled, asked, answer, at, todo, starts, requested, stack, found, selected>>
        /\ needs' = needs /\ selected' = selected /\ ordered' = ordered
        /\ path' = IF name \in ToSet(ordered) THEN kept ELSE Append(kept, VisitOf(name))
    BY <1>1, <1>5, <2>1
  <2>4. CASE name \in ToSet(ordered)
    <3>1. path' = kept
      BY <2>3, <2>4
    <3>2. PathOK(selected, kept, ordered)
      <4>1. ASSUME NEW i \in 1..n
            PROVE  /\ kept[i].name \in selected \ ToSet(ordered)
                   /\ kept[i].left \subseteq Needs(kept[i].name) \cap selected
                   /\ \A d \in (Needs(kept[i].name) \cap selected) \ kept[i].left :
                        d \in ToSet(ordered) \/ (i + 1 \in 1..n /\ kept[i + 1].name = d)
                   /\ i + 1 \in 1..n => kept[i + 1].name \in Needs(kept[i].name) \cap selected
        <5>1. /\ path[i].name \in selected /\ path[i].name \notin ToSet(ordered)
              /\ path[i].left \subseteq Needs(path[i].name) \cap selected
              /\ \A d \in (Needs(path[i].name) \cap selected) \ path[i].left :
                   d \in ToSet(ordered) \/ (i + 1 \in 1..n /\ path[i + 1].name = d)
              /\ i + 1 \in 1..n => path[i + 1].name \in Needs(path[i].name) \cap selected
          BY <1>a
        <5>2. kept[i].name = path[i].name /\ path[i].left \ {name} \subseteq kept[i].left /\ kept[i].left \subseteq path[i].left
          BY <2>2
        <5>3. i + 1 \in 1..n => kept[i + 1].name = path[i + 1].name
          BY <2>2
        <5> QED BY <2>4, <5>1, <5>2, <5>3
      <4>2. \A i, j \in 1..n : kept[i].name = kept[j].name => i = j
        BY <1>a, <2>2
      <4> QED BY <2>2, <4>1, <4>2 DEF PathOK
    <3>3. SortOK'
      BY <1>2, <2>3, <3>1, <3>2, SortIsKept
    <3> QED BY <1>2, <2>2, <2>3, <3>1, <3>3, SortStepKeeps
  <2>5. CASE name \notin ToSet(ordered)
    <3>1. VisitOf(name) \in Visit /\ VisitOf(name).name = name /\ VisitOf(name).left = Needs(name) \cap selected
      BY <1>2, <1>3, VisitIsTyped
    <3>2. PICK longer : longer = Append(kept, VisitOf(name))
      OBVIOUS
    <3>3. /\ path' = longer /\ longer \in Seq(Visit) /\ DOMAIN longer = 1..(n + 1)
          /\ \A i \in 1..n : longer[i] = kept[i]
          /\ longer[n + 1] = VisitOf(name)
      BY <1>2, <2>2, <2>3, <2>5, <3>1, <3>2
    <3>4. /\ \A i \in 1..n : /\ longer[i].name = path[i].name
                             /\ longer[i].left = IF i = n THEN path[i].left \ {name} ELSE path[i].left
          /\ longer[n + 1].name = name /\ longer[n + 1].left = Needs(name) \cap selected
      BY <2>2, <3>1, <3>3
    <3>5. \A i, j \in DOMAIN longer : longer[i].name = longer[j].name => i = j
      <4>1. \A i \in 1..n : longer[i].name # longer[n + 1].name
        BY <1>2, <1>5, <3>4
      <4>2. \A i, j \in 1..n : longer[i].name = longer[j].name => i = j
        BY <1>a, <3>4
      <4>3. \A i \in DOMAIN longer : i \in 1..n \/ i = n + 1
        BY <1>2, <3>3
      <4> QED BY <4>1, <4>2, <4>3
    <3>6. ASSUME NEW i \in DOMAIN longer
          PROVE  /\ longer[i].name \in selected \ ToSet(ordered)
                 /\ longer[i].left \subseteq Needs(longer[i].name) \cap selected
                 /\ \A d \in (Needs(longer[i].name) \cap selected) \ longer[i].left :
                      d \in ToSet(ordered) \/ (i + 1 \in DOMAIN longer /\ longer[i + 1].name = d)
                 /\ i + 1 \in DOMAIN longer => longer[i + 1].name \in Needs(longer[i].name) \cap selected
      <4>1. CASE i = n + 1
        BY <1>2, <1>3, <2>5, <3>3, <3>4, <4>1
      <4>2. CASE i = n
        <5>1. longer[i].name = path[n].name /\ longer[i].left = path[n].left \ {name} /\ longer[i + 1].name = name /\ i + 1 \in DOMAIN longer
          <6>1. n \in 1..n /\ n + 1 \in DOMAIN longer
            BY <1>2, <3>3
          <6> QED BY <3>4, <4>2, <6>1
        <5>2. /\ path[n].name \in selected \ ToSet(ordered)
              /\ path[n].left \subseteq Needs(path[n].name) \cap selected
              /\ \A d \in (Needs(path[n].name) \cap selected) \ path[n].left : d \in ToSet(ordered)
          BY <1>2 DEF PathOK
        <5> QED BY <1>3, <5>1, <5>2
      <4>3. CASE i \in 1..(n - 1)
        <5>1. /\ i \in DOMAIN path /\ i + 1 \in DOMAIN path /\ i + 1 \in DOMAIN longer /\ i \in 1..n /\ i + 1 \in 1..n /\ i # n
          BY <1>2, <3>3, <4>3
        <5>2. /\ longer[i].name = path[i].name /\ longer[i].left = path[i].left /\ longer[i + 1].name = path[i + 1].name
          BY <3>4, <5>1
        <5>3. /\ path[i].name \in selected \ ToSet(ordered)
              /\ path[i].left \subseteq Needs(path[i].name) \cap selected
              /\ \A d \in (Needs(path[i].name) \cap selected) \ path[i].left : d \in ToSet(ordered) \/ path[i + 1].name = d
              /\ path[i + 1].name \in Needs(path[i].name) \cap selected
          BY <1>2, <5>1 DEF PathOK
        <5> QED BY <5>1, <5>2, <5>3
      <4> QED BY <1>2, <3>3, <4>1, <4>2, <4>3
    <3>7. PathOK(selected, longer, ordered)
      BY <3>5, <3>6 DEF PathOK
    <3>8. SortOK'
      BY <1>2, <2>3, <3>3, <3>7, SortIsKept
    <3> QED BY <1>2, <2>3, <3>3, <3>8, SortStepKeeps
  <2> QED BY <2>4, <2>5
<1> QED BY <1>4, <1>5

LEMMA VisitedKeeps == GraphIInv /\ Visited => GraphIInv'
<1> SUFFICES ASSUME GraphIInv, Visited PROVE GraphIInv'
  OBVIOUS
<1>0. PICK n, last : n = Len(path) /\ last = path[Len(path)].name
  OBVIOUS
<1>1. /\ Sorting /\ path # <<>> /\ GraphTypeOK /\ OrderedOK(selected, ordered) /\ PathOK(selected, path, ordered)
      /\ ordered' = Append(ordered, last) /\ path' = SubSeq(path, 1, n - 1) /\ path[n].left = {}
      /\ UNCHANGED <<needs, profiled, asked, answer, at, todo, starts, requested, stack, found, selected>>
      /\ needs' = needs /\ selected' = selected
  BY <1>0 DEF Visited, GraphIInv, Visiting, SortOK, Top
<1>2. /\ n \in Nat /\ n \in DOMAIN path /\ DOMAIN path = 1..n /\ n + 1 \notin DOMAIN path
      /\ path \in Seq(Visit) /\ ordered \in Seq(Installed) /\ last \in Installed
      /\ DOMAIN ordered = 1..Len(ordered) /\ Len(ordered) \in Nat
      /\ \A d \in ToSet(ordered) : \E j \in DOMAIN ordered : ordered[j] = d
  <2>1. n \in Nat /\ n \in DOMAIN path /\ DOMAIN path = 1..n /\ last \in Installed
    BY <1>0, <1>1, SequenceFacts
  <2>2. path \in Seq(Visit) /\ ordered \in Seq(Installed)
    BY <1>1 DEF GraphTypeOK
  <2>3. DOMAIN ordered = 1..Len(ordered) /\ Len(ordered) \in Nat
    BY <1>1, SequenceFacts
  <2>4. ToSet(ordered) = {ordered[i] : i \in 1..Len(ordered)}
    BY <1>1, SequenceFacts
  <2> QED BY <2>1, <2>2, <2>3, <2>4
<1>3. /\ last \in selected \ ToSet(ordered)
      /\ \A d \in Needs(last) \cap selected : d \in ToSet(ordered)
  BY <1>0, <1>1, <1>2 DEF PathOK
<1>4. PICK longer : longer = Append(ordered, last)
  OBVIOUS
<1>5. /\ longer \in Seq(Installed) /\ DOMAIN longer = 1..(Len(ordered) + 1)
      /\ \A i \in DOMAIN ordered : longer[i] = ordered[i] /\ i \in DOMAIN longer
      /\ longer[Len(ordered) + 1] = last /\ ordered' = longer
      /\ ToSet(longer) = ToSet(ordered) \cup {last}
  <2>1. /\ longer \in Seq(Installed) /\ DOMAIN longer = 1..(Len(ordered) + 1)
        /\ \A i \in DOMAIN ordered : longer[i] = ordered[i] /\ i \in DOMAIN longer
        /\ longer[Len(ordered) + 1] = last /\ ordered' = longer
    BY <1>1, <1>2, <1>4
  <2>2. ToSet(longer) = ToSet(ordered) \cup {last}
    BY <1>2, <2>1 DEF ToSet
  <2> QED BY <2>1, <2>2
<1>6. OrderedOK(selected, longer)
  <2>1. \A i, j \in DOMAIN longer : longer[i] = longer[j] => i = j
    <3>1. \A i \in DOMAIN ordered : ordered[i] # last
      BY <1>3 DEF ToSet
    <3>2. \A i, j \in DOMAIN ordered : ordered[i] = ordered[j] => i = j
      BY <1>1 DEF OrderedOK
    <3> QED BY <1>2, <1>5, <3>1, <3>2
  <2>2. ASSUME NEW i \in DOMAIN longer
        PROVE  /\ longer[i] \in selected
               /\ \A d \in Needs(longer[i]) \cap selected : \E j \in DOMAIN longer : j < i /\ longer[j] = d
    <3>1. CASE i \in DOMAIN ordered
      <4>1. longer[i] = ordered[i]
        BY <1>5, <3>1
      <4>2. /\ ordered[i] \in selected
            /\ \A d \in Needs(ordered[i]) \cap selected : \E j \in DOMAIN ordered : j < i /\ ordered[j] = d
        BY <1>1, <3>1 DEF OrderedOK
      <4> QED BY <1>5, <4>1, <4>2
    <3>2. CASE i = Len(ordered) + 1
      <4>1. ASSUME NEW d \in Needs(last) \cap selected PROVE \E j \in DOMAIN longer : j < i /\ longer[j] = d
        <5>1. PICK j \in DOMAIN ordered : ordered[j] = d
          BY <1>2, <1>3
        <5> QED BY <1>2, <1>5, <3>2, <5>1
      <4> QED BY <1>3, <1>5, <3>2, <4>1
    <3> QED BY <1>2, <1>5, <3>1, <3>2
  <2> QED BY <2>1, <2>2 DEF OrderedOK
<1>7. PICK kept : kept = SubSeq(path, 1, n - 1)
  OBVIOUS
<1>8. /\ path' = kept /\ kept \in Seq(Visit) /\ DOMAIN kept = 1..(n - 1)
      /\ \A i \in 1..(n - 1) : kept[i] = path[i]
  BY <1>1, <1>2, <1>7
<1>9. PathOK(selected, kept, longer)
  <2>1. ASSUME NEW i \in 1..(n - 1)
        PROVE  /\ kept[i].name \in selected \ ToSet(longer)
               /\ kept[i].left \subseteq Needs(kept[i].name) \cap selected
               /\ \A d \in (Needs(kept[i].name) \cap selected) \ kept[i].left :
                    d \in ToSet(longer) \/ (i + 1 \in DOMAIN kept /\ kept[i + 1].name = d)
               /\ i + 1 \in DOMAIN kept => kept[i + 1].name \in Needs(kept[i].name) \cap selected
    <3>1. i \in DOMAIN path /\ i + 1 \in DOMAIN path /\ i # n /\ kept[i] = path[i]
      BY <1>2, <1>8
    <3>2. /\ path[i].name \in selected \ ToSet(ordered) /\ path[i].name # last
          /\ path[i].left \subseteq Needs(path[i].name) \cap selected
          /\ \A d \in (Needs(path[i].name) \cap selected) \ path[i].left : d \in ToSet(ordered) \/ path[i + 1].name = d
          /\ path[i + 1].name \in Needs(path[i].name) \cap selected
      <4>1. n \in DOMAIN path /\ path[n].name = last
        BY <1>0, <1>2
      <4>2. /\ path[i].name \in selected \ ToSet(ordered) /\ (path[i].name = path[n].name => i = n)
            /\ path[i].left \subseteq Needs(path[i].name) \cap selected
        BY <1>1, <3>1, <4>1, VisitFacts
      <4>3. /\ \A d \in (Needs(path[i].name) \cap selected) \ path[i].left : d \in ToSet(ordered) \/ path[i + 1].name = d
            /\ path[i + 1].name \in Needs(path[i].name) \cap selected
        BY <1>1, <3>1, VisitFacts
      <4> QED BY <3>1, <4>1, <4>2, <4>3
    <3>3. path[i].name \notin ToSet(longer)
      BY <1>5, <3>2
    <3>4. CASE i + 1 = n
      <4>1. path[i + 1].name = last /\ i + 1 \notin DOMAIN kept
        BY <1>0, <1>2, <1>8, <3>4
      <4> QED BY <1>5, <3>1, <3>2, <3>3, <4>1
    <3>5. CASE i + 1 # n
      <4>1. i + 1 \in DOMAIN kept /\ kept[i + 1] = path[i + 1]
        BY <1>2, <1>8, <3>5
      <4> QED BY <1>5, <3>1, <3>2, <3>3, <4>1
    <3> QED BY <3>4, <3>5
  <2>2. \A i, j \in DOMAIN kept : kept[i].name = kept[j].name => i = j
    <3>1. \A i, j \in DOMAIN path : path[i].name = path[j].name => i = j
      BY <1>1 DEF PathOK
    <3> QED BY <1>2, <1>8, <3>1
  <2> QED BY <1>8, <2>1, <2>2 DEF PathOK
<1>10. SortOK'
  BY <1>1, <1>5, <1>6, <1>8, <1>9, SortIsKept
<1> QED BY <1>1, <1>5, <1>8, <1>10, SortStepKeeps

(* What is in order when the sort is over.                                 *)
LEMMA SortedFacts ==
  ASSUME GraphIInv, Sorted
  PROVE  /\ GraphTypeOK /\ LoopInv /\ RestartInv /\ Sorting /\ at \notin {"idle", "done"}
         /\ Orders(ordered, selected) /\ ~HasCycle(selected) /\ ordered # Error /\ ToSet(ordered) = selected
         /\ ordered \in Seq(Installed) /\ selected \subseteq Installed
<1>1. GraphTypeOK /\ LoopInv /\ RestartInv /\ Sorting /\ SortOK /\ at \notin {"idle", "done"} /\ path = <<>>
  BY DEF GraphIInv, Sorted, Sorting, Visiting
<1>2. selected \subseteq ToSet(ordered)
  BY DEF Sorted, Unordered
<1> QED BY <1>1, <1>2, SortedIsOrdered DEF Orders, GraphTypeOK

(* The answer ends the command: what it says of the request is all there   *)
(* is to show.                                                             *)
LEMMA AnswerKeeps ==
  ASSUME GraphIInv, NEW list \in Seq(Name \cup {0}), Answer(list), at \notin {"idle", "done"},
         asked.cmd \in {"start", "restart", "restart_cascade"} =>
           Absent \notin ToStart /\ ~HasCycle(ToStart) /\ list # Error /\ Orders(list, ToStart),
         asked.cmd \in {"stop", "stop_cascade"} /\ Absent \notin asked.names =>
           ~HasCycle(ToStop) /\ Orders(Reverse(list), ToStop)
  PROVE  GraphIInv'
<1>1. /\ needs' = needs /\ profiled' = profiled /\ asked' = asked /\ todo' = todo /\ starts' = starts /\ requested' = requested
      /\ stack' = stack /\ found' = found /\ selected' = selected /\ path' = path /\ ordered' = ordered
      /\ answer' = list /\ at' = "done"
  BY DEF Answer
<1>2. GraphTypeOK'
  BY <1>1 DEF GraphIInv, GraphTypeOK
<1>3. CollectInv' /\ RestartInv' /\ ~Sorting'
  BY <1>1 DEF CollectInv, RestartInv, Sorting
<1>4. LoopInv'
  BY <1>1 DEF LoopInv, GraphIInv
<1>5. OrderServesNeeds'
  <2>1. ToStart' = ToStart /\ ToStop' = ToStop
    BY <1>1, SameCommand
  <2>2. \A set : HasCycle(set)' = HasCycle(set) /\ \A order : Orders(order, set)' = Orders(order, set)
    BY <1>1, SameGraph
  <2>3. /\ HasCycle(ToStart)' = HasCycle(ToStart) /\ HasCycle(ToStop)' = HasCycle(ToStop)
        /\ Orders(answer, ToStart)' = Orders(list, ToStart)
        /\ Orders(Reverse(answer), ToStop)' = Orders(Reverse(list), ToStop)
    <3>1. Orders(list, ToStart)' = Orders(list, ToStart) /\ Orders(Reverse(list), ToStop)' = Orders(Reverse(list), ToStop)
      BY <2>1, <2>2
    <3> QED BY <1>1, <2>1, <2>2, <3>1
  <2> QED BY <1>1, <2>1, <2>3 DEF OrderServesNeeds
<1> QED BY <1>2, <1>3, <1>4, <1>5 DEF GraphIInv

LEMMA AnswerStopKeeps == GraphIInv /\ AnswerStop => GraphIInv'
<1> SUFFICES ASSUME GraphIInv, AnswerStop PROVE GraphIInv'
  OBVIOUS
<1>1. /\ Sorted /\ at = "sort_stops" /\ asked.cmd # "restart_cascade"
      /\ Answer(Reverse(ordered) \o (IF Absent \in found THEN <<Absent>> ELSE <<>>))
  BY DEF AnswerStop
<1>2. /\ GraphTypeOK /\ LoopInv /\ Orders(ordered, selected) /\ ~HasCycle(selected)
      /\ found = ToStop /\ selected = found \cap Installed /\ asked.cmd \in {"stop", "stop_cascade"}
  BY <1>1, SortedFacts DEF LoopInv, Cascade
<1>3. PICK list : list = Reverse(ordered) \o (IF Absent \in found THEN <<Absent>> ELSE <<>>)
  OBVIOUS
<1>4. Reverse(ordered) \in Seq(Installed) /\ Reverse(Reverse(ordered)) = ordered
  BY <1>2, OrderedReversed
<1>5. list \in Seq(Name \cup {0})
  <2>1. Reverse(ordered) \in Seq(Name \cup {0})
    BY <1>4 DEF Name
  <2>2. (IF Absent \in found THEN <<Absent>> ELSE <<>>) \in Seq(Name \cup {0})
    <3>1. Absent \in Name \cup {0}
      BY DEF Name
    <3>2. <<Absent>> \in Seq(Name \cup {0}) /\ <<>> \in Seq(Name \cup {0})
      BY <3>1
    <3> QED BY <3>2
  <2> QED BY <1>3, <2>1, <2>2
<1>6. ASSUME Absent \notin asked.names PROVE ~HasCycle(ToStop) /\ Orders(Reverse(list), ToStop)
  <2>1. ToStop \subseteq asked.names \cup Installed /\ asked.names \subseteq Name
    BY <1>1, <1>2, CommandFacts DEF ToStop
  <2>2. ToStop \subseteq Installed
    BY <1>6, <2>1 DEF Name
  <2>3. selected = ToStop /\ Absent \notin found
    BY <1>2, <2>2, NeedsAreNames
  <2>4. list = Reverse(ordered)
    BY <1>3, <1>4, <2>3
  <2> QED BY <1>2, <1>4, <2>3, <2>4
<1> QED BY <1>1, <1>2, <1>3, <1>5, <1>6, AnswerKeeps

LEMMA AnswerStartKeeps == GraphIInv /\ AnswerStart => GraphIInv'
<1> SUFFICES ASSUME GraphIInv, AnswerStart PROVE GraphIInv'
  OBVIOUS
<1>1. Sorted /\ Answer(ordered)
  BY DEF AnswerStart
<1>2. /\ GraphTypeOK /\ LoopInv /\ RestartInv /\ Orders(ordered, selected) /\ ~HasCycle(selected) /\ ordered # Error
      /\ ordered \in Seq(Installed) /\ selected \subseteq Installed /\ at \notin {"idle", "done"}
  BY <1>1, SortedFacts
<1>3. selected = ToStart /\ asked.cmd \in {"start", "restart", "restart_cascade"}
  <2>1. CASE at = "sort_all"
    <3>1. /\ asked.cmd = "restart_cascade" /\ selected = starts /\ Restarted \subseteq starts /\ starts \subseteq ToStart
          /\ (\A m \in starts : Needs(m) \subseteq starts) /\ starts \in SUBSET Name
      BY <1>2, <2>1, NeedsAreNames DEF LoopInv, RestartInv, GraphTypeOK
    <3>2. Closed(starts, NeedsWithin(Name))
      BY <1>2, <3>1, NeedsAreNames DEF Closed
    <3>3. /\ Restarted \in SUBSET Name /\ NeedsWithin(Name) \in [Name -> SUBSET Name]
          /\ ToStart = Reached(Restarted, NeedsWithin(Name))
      BY <1>2, <3>1, CommandFacts, NeedsAreNames
    <3>4. Reached(Restarted, NeedsWithin(Name)) \subseteq starts
      BY <3>1, <3>2, <3>3, ReachedFacts
    <3> QED BY <3>1, <3>3, <3>4
  <2>2. CASE at = "sort_starts" /\ asked.cmd # "restart_cascade"
    BY <1>2, <2>2 DEF LoopInv, ToStart
  <2> QED BY <2>1, <2>2 DEF AnswerStart
<1>4. Absent \notin ToStart /\ ordered \in Seq(Name \cup {0})
  BY <1>2, <1>3, NeedsAreNames DEF Name
<1>5. asked.cmd \notin {"stop", "stop_cascade"}
  BY <1>3
<1> QED BY <1>1, <1>2, <1>3, <1>4, <1>5, AnswerKeeps

LEMMA StopsResolvedKeeps == GraphIInv /\ StopsResolved => GraphIInv'
<1> SUFFICES ASSUME GraphIInv, StopsResolved PROVE GraphIInv'
  OBVIOUS
<1>1. /\ Sorted /\ at = "sort_stops" /\ asked.cmd = "restart_cascade"
      /\ at' = "restart" /\ todo' = asked.names \cup (ToSet(ordered) \ profiled') /\ profiled' \subseteq {Bot}
      /\ needs' = needs /\ asked' = asked /\ answer' = answer /\ starts' = starts /\ requested' = requested
      /\ stack' = stack /\ found' = found /\ selected' = selected /\ path' = path /\ ordered' = ordered
  BY DEF StopsResolved
<1>2. /\ GraphTypeOK /\ LoopInv /\ ToSet(ordered) = selected /\ starts = {}
      /\ selected = Dependents \cap Installed
  BY <1>1, SortedFacts DEF LoopInv, ToStop
<1>3. /\ asked.names \cup (ToSet(ordered) \ profiled') = asked.names \cup (Dependents \ profiled')
      /\ Dependents \subseteq Name /\ asked.names \subseteq Name
  BY <1>1, <1>2, CommandFacts
<1>4. Dependents' = Dependents
  BY <1>1, SameGraph DEF Dependents
<1>5. Restarted' = todo' /\ todo' \subseteq Name
  BY <1>1, <1>3, <1>4 DEF Restarted
<1>6. GraphTypeOK'
  BY <1>1, <1>2, <1>5 DEF GraphTypeOK
<1>7. LoopInv' /\ CollectInv' /\ ~Sorting' /\ OrderServesNeeds'
  BY <1>1, <1>2 DEF LoopInv, CollectInv, Sorting, OrderServesNeeds
<1>8. RestartInv'
  BY <1>1, <1>2, <1>5 DEF RestartInv
<1> QED BY <1>6, <1>7, <1>8 DEF GraphIInv

LEMMA RestartNextKeeps == GraphIInv /\ RestartNext => GraphIInv'
<1> SUFFICES ASSUME GraphIInv, RestartNext PROVE GraphIInv'
  OBVIOUS
<1>1. PICK name \in todo :
        /\ at = "restart" /\ at' = "collect_starts" /\ todo' = todo \ {name}
        /\ requested' = {name} /\ stack' = {name} /\ found' = {}
        /\ selected' = selected /\ path' = path /\ ordered' = ordered
        /\ needs' = needs /\ profiled' = profiled /\ asked' = asked /\ answer' = answer /\ starts' = starts
  BY DEF RestartNext, Closure
<1>2. /\ GraphTypeOK /\ LoopInv /\ RestartInv /\ asked.cmd = "restart_cascade" /\ name \in Name /\ name \in Restarted
  BY <1>1 DEF GraphIInv, GraphTypeOK, LoopInv, RestartInv
<1>3. GraphTypeOK'
  BY <1>1, <1>2 DEF GraphTypeOK
<1>4. ToStart' = ToStart /\ ToStop' = ToStop /\ Restarted' = Restarted /\ \A m : Needs(m)' = Needs(m)
  BY <1>1, SameCommand, SameGraph
<1>5. CollectInv'
  <2>1. Added' \in [Name -> SUBSET Name]
    <3>1. Dependent' \in [Name -> SUBSET Name] /\ NeedsWithin(Name)' \in [Name -> SUBSET Name]
      BY <1>1, <1>2, NeedsAreNames, SameGraph
    <3> QED BY <3>1 DEF Added
  <2>2. {name} \subseteq Reached({name}, Added')
    BY <1>2, <2>1, ReachedFacts
  <2> QED BY <1>1, <2>2 DEF CollectInv
<1>6. LoopInv' /\ ~Sorting' /\ OrderServesNeeds'
  BY <1>1, <1>2, <1>4 DEF LoopInv, Sorting, OrderServesNeeds
<1>7. RestartInv'
  BY <1>1, <1>2, <1>4 DEF RestartInv
<1> QED BY <1>3, <1>5, <1>6, <1>7 DEF GraphIInv

LEMMA StartResolvedKeeps == GraphIInv /\ StartResolved => GraphIInv'
<1> SUFFICES ASSUME GraphIInv, StartResolved PROVE GraphIInv'
  OBVIOUS
<1>1. /\ Sorted /\ at = "sort_starts" /\ asked.cmd = "restart_cascade"
      /\ at' = "restart" /\ starts' = starts \cup ToSet(ordered)
      /\ needs' = needs /\ profiled' = profiled /\ asked' = asked /\ answer' = answer /\ todo' = todo /\ requested' = requested
      /\ stack' = stack /\ found' = found /\ selected' = selected /\ path' = path /\ ordered' = ordered
  BY DEF StartResolved
<1>2. /\ GraphTypeOK /\ LoopInv /\ RestartInv /\ ToSet(ordered) = selected /\ selected \subseteq Installed
      /\ selected = Reached(requested, NeedsWithin(Name)) /\ requested \subseteq Restarted /\ requested \in SUBSET Name
  BY <1>1, SortedFacts DEF LoopInv, GraphTypeOK
<1>3. GraphTypeOK'
  BY <1>1, <1>2 DEF GraphTypeOK
<1>4. ToStart' = ToStart /\ ToStop' = ToStop /\ Restarted' = Restarted /\ \A m : Needs(m)' = Needs(m)
  BY <1>1, SameCommand, SameGraph
<1>5. /\ requested \subseteq selected /\ selected \subseteq ToStart /\ \A m \in selected : Needs(m) \subseteq selected
  <2>1. NeedsWithin(Name) \in [Name -> SUBSET Name]
    BY <1>2, NeedsAreNames
  <2>2. requested \subseteq selected /\ Closed(selected, NeedsWithin(Name)) /\ selected \subseteq Name
    BY <1>2, <2>1, ReachedFacts
  <2>3. \A m \in selected : Needs(m) \subseteq selected
    BY <1>2, <2>2, NeedsAreNames DEF Closed
  <2>4. requested \subseteq ToStart
    BY <1>1, <1>2, CommandFacts
  <2>5. selected \subseteq ToStart
    BY <1>1, <1>2, <2>4, CommandFacts
  <2> QED BY <2>2, <2>3, <2>5
<1>6. LoopInv' /\ CollectInv' /\ ~Sorting' /\ OrderServesNeeds'
  BY <1>1, <1>2 DEF LoopInv, CollectInv, Sorting, OrderServesNeeds
<1>7. RestartInv'
  <2>1. /\ todo \subseteq Restarted /\ Restarted \subseteq todo \cup starts \cup requested
        /\ starts \subseteq ToStart /\ \A m \in starts : Needs(m) \subseteq starts
    BY <1>1, <1>2 DEF RestartInv
  <2>2. starts' = starts \cup selected
    BY <1>1, <1>2
  <2> QED BY <1>1, <1>4, <1>5, <2>1, <2>2 DEF RestartInv
<1> QED BY <1>3, <1>6, <1>7 DEF GraphIInv

LEMMA RestartAllResolvedKeeps == GraphIInv /\ RestartAllResolved => GraphIInv'
<1> SUFFICES ASSUME GraphIInv, RestartAllResolved PROVE GraphIInv'
  OBVIOUS
<1>1. /\ at = "restart" /\ todo = {} /\ at' = "sort_all"
      /\ selected' = starts /\ path' = <<>> /\ ordered' = <<>> /\ stack' = {} /\ requested' = requested
      /\ needs' = needs /\ profiled' = profiled /\ asked' = asked /\ answer' = answer /\ todo' = todo /\ starts' = starts /\ found' = found
  BY DEF RestartAllResolved, Sort
<1>2. GraphTypeOK /\ LoopInv /\ RestartInv /\ asked.cmd = "restart_cascade"
  BY <1>1 DEF GraphIInv, LoopInv
<1>3. GraphTypeOK'
  <2>1. path' \in Seq(Visit) /\ ordered' \in Seq(Installed)
    BY <1>1
  <2> QED BY <1>1, <1>2, <2>1 DEF GraphTypeOK
<1>4. ToStart' = ToStart /\ ToStop' = ToStop /\ Restarted' = Restarted /\ \A m : Needs(m)' = Needs(m)
  BY <1>1, SameCommand, SameGraph
<1>5. LoopInv' /\ CollectInv' /\ OrderServesNeeds'
  BY <1>1, <1>2 DEF LoopInv, CollectInv, OrderServesNeeds
<1>6. RestartInv'
  BY <1>1, <1>2, <1>4 DEF RestartInv
<1>7. SortOK'
  BY <1>1, SortBegins
<1> QED BY <1>3, <1>5, <1>6, <1>7 DEF GraphIInv

LEMMA GraphStutterKeeps == GraphIInv /\ UNCHANGED graph_vars => GraphIInv'
<1> SUFFICES ASSUME GraphIInv, UNCHANGED graph_vars PROVE GraphIInv'
  OBVIOUS
<1>1. /\ needs' = needs /\ profiled' = profiled /\ asked' = asked /\ answer' = answer /\ at' = at /\ todo' = todo /\ starts' = starts
      /\ requested' = requested /\ stack' = stack /\ found' = found
      /\ selected' = selected /\ path' = path /\ ordered' = ordered
  BY DEF graph_vars
<1>2. /\ ToStart' = ToStart /\ ToStop' = ToStop /\ Restarted' = Restarted /\ (\A m : Needs(m)' = Needs(m))
      /\ NeedsWithin(Name)' = NeedsWithin(Name) /\ Dependent' = Dependent
      /\ \A set : HasCycle(set)' = HasCycle(set)
      /\ \A list, set : Orders(list, set)' = Orders(list, set)
  BY <1>1, SameCommand, SameGraph
<1>3. GraphTypeOK' /\ (Sorting' <=> Sorting)
  BY <1>1 DEF GraphIInv, GraphTypeOK, Sorting
<1>4. Added' = Added
  BY <1>1, <1>2 DEF Added
<1>5. CollectInv'
  BY <1>1, <1>4 DEF GraphIInv, CollectInv
<1>6. LoopInv' /\ RestartInv'
  BY <1>1, <1>2 DEF GraphIInv, LoopInv, RestartInv
<1>7. SortOK => SortOK'
  BY <1>1, SortIsKept DEF SortOK
<1>8. OrderServesNeeds'
  BY <1>1, <1>2 DEF GraphIInv, OrderServesNeeds
<1> QED BY <1>3, <1>5, <1>6, <1>7, <1>8 DEF GraphIInv

LEMMA GraphStarts == GraphInit => GraphIInv
<1> SUFFICES ASSUME GraphInit PROVE GraphIInv
  OBVIOUS
<1>1. GraphTypeOK
  <2>1. <<>> \in Seq(Visit) /\ <<>> \in Seq(Installed) /\ <<>> \in Seq(Name \cup {0})
    OBVIOUS
  <2> QED BY <2>1 DEF GraphInit, GraphTypeOK
<1>2. CollectInv /\ LoopInv /\ RestartInv /\ ~Sorting /\ OrderServesNeeds
  BY DEF GraphInit, CollectInv, LoopInv, RestartInv, Sorting, OrderServesNeeds
<1> QED BY <1>1, <1>2 DEF GraphIInv

LEMMA GraphStepKeeps == GraphIInv /\ [GraphNext]_graph_vars => GraphIInv'
BY AskKeeps, CollectStopKeeps, CollectStartKeeps, CollectDoneKeeps, VisitNextKeeps, VisitNeededKeeps, VisitedKeeps,
   AnswerStopKeeps, AnswerStartKeeps, StopsResolvedKeeps, RestartNextKeeps, StartResolvedKeeps, RestartAllResolvedKeeps,
   GraphStutterKeeps DEF GraphNext

LEMMA GraphIsKept == GraphSpec => []GraphIInv
BY GraphStarts, GraphStepKeeps, PTL DEF GraphSpec

(* Whatever the manifests say, a start and a cascading restart resolve to  *)
(* exactly the modules asked for and all they need, each after what it     *)
(* needs, or refuse exactly when one is not installed or they need each    *)
(* other in a circle; and a stop resolves to what needs what it stops,     *)
(* each before what it needs.                                              *)
THEOREM OrderIsServed == GraphSpec => []OrderServesNeeds
<1>1. GraphIInv => OrderServesNeeds
  BY DEF GraphIInv
<1> QED BY <1>1, GraphIsKept, PTL

=============================================================================
