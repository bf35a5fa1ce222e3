----------------------------- MODULE ProcessLog ------------------------------
(***************************************************************************)
(* One process log: the invocations of the CLI append entries to it and    *)
(* compact it under a lock, the module's process appends its own output    *)
(* through a descriptor it got at its start and knows no lock, and the     *)
(* redaction of `spark fix secrets` replaces the file, with no lock        *)
(* either, when it has seen no live process.                               *)
(*                                                                         *)
(* The file is a sequence of lines of the same size: 0 for one the process *)
(* wrote, n for the n-th entry.  A compaction drops the line its window    *)
(* begins in.                                                              *)
(***************************************************************************)
EXTENDS Naturals, Sequences

CONSTANTS
  Logger,              \* invocations of the CLI
  MaxLog,              \* MAX_PROCESS_LOG_BYTES, in lines
  MaxEntries, MaxOutput, MaxLogKills, MaxRedactions   \* bounds

Free == "free"

(* The process writes at most MaxOutput lines between two appends; the     *)
(* window holds them, the entry and the line it drops.                     *)
ASSUME LogAssumption ==
  /\ Free \notin Logger
  /\ MaxLog \in Nat /\ MaxLog >= MaxOutput + 2
  /\ MaxEntries \in Nat /\ MaxOutput \in Nat /\ MaxLogKills \in Nat /\ MaxRedactions \in Nat

VARIABLES
  log,        \* the file's lines
  writer,     \* the process's descriptor: "none", this file, or a replaced one
  logger,     \* where each invocation is
  logLock,    \* the invocation that holds the lock, or "free"
  redaction,  \* the redaction that runs, with the text it read
  newest,     \* history: the last entry whose append has ended, 0 if a later
              \* one was begun or the file was replaced since
  output,     \* lines of the process since the last append
  entries, logKills, redactions

log_vars == <<log, writer, logger, logLock, redaction, newest, entries, output, logKills, redactions>>

Process == 0        \* who wrote a line that is no entry
NotLogging == [at |-> "idle"]
NotRedacting == [at |-> "idle"]

LogInit ==
  /\ log = <<>> /\ writer = "none"
  /\ logger = [c \in Logger |-> NotLogging] /\ logLock = Free
  /\ redaction = NotRedacting /\ newest = 0
  /\ entries = 0 /\ output = 0 /\ logKills = 0 /\ redactions = 0

-----------------------------------------------------------------------------
(* append_process_log and compact_process_log.                             *)

LockFree_Ignored(c) == TRUE
LockFree(c) == logLock = Free

LockLog(c) ==
  /\ logger[c] = NotLogging /\ entries < MaxEntries
  /\ LockFree(c)
  /\ logLock' = c
  /\ entries' = entries + 1
  /\ logger' = [logger EXCEPT ![c] = [at |-> "append", entry |-> entries + 1, spoilt |-> FALSE]]
  /\ UNCHANGED <<log, writer, redaction, newest, output, logKills, redactions>>

AppendEntry(c) ==
  /\ logger[c].at = "append"
  /\ log' = Append(log, logger[c].entry)
  /\ newest' = 0
  /\ logger' = [logger EXCEPT ![c].at = "measure"]
  /\ output' = 0
  /\ UNCHANGED <<writer, logLock, redaction, entries, logKills, redactions>>

(* What is kept: the last MaxLog lines but the first of them.              *)
Retained(file) == SubSeq(file, Len(file) - MaxLog + 2, Len(file))

MeasureLog(c) ==
  /\ logger[c].at = "measure"
  /\ logger' = [logger EXCEPT ![c] = IF Len(log) <= MaxLog
                                       THEN [@ EXCEPT !.at = "unlock"]
                                       ELSE [at |-> "overwrite", entry |-> @.entry, spoilt |-> @.spoilt,
                                             keep |-> Retained(log)]]
  /\ UNCHANGED <<log, writer, logLock, redaction, newest, entries, output, logKills, redactions>>

(* The retained lines go over the beginning of the file, which is cut     *)
(* after them: so is what the process has written since.                   *)
OverwriteLog(c) ==
  LET keep == logger[c].keep IN
  /\ logger[c].at = "overwrite"
  /\ log' = keep \o SubSeq(log, Len(keep) + 1, Len(log))
  /\ logger' = [logger EXCEPT ![c].at = "truncate"]
  /\ UNCHANGED <<writer, logLock, redaction, newest, entries, output, logKills, redactions>>

TruncateLog(c) ==
  LET keep == logger[c].keep IN
  /\ logger[c].at = "truncate"
  /\ log' = SubSeq(log, 1, IF Len(keep) < Len(log) THEN Len(keep) ELSE Len(log))
  /\ logger' = [logger EXCEPT ![c] = [at |-> "unlock", entry |-> @.entry, spoilt |-> @.spoilt]]
  /\ UNCHANGED <<writer, logLock, redaction, newest, entries, output, logKills, redactions>>

UnlockLog(c) ==
  /\ logger[c].at = "unlock"
  /\ logLock' = Free
  /\ newest' = IF redaction = NotRedacting /\ ~logger[c].spoilt THEN logger[c].entry ELSE 0
  /\ logger' = [logger EXCEPT ![c] = NotLogging]
  /\ UNCHANGED <<log, writer, redaction, entries, output, logKills, redactions>>

(* The system releases the lock of a killed invocation.                    *)
KillLogger(c) ==
  /\ logger[c] # NotLogging /\ logKills < MaxLogKills
  /\ logKills' = logKills + 1
  /\ logLock' = IF logLock = c THEN Free ELSE logLock
  /\ logger' = [logger EXCEPT ![c] = NotLogging]
  /\ UNCHANGED <<log, writer, redaction, newest, entries, output, redactions>>

-----------------------------------------------------------------------------
(* The module's process, whose descriptor appends.                         *)

StartWriter ==
  /\ writer = "none"
  /\ writer' = "this file"
  /\ UNCHANGED <<log, logger, logLock, redaction, newest, entries, output, logKills, redactions>>

EndWriter ==
  /\ writer # "none"
  /\ writer' = "none"
  /\ UNCHANGED <<log, logger, logLock, redaction, newest, entries, output, logKills, redactions>>

WriteOutput ==
  /\ writer # "none" /\ output < MaxOutput
  /\ output' = output + 1
  /\ log' = IF writer = "this file" THEN Append(log, Process) ELSE log
  /\ UNCHANGED <<writer, logger, logLock, redaction, newest, entries, logKills, redactions>>

-----------------------------------------------------------------------------
(* redact_secret_surface_logs: blocked while a tracked process is alive,   *)
(* then the file is read, and replaced.                                    *)

ReadForRedaction ==
  /\ redaction = NotRedacting /\ redactions < MaxRedactions /\ writer = "none"
  /\ redaction' = [at |-> "replace", text |-> log]
  /\ redactions' = redactions + 1
  /\ newest' = 0
  /\ UNCHANGED <<log, writer, logger, logLock, entries, output, logKills>>

(* A compaction that has the old file open goes on there.                  *)
ReplaceRedacted ==
  /\ redaction # NotRedacting
  /\ log' = redaction.text
  /\ writer' = IF writer = "none" THEN writer ELSE "replaced file"
  /\ redaction' = NotRedacting
  /\ logger' = [c \in Logger |->
       IF logger[c] = NotLogging THEN NotLogging
       ELSE [at |-> IF logger[c].at \in {"append", "measure"} THEN logger[c].at ELSE "unlock",
             entry |-> logger[c].entry, spoilt |-> TRUE]]
  /\ UNCHANGED <<logLock, newest, entries, output, logKills, redactions>>

LogNext ==
  \/ \E c \in Logger :
       \/ LockLog(c) \/ AppendEntry(c) \/ MeasureLog(c) \/ OverwriteLog(c) \/ TruncateLog(c)
       \/ UnlockLog(c) \/ KillLogger(c)
  \/ StartWriter \/ EndWriter \/ WriteOutput
  \/ ReadForRedaction \/ ReplaceRedacted

LogSpec == LogInit /\ [][LogNext]_log_vars

-----------------------------------------------------------------------------

Line == {Process} \cup 1..MaxEntries
LogTypeOK ==
  /\ log \in Seq(Line)
  /\ writer \in {"none", "this file", "replaced file"} /\ logLock \in Logger \cup {Free}
  /\ newest \in 0..MaxEntries

(* The entry of the last append that ended is in the file until a later    *)
(* one is begun: no concurrent append, compaction or process output takes  *)
(* it away, killed ones included (only a redaction at the same time does). *)
NewestEntryIsKept ==
  newest # 0 => \E i \in DOMAIN log : log[i] = newest

-----------------------------------------------------------------------------
(* What the steps preserve, and what the property follows from.            *)

Holds(file, line) == \E i \in DOMAIN file : file[i] = line

Appending == [at : {"append", "measure", "unlock"}, entry : 1..MaxEntries, spoilt : BOOLEAN]
Compacting == [at : {"overwrite", "truncate"}, entry : 1..MaxEntries, spoilt : BOOLEAN, keep : Seq(Line)]

(* An entry just appended has behind it what the process wrote since; what *)
(* a compaction keeps has the entry, and is then the beginning of the file.*)
EntryIsKept(c) ==
  /\ logger[c].at = "measure" => \E k \in 0..output : k < Len(log) /\ log[Len(log) - k] = logger[c].entry
  /\ logger[c].at \in {"overwrite", "truncate"} => Holds(logger[c].keep, logger[c].entry)
  /\ logger[c].at = "truncate" => /\ Len(logger[c].keep) <= Len(log)
                                  /\ \A i \in DOMAIN logger[c].keep : log[i] = logger[c].keep[i]
  /\ logger[c].at = "unlock" => Holds(log, logger[c].entry)

LoggersOK ==
  /\ logger \in [Logger -> {NotLogging} \cup Appending \cup Compacting]
  /\ \A c \in Logger : logger[c] # NotLogging => logLock = c

EntriesAreKept == \A c \in Logger : logger[c] # NotLogging /\ ~logger[c].spoilt => EntryIsKept(c)

(* While newest is set nothing runs that could take its entry away. *)
NewestIsQuiet ==
  newest # 0 => redaction = NotRedacting /\ \A c \in Logger : logger[c].at \in {"idle", "append"}

LogIInv ==
  /\ LogTypeOK /\ entries \in 0..MaxEntries /\ output \in 0..MaxOutput
  /\ redaction \in {NotRedacting} \cup [at : {"replace"}, text : Seq(Line)]
  /\ LoggersOK /\ EntriesAreKept /\ NewestIsQuiet /\ NewestEntryIsKept

=============================================================================
