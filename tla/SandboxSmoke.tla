---------------------------- MODULE SandboxSmoke ----------------------------
(***************************************************************************)
(* The smoke tests of the sandbox backends.  Each is a client under a      *)
(* timeout and something elsewhere that the client cannot take along when  *)
(* it is killed: over SSH a directory and a shell on the remote machine,   *)
(* once for the upload and once for the execution; with Modal a sandbox in *)
(* the cloud, terminated in a `finally`; with Docker a container.          *)
(*                                                                         *)
(* The same address may lead to another machine at the next connection.    *)
(* Two smokes of one target share nothing: the directory has a nonce.      *)
(***************************************************************************)
EXTENDS Naturals, FiniteSets

CONSTANTS
  Smoke,       \* invocations of a smoke, each once
  Machine,     \* machines that answer at the address of the target
  Nowhere      \* no machine

ASSUME SmokeAssumption == Nowhere \notin Machine

VARIABLES
  smoke,      \* the local client: step, options and what it answered
  shell,      \* the remote shell of a client: what it does, where, and
              \* whether the client is still at the other end
  probeFile,  \* probe.sh of a smoke on each machine: "absent", "part", "whole"
  ranOn,      \* history: the machine that ran the whole probe
  cloud,      \* Modal's sandbox: "none", "running"
  container,  \* Docker's container: "none", "running"
  image,      \* the Docker image has been built
  machine,    \* the one the address leads to
  recorded     \* smokes with an event in the audit log

smoke_vars == <<smoke, shell, probeFile, ranOn, cloud, container, image, machine, recorded>>

NoShell == [does |-> "nothing", on |-> Nowhere, linked |-> FALSE]
NotBegun == [backend |-> "none", at |-> "not_begun", keep |-> FALSE, ok |-> FALSE, warned |-> FALSE]

SmokeInit ==
  /\ smoke = [s \in Smoke |-> NotBegun]
  /\ shell = [s \in Smoke |-> NoShell]
  /\ probeFile = [s \in Smoke |-> [m \in Machine |-> "absent"]]
  /\ ranOn = [s \in Smoke |-> Nowhere]
  /\ cloud = [s \in Smoke |-> "none"] /\ container = [s \in Smoke |-> "none"]
  /\ image = FALSE /\ machine \in Machine /\ recorded = {}

elsewhere == <<shell, probeFile, ranOn, cloud, container, image, machine>>

SmokeAt(s, step) == smoke[s].at = step
SmokeGoes(s, step) == smoke' = [smoke EXCEPT ![s].at = step]
Fails(s) == SmokeGoes(s, "answer")
Passes(s) == smoke' = [smoke EXCEPT ![s].at = "answer", ![s].ok = TRUE]

(* Once the doctor's checks have passed; else it answers at once.          *)
BeginSmoke(s) ==
  /\ SmokeAt(s, "not_begun")
  /\ \E backend \in {"ssh", "modal", "docker"}, keep \in BOOLEAN, ready \in BOOLEAN :
       /\ keep => backend = "ssh"
       /\ smoke' = [smoke EXCEPT ![s] =
            [NotBegun EXCEPT !.backend = backend, !.keep = keep,
             !.at = IF ~ready THEN "answer"
                    ELSE CASE backend = "ssh" -> "upload" [] backend = "modal" -> "create"
                           [] backend = "docker" -> "build"]]
  /\ UNCHANGED <<elsewhere, recorded>>

(* Docker's smoke writes no audit event.                                   *)
Answer(s) ==
  /\ SmokeAt(s, "answer") /\ SmokeGoes(s, "ended")
  /\ recorded' = IF smoke[s].backend = "docker" THEN recorded ELSE recorded \cup {s}
  /\ UNCHANGED elsewhere

KillSmoke(s) ==
  /\ smoke[s].at \notin {"not_begun", "ended", "killed"}
  /\ SmokeGoes(s, "killed")
  /\ shell' = [shell EXCEPT ![s].linked = FALSE]
  /\ UNCHANGED <<probeFile, ranOn, cloud, container, image, machine, recorded>>

AddressMoves ==
  /\ machine' \in Machine \ {machine}
  /\ UNCHANGED <<smoke, shell, probeFile, ranOn, cloud, container, image, recorded>>

-----------------------------------------------------------------------------
(* SSH: upload to a new directory, then check the hash and execute.        *)

OpenShell(s, does) == shell' = [shell EXCEPT ![s] = [does |-> does, on |-> machine, linked |-> TRUE]]

ConnectFor(s, step) ==
  /\ SmokeAt(s, step) /\ shell[s] = NoShell
  /\ OpenShell(s, IF step = "upload" THEN "make" ELSE "check")
  /\ UNCHANGED <<smoke, probeFile, ranOn, cloud, container, image, machine, recorded>>

(* No connection; or it is lost, or times out and the client is killed.    *)
ConnectionFails(s) ==
  /\ SmokeAt(s, "upload") \/ SmokeAt(s, "execute")
  /\ Fails(s)
  /\ shell' = [shell EXCEPT ![s].linked = FALSE]
  /\ UNCHANGED <<probeFile, ranOn, cloud, container, image, machine, recorded>>

Shell(s, does) == shell[s].does = does
FileBecomes(s, state) == probeFile' = [probeFile EXCEPT ![s][shell[s].on] = state]
ShellGoesOn(s, does) == shell' = [shell EXCEPT ![s].does = does]

MakeDirectory(s) ==
  /\ Shell(s, "make") /\ FileBecomes(s, "part") /\ ShellGoesOn(s, "receive")
  /\ UNCHANGED <<smoke, ranOn, cloud, container, image, machine, recorded>>

(* Without its client `cat` meets the end of its input, or the trap of the *)
(* upload removes the directory.                                           *)
ReceiveFile(s) ==
  /\ Shell(s, "receive")
  /\ \/ FileBecomes(s, "whole")
     \/ ~shell[s].linked /\ (FileBecomes(s, "part") \/ FileBecomes(s, "absent"))
  /\ shell' = [shell EXCEPT ![s] = NoShell]
  /\ IF shell[s].linked THEN SmokeGoes(s, "execute") ELSE UNCHANGED smoke
  /\ UNCHANGED <<ranOn, cloud, container, image, machine, recorded>>

CheckAndRun(s) ==
  /\ Shell(s, "check")
  /\ IF probeFile[s][shell[s].on] = "whole"
     THEN ranOn' = [ranOn EXCEPT ![s] = shell[s].on] /\ ShellGoesOn(s, "exit_0")
     ELSE UNCHANGED ranOn /\ ShellGoesOn(s, "exit_42")
  /\ UNCHANGED <<smoke, probeFile, cloud, container, image, machine, recorded>>

(* The trap on EXIT; a shell whose client is gone may die without it.      *)
CleanUp_AfterFailure(s) == IF Shell(s, "exit_42") THEN FileBecomes(s, "absent") ELSE UNCHANGED probeFile
CleanUp(s) ==
  \/ smoke[s].keep /\ UNCHANGED probeFile
  \/ ~smoke[s].keep /\ FileBecomes(s, "absent")
  \/ ~shell[s].linked /\ UNCHANGED probeFile

ShellExits(s) ==
  /\ Shell(s, "exit_0") \/ Shell(s, "exit_42")
  /\ CleanUp(s)
  /\ IF ~shell[s].linked THEN UNCHANGED smoke
     ELSE IF Shell(s, "exit_0") THEN Passes(s) ELSE Fails(s)
  /\ shell' = [shell EXCEPT ![s] = NoShell]
  /\ UNCHANGED <<ranOn, cloud, container, image, machine, recorded>>

-----------------------------------------------------------------------------
(* Modal: the script creates the sandbox, runs the probe and terminates    *)
(* the sandbox, whatever happened; a failure of that is only a warning.    *)

CreateSandbox(s) ==
  /\ SmokeAt(s, "create")
  /\ \/ Fails(s) /\ UNCHANGED cloud
     \/ SmokeGoes(s, "exec") /\ cloud' = [cloud EXCEPT ![s] = "running"]
  /\ UNCHANGED <<shell, probeFile, ranOn, container, image, machine, recorded>>

ExecProbe(s) ==
  /\ SmokeAt(s, "exec")
  /\ \E ok \in BOOLEAN : smoke' = [smoke EXCEPT ![s].at = "terminate", ![s].ok = ok]
  /\ UNCHANGED <<elsewhere, recorded>>

TerminateSandbox(s) ==
  /\ SmokeAt(s, "terminate")
  /\ \/ cloud' = [cloud EXCEPT ![s] = "none"] /\ Fails(s)
     \/ UNCHANGED cloud /\ smoke' = [smoke EXCEPT ![s].at = "answer", ![s].warned = TRUE]
  /\ UNCHANGED <<shell, probeFile, ranOn, container, image, machine, recorded>>

(* The script is killed, and its `finally` with it.                        *)
ModalTimesOut(s) ==
  /\ SmokeAt(s, "create") \/ SmokeAt(s, "exec") \/ SmokeAt(s, "terminate")
  /\ smoke' = [smoke EXCEPT ![s].at = "answer", ![s].ok = FALSE]
  /\ cloud' \in {cloud, [cloud EXCEPT ![s] = IF SmokeAt(s, "create") THEN "running" ELSE @]}
  /\ UNCHANGED <<shell, probeFile, ranOn, container, image, machine, recorded>>

SandboxExpires(s) ==
  /\ cloud[s] = "running" /\ ~SmokeAt(s, "exec")
  /\ cloud' = [cloud EXCEPT ![s] = "none"]
  /\ UNCHANGED <<smoke, shell, probeFile, ranOn, container, image, machine, recorded>>

-----------------------------------------------------------------------------
(* Docker: build, unless told not to, and run with --rm.                   *)

BuildImage(s) ==
  /\ SmokeAt(s, "build")
  /\ \/ image' = TRUE /\ SmokeGoes(s, "run")
     \/ UNCHANGED image /\ (SmokeGoes(s, "run") \/ Fails(s))
  /\ UNCHANGED <<shell, probeFile, ranOn, cloud, container, machine, recorded>>

RunContainer(s) ==
  /\ SmokeAt(s, "run") /\ image /\ SmokeGoes(s, "wait")
  /\ container' = [container EXCEPT ![s] = "running"]
  /\ UNCHANGED <<shell, probeFile, ranOn, cloud, image, machine, recorded>>

(* No image, no daemon, or the client times out.                           *)
RunFails(s) ==
  /\ SmokeAt(s, "run") \/ SmokeAt(s, "wait")
  /\ Fails(s)
  /\ UNCHANGED <<elsewhere, recorded>>

ContainerExits(s) ==
  /\ container[s] = "running"
  /\ container' = [container EXCEPT ![s] = "none"]
  /\ IF SmokeAt(s, "wait") THEN Passes(s) \/ Fails(s) ELSE UNCHANGED smoke
  /\ UNCHANGED <<shell, probeFile, ranOn, cloud, image, machine, recorded>>

SmokeNext ==
  \/ \E s \in Smoke :
       \/ BeginSmoke(s) \/ Answer(s) \/ KillSmoke(s)
       \/ ConnectFor(s, "upload") \/ ConnectFor(s, "execute") \/ ConnectionFails(s)
       \/ MakeDirectory(s) \/ ReceiveFile(s) \/ CheckAndRun(s) \/ ShellExits(s)
       \/ CreateSandbox(s) \/ ExecProbe(s) \/ TerminateSandbox(s) \/ ModalTimesOut(s) \/ SandboxExpires(s)
       \/ BuildImage(s) \/ RunContainer(s) \/ RunFails(s) \/ ContainerExits(s)
  \/ AddressMoves

SmokeSpec == SmokeInit /\ [][SmokeNext]_smoke_vars

-----------------------------------------------------------------------------
SmokeRecord ==
  [backend : {"none", "ssh", "modal", "docker"},
   at : {"not_begun", "upload", "execute", "create", "exec", "terminate", "build", "run", "wait",
         "answer", "ended", "killed"},
   keep : BOOLEAN, ok : BOOLEAN, warned : BOOLEAN]
ShellRecord ==
  [does : {"nothing", "make", "receive", "check", "exit_0", "exit_42"}, on : Machine \cup {Nowhere}, linked : BOOLEAN]

SmokeTypes ==
  /\ smoke \in [Smoke -> SmokeRecord] /\ shell \in [Smoke -> ShellRecord]
  /\ probeFile \in [Smoke -> [Machine -> {"absent", "part", "whole"}]]
  /\ ranOn \in [Smoke -> Machine \cup {Nowhere}]
  /\ cloud \in [Smoke -> {"none", "running"}] /\ container \in [Smoke -> {"none", "running"}]

SmokeTypeOK == SmokeTypes /\ image \in BOOLEAN /\ machine \in Machine /\ recorded \subseteq Smoke

(* A smoke that answers ok ran the whole probe, over SSH on the machine it *)
(* uploaded to although the address may have moved in between; and nothing *)
(* of it is left, neither directory, shell, sandbox nor container, unless  *)
(* it was told to keep the files or printed a cleanup warning.             *)
OkSmokeIsOver ==
  \A s \in Smoke : SmokeAt(s, "ended") /\ smoke[s].ok =>
    /\ smoke[s].backend = "ssh" => ranOn[s] # Nowhere
    /\ shell[s] = NoShell /\ container[s] = "none"
    /\ cloud[s] = "running" => smoke[s].warned
    /\ \A m \in Machine : probeFile[s][m] # "absent" => smoke[s].keep /\ m = ranOn[s]

-----------------------------------------------------------------------------
(* The inductive invariant behind the theorem.                             *)
NoFiles(s) == \A m \in Machine : probeFile[s][m] = "absent"
FilesOnlyOn(s, where) == \A m \in Machine : probeFile[s][m] # "absent" => m = where
HasAnswered(s) == SmokeAt(s, "answer") \/ SmokeAt(s, "ended")

(* Each backend leaves alone what is another's.                            *)
BackendOK(s) ==
  /\ SmokeAt(s, "upload") \/ SmokeAt(s, "execute") => smoke[s].backend = "ssh"
  /\ SmokeAt(s, "create") \/ SmokeAt(s, "exec") \/ SmokeAt(s, "terminate") => smoke[s].backend = "modal"
  /\ SmokeAt(s, "build") \/ SmokeAt(s, "run") \/ SmokeAt(s, "wait") => smoke[s].backend = "docker"
  /\ SmokeAt(s, "not_begun") => smoke[s].backend = "none"
  /\ smoke[s].ok => SmokeAt(s, "terminate") \/ HasAnswered(s) \/ SmokeAt(s, "killed")
  /\ smoke[s].backend # "ssh" => shell[s] = NoShell /\ NoFiles(s)
  /\ smoke[s].backend # "modal" => cloud[s] = "none"
  /\ smoke[s].backend # "docker" => container[s] = "none"

(* The shell of a client that is still there does the client's step.       *)
ShellOK(s) ==
  /\ shell[s] = NoShell <=> Shell(s, "nothing")
  /\ ~Shell(s, "nothing") => shell[s].on \in Machine
  /\ SmokeAt(s, "upload") => shell[s] = NoShell \/ (shell[s].linked /\ (Shell(s, "make") \/ Shell(s, "receive")))
  /\ SmokeAt(s, "execute") =>
       shell[s] = NoShell \/ (shell[s].linked /\ (Shell(s, "check") \/ Shell(s, "exit_0") \/ Shell(s, "exit_42")))
  /\ shell[s].linked => SmokeAt(s, "upload") \/ SmokeAt(s, "execute")

(* While the client is there the probe is on one machine at most, the one  *)
(* that it was uploaded to.                                                *)
FilesOK(s) ==
  /\ SmokeAt(s, "upload") => IF Shell(s, "receive") THEN FilesOnlyOn(s, shell[s].on) ELSE NoFiles(s)
  /\ SmokeAt(s, "execute") =>
       /\ \E where \in Machine : FilesOnlyOn(s, where)
       /\ Shell(s, "exit_0") => ranOn[s] = shell[s].on /\ FilesOnlyOn(s, ranOn[s])

(* What a good answer has left.                                            *)
AnswerOK(s) ==
  /\ smoke[s].ok /\ HasAnswered(s) =>
       /\ smoke[s].backend = "ssh" => ranOn[s] \in Machine
       /\ shell[s] = NoShell /\ container[s] = "none"
       /\ cloud[s] = "running" => smoke[s].warned
       /\ \A m \in Machine : probeFile[s][m] # "absent" => smoke[s].keep /\ m = ranOn[s]
  /\ SmokeAt(s, "build") \/ SmokeAt(s, "run") => container[s] = "none"

SmokeRunOK(s) == BackendOK(s) /\ ShellOK(s) /\ FilesOK(s) /\ AnswerOK(s)

SmokeIInv == SmokeTypes /\ \A s \in Smoke : SmokeRunOK(s)

=============================================================================
