------------------------------ MODULE BrowserUse ------------------------------
(***************************************************************************)
(* `spark browser-use`: install, probe, open, screenshot, task and status. *)
(* A command drives sessions of an external browser, a step at a time, and *)
(* leaves files: the proof of a probe with its screenshot, and a receipt   *)
(* for each action and task.  `status` reads the proof again, later.       *)
(*                                                                         *)
(* Every probe uses one session and one screenshot file; an action's       *)
(* session is named by its URL and the second it began in.  The actions    *)
(* here are of one URL, since different URLs share nothing.                *)
(***************************************************************************)
EXTENDS Naturals, Sequences

CONSTANTS
  BrowserUser,     \* invocations that may run at the same time
  ProofTtl,        \* BROWSER_USE_PROOF_TTL_SECONDS, in units of the clock
  MaxNow,          \* bound of the clock
  MaxBrowses       \* bound of the commands begun

ASSUME BrowserAssumption == ProofTtl \in Nat /\ MaxNow \in Nat \ {0} /\ MaxBrowses \in Nat

VARIABLES
  browse,      \* each invocation: what it does and how far it is
  page,        \* what each session of the browser shows
  proof,       \* status.json
  shot,        \* the probe's screenshot file is there
  receipt,     \* actions/<session>.json and, of a task, tasks/<session>.json
  picture,     \* actions/<session>.png: the invocation that wrote it
  package, onPath,  \* the Python package; the CLI that is found
  now, begun,
  abandoned    \* history: sessions not closed since a kill, or a close that failed

browser_vars == <<browse, page, proof, shot, receipt, picture, package, onPath, now, begun, abandoned>>
browser_files == <<proof, shot, receipt, picture>>
around == <<package, onPath, now, begun>>

ProbeSession == 0
Session == 0..MaxNow                       \* an action's is the second it began in
NoOne == "no one"
Idle == [does |-> "nothing", at |-> "idle", passed |-> 0, began |-> 0, saw |-> {}, alone |-> TRUE, ok |-> FALSE]
NoProof == [says |-> "nothing", since |-> 0, passed |-> 0, true |-> FALSE, alone |-> TRUE]

BrowserInit ==
  /\ browse = [u \in BrowserUser |-> Idle]
  /\ page = [s \in Session |-> "closed"] /\ abandoned = {}
  /\ proof = NoProof /\ shot = FALSE
  /\ receipt = [s \in Session |-> [of |-> NoOne, ok |-> FALSE]] /\ picture = [s \in Session |-> NoOne]
  /\ package = FALSE /\ onPath = FALSE
  /\ now = 1 /\ begun = 0

BrowseSteps(does) ==
  CASE does = "probe" -> <<"doctor", "open", "state", "screenshot">>
    [] does = "open" -> <<"open", "state", "summary">>
    [] OTHER -> <<"open", "state", "summary", "screenshot">>     \* "screenshot", and a task's start page
SessionOf(u) == IF browse[u].does = "probe" THEN ProbeSession ELSE browse[u].began
BrowseStep(u) == BrowseSteps(browse[u].does)[browse[u].passed + 1]
OthersIn(u, does, second) ==
  {o \in BrowserUser \ {u} : /\ browse[o].at # "idle"
                             /\ \/ does = "probe" /\ browse[o].does = "probe"
                                \/ {does, browse[o].does} \cap {"nothing", "probe"} = {} /\ browse[o].began = second}

BrowseAt(u, step) == browse[u].at = step
BrowseGoes(u, step) == browse' = [browse EXCEPT ![u].at = step]

-----------------------------------------------------------------------------
(* What each command decides before it drives the browser.                 *)

RecordProof(u, says) ==
  proof' = [says |-> says, since |-> browse[u].began, passed |-> browse[u].passed,
              true |-> browse[u].saw \subseteq {"page"}, alone |-> browse[u].alone]

(* A probe without a CLI records a failure; an action answers at once; a   *)
(* task needs the package, and with a URL begins with an action.           *)
BeginBrowse(u) ==
  /\ BrowseAt(u, "idle") /\ begun < MaxBrowses /\ begun' = begun + 1
  /\ \E does \in {"probe", "open", "screenshot", "task"}, withUrl \in BOOLEAN :
       LET others == OthersIn(u, does, now)
           fresh == [Idle EXCEPT !.does = does, !.began = now, !.alone = others = {},
                     !.at = CASE does = "task" /\ ~package -> "ended"
                              [] does = "task" /\ ~withUrl -> "agent"
                              [] does = "probe" /\ ~onPath -> "no browser"
                              [] does = "task" /\ ~onPath -> "task failed"
                              [] ~onPath -> "ended"
                              [] OTHER -> "drive"]
       IN /\ withUrl => does = "task"
          /\ browse' = [o \in BrowserUser |->
               IF o = u THEN fresh
               ELSE IF o \in others THEN [browse[o] EXCEPT !.alone = FALSE] ELSE browse[o]]
  /\ UNCHANGED <<page, browser_files, package, onPath, now, abandoned>>

-----------------------------------------------------------------------------
(* run_browser_use_command: a step of a session.  A session that another   *)
(* invocation has closed fails it, or shows an empty page.                 *)

Sees(u) == IF page[SessionOf(u)] = "page" THEN "page" ELSE "blank"

Passed(u, saw) ==
  browse' = [browse EXCEPT ![u].passed = @ + 1, ![u].saw = @ \cup saw,
             ![u].at = IF browse[u].passed + 1 = Len(BrowseSteps(browse[u].does)) THEN "drove" ELSE "drive"]

CommandPasses(u) ==
  /\ BrowseAt(u, "drive") /\ BrowseStep(u) # "screenshot"
  /\ CASE BrowseStep(u) = "doctor" -> Passed(u, {}) /\ UNCHANGED page
       [] BrowseStep(u) = "open" -> Passed(u, {}) /\ page' = [page EXCEPT ![SessionOf(u)] = "page"]
       [] OTHER -> Passed(u, {Sees(u)}) /\ page' = [page EXCEPT ![SessionOf(u)] = Sees(u)]
  /\ UNCHANGED <<browser_files, around, abandoned>>

(* write_browser_use_screenshot.                                           *)
ScreenshotPasses(u) ==
  /\ BrowseAt(u, "drive") /\ BrowseStep(u) = "screenshot"
  /\ Passed(u, {Sees(u)}) /\ page' = [page EXCEPT ![SessionOf(u)] = Sees(u)]
  /\ IF browse[u].does = "probe"
     THEN shot' = TRUE /\ UNCHANGED picture
     ELSE picture' = [picture EXCEPT ![SessionOf(u)] = u] /\ UNCHANGED shot
  /\ UNCHANGED <<proof, receipt, around, abandoned>>

(* An error, or a timeout: the browser may have done it all the same.      *)
CommandFails(u) ==
  /\ BrowseAt(u, "drive") /\ BrowseGoes(u, "record failure")
  /\ \/ UNCHANGED page
     \/ BrowseStep(u) = "open" /\ page' = [page EXCEPT ![SessionOf(u)] = "page"]
  /\ UNCHANGED <<browser_files, around, abandoned>>

(* A screenshot that cannot be decoded raises an error no handler takes.   *)
ScreenshotRaises(u) ==
  /\ BrowseAt(u, "drive") /\ BrowseStep(u) = "screenshot" /\ BrowseGoes(u, "raise")
  /\ UNCHANGED <<page, browser_files, around, abandoned>>

-----------------------------------------------------------------------------
(* What is recorded, and when: a failure before the session is closed, a   *)
(* probe's success after it, an action's success before it.                *)

AfterDriving_LeftOpen(u) == IF BrowseAt(u, "record failure") THEN "ended" ELSE "close"
AfterDriving(u) == "close"

WriteReceipt(u, ok) == receipt' = [receipt EXCEPT ![SessionOf(u)] = [of |-> u, ok |-> ok]]

RecordFailure(u) ==
  /\ \/ BrowseAt(u, "no browser") /\ BrowseGoes(u, "ended")
     \/ BrowseAt(u, "record failure") /\ BrowseGoes(u, AfterDriving(u))
  /\ IF browse[u].does = "probe"
     THEN RecordProof(u, "failed") /\ UNCHANGED receipt
     ELSE WriteReceipt(u, FALSE) /\ UNCHANGED proof
  /\ UNCHANGED <<page, shot, picture, around, abandoned>>

RecordAction(u) ==
  /\ BrowseAt(u, "drove") /\ browse[u].does # "probe"
  /\ browse' = [browse EXCEPT ![u].at = AfterDriving(u), ![u].ok = TRUE]
  /\ WriteReceipt(u, TRUE)
  /\ UNCHANGED <<page, proof, shot, picture, around, abandoned>>

(* The `finally`: control goes on as if the session were closed, whatever  *)
(* the exit code of the close, unless the call raises: a timeout replaces  *)
(* answer and error.  Either way the session may be closed or still open.  *)
AfterClosing(u) ==
  IF BrowseAt(u, "drove") THEN "record success"
  ELSE IF browse[u].does = "task" /\ BrowseAt(u, "close")
       THEN (IF browse[u].ok THEN "agent" ELSE "task failed") ELSE "ended"

CloseSession(u) ==
  /\ \/ BrowseAt(u, "close") \/ BrowseAt(u, "raise")
     \/ BrowseAt(u, "drove") /\ browse[u].does = "probe"
  /\ \/ page' = [page EXCEPT ![SessionOf(u)] = "closed"] /\ abandoned' = abandoned \ {SessionOf(u)}
     \/ UNCHANGED page /\ abandoned' = abandoned \cup {SessionOf(u)}
  /\ \/ BrowseGoes(u, AfterClosing(u))
     \/ browse' = [browse EXCEPT ![u].at = "ended", ![u].ok = FALSE]
  /\ UNCHANGED <<browser_files, around>>

RecordSuccess(u) ==
  /\ BrowseAt(u, "record success")
  /\ browse' = [browse EXCEPT ![u].at = "ended", ![u].ok = TRUE]
  /\ RecordProof(u, "ready")
  /\ UNCHANGED <<page, shot, receipt, picture, around, abandoned>>

(* The agent's loop has a browser of its own; its result, or its error, is *)
(* the task's (browser_use_task_completed).                                *)
RunAgent(u) ==
  /\ BrowseAt(u, "agent") \/ BrowseAt(u, "task failed")
  /\ \E completed \in BOOLEAN :
       /\ BrowseAt(u, "task failed") => ~completed
       /\ browse' = [browse EXCEPT ![u].at = "ended", ![u].ok = completed]
  /\ UNCHANGED <<page, browser_files, around, abandoned>>

EndBrowse(u) ==
  /\ BrowseAt(u, "ended") /\ browse' = [browse EXCEPT ![u] = Idle]
  /\ UNCHANGED <<page, browser_files, around, abandoned>>

KillBrowse(u) ==
  /\ browse[u].at \notin {"idle", "ended"}
  /\ browse' = [browse EXCEPT ![u] = Idle]
  /\ abandoned' = abandoned \cup {s \in {SessionOf(u)} : page[s] # "closed"}
  /\ UNCHANGED <<page, browser_files, around>>

-----------------------------------------------------------------------------
(* `spark browser-use install`, a package removed, the clock and a cleanup *)
(* of the state directory.                                                 *)

InstallBrowserUse ==
  /\ ~onPath /\ package' = TRUE /\ onPath' \in BOOLEAN
  /\ UNCHANGED <<browse, page, browser_files, now, begun, abandoned>>
RemoveBrowserUse ==
  /\ package /\ package' = FALSE /\ onPath' = FALSE
  /\ UNCHANGED <<browse, page, browser_files, now, begun, abandoned>>
TimePasses ==
  /\ now < MaxNow /\ now' = now + 1
  /\ UNCHANGED <<browse, page, browser_files, package, onPath, begun, abandoned>>
LoseScreenshot ==
  /\ shot /\ shot' = FALSE
  /\ UNCHANGED <<browse, page, proof, receipt, picture, around, abandoned>>

BrowserNext ==
  \/ \E u \in BrowserUser :
       \/ BeginBrowse(u) \/ CommandPasses(u) \/ ScreenshotPasses(u) \/ CommandFails(u) \/ ScreenshotRaises(u)
       \/ RecordFailure(u) \/ RecordAction(u) \/ CloseSession(u) \/ RecordSuccess(u) \/ RunAgent(u)
       \/ EndBrowse(u) \/ KillBrowse(u)
  \/ InstallBrowserUse \/ RemoveBrowserUse \/ TimePasses \/ LoseScreenshot

-----------------------------------------------------------------------------
(* `spark browser-use status`.                                             *)

ProofFresh == now - proof.since <= ProofTtl
ProofComplete == proof.passed = Len(BrowseSteps("probe"))
ReportedStatus ==
  CASE proof.says = "ready" /\ ProofComplete /\ ProofFresh /\ shot -> "ready"
    [] proof.says = "failed" -> "failed"
    [] package \/ onPath -> "installed_unproven"
    [] OTHER -> "missing"

-----------------------------------------------------------------------------
BrowserTypeOK ==
  /\ \A u \in BrowserUser : browse[u].passed \in 0..4 /\ browse[u].began \in 0..MaxNow
  /\ page \in [Session -> {"closed", "blank", "page"}] /\ abandoned \subseteq Session
  /\ proof.says \in {"nothing", "ready", "failed"} /\ shot \in BOOLEAN
  /\ picture \in [Session -> BrowserUser \cup {NoOne}]
  /\ package \in BOOLEAN /\ onPath \in BOOLEAN /\ now \in 1..MaxNow /\ begun \in 0..MaxBrowses

(* A ready status speaks of a probe that passed all of its steps within    *)
(* the time to live and has its screenshot, and of the page it opened      *)
(* unless another probe ran beside it; an action that succeeded finds its  *)
(* own receipt and picture unless another of the URL began in its second;  *)
(* and whichever steps failed, the only sessions left open are those of an *)
(* invocation that was killed, or whose close did not succeed, which the   *)
(* code does not look at (check=False): such a command may report success. *)
BrowserReportsHold ==
  /\ ReportedStatus = "ready" =>
       /\ shot /\ proof.passed = 4 /\ now - proof.since <= ProofTtl
       /\ proof.alone => proof.true
  /\ \A u \in BrowserUser : BrowseAt(u, "ended") /\ browse[u].ok /\ browse[u].alone =>
       /\ browse[u].does \in {"open", "screenshot"} => receipt[SessionOf(u)] = [of |-> u, ok |-> TRUE]
       /\ browse[u].does = "screenshot" => picture[SessionOf(u)] = u
  /\ (\A u \in BrowserUser : browse[u].at \in {"idle", "ended"}) =>
       \A s \in Session \ abandoned : page[s] = "closed"

BrowserSpec == BrowserInit /\ [][BrowserNext]_browser_vars

-----------------------------------------------------------------------------
(* What the steps preserve, and what the property follows from.            *)

Browsing(u) == ~BrowseAt(u, "idle")
InSession(u) == browse[u].at \in {"drive", "drove", "record failure", "raise", "close"}

BrowsesTyped ==
  /\ browse \in [BrowserUser ->
       [does : {"nothing", "probe", "open", "screenshot", "task"},
        at : {"idle", "ended", "agent", "no browser", "task failed", "drive", "drove", "record failure", "raise",
              "close", "record success"},
        passed : 0..4, began : 0..MaxNow, saw : SUBSET {"page", "blank"}, alone : BOOLEAN, ok : BOOLEAN]]
  /\ receipt \in [Session -> [of : BrowserUser \cup {NoOne}, ok : BOOLEAN]]
  /\ \A u \in BrowserUser : Browsing(u) => browse[u].does # "nothing" /\ browse[u].began \in 1..MaxNow

AloneInSession ==
  \A u, o \in BrowserUser :
    u # o /\ Browsing(u) /\ Browsing(o) /\ SessionOf(u) = SessionOf(o) => ~browse[u].alone

(* A probe that is alone sees the page it opened; an action that is alone  *)
(* finds the picture it took and the receipt it wrote.                     *)
ProbeSeesPage ==
  \A u \in BrowserUser : Browsing(u) /\ browse[u].does = "probe" /\ browse[u].alone =>
    /\ browse[u].saw \subseteq {"page"}
    /\ browse[u].at \in {"drive", "drove"} /\ browse[u].passed >= 2 => page[ProbeSession] = "page"
ActionLeavesFiles ==
  \A u \in BrowserUser : Browsing(u) /\ browse[u].does \in {"open", "screenshot"} =>
    /\ BrowseAt(u, "drove") \/ browse[u].ok => browse[u].passed = Len(BrowseSteps(browse[u].does))
    /\ browse[u].alone /\ browse[u].ok => receipt[SessionOf(u)] = [of |-> u, ok |-> TRUE]
    /\ browse[u].alone /\ browse[u].does = "screenshot" /\ browse[u].passed = 4 => picture[SessionOf(u)] = u

(* Only a probe records a success by itself, only a task has an agent, and *)
(* what has still to be driven, or failed on the way, has steps left.      *)
InPlace(b) ==
  /\ b.at \in {"drive", "record failure", "no browser"} => b.passed < Len(BrowseSteps(b.does))
  /\ b.at \in {"agent", "task failed"} => b.does = "task"
  /\ b.at = "record success" => b.does = "probe"

BrowserIInv ==
  /\ BrowserTypeOK /\ BrowsesTyped /\ AloneInSession /\ ProbeSeesPage /\ ActionLeavesFiles
  /\ \A u \in BrowserUser : InPlace(browse[u])
  /\ proof.says = "ready" /\ proof.alone => proof.true
  /\ \A s \in Session \ abandoned :
       page[s] = "closed" \/ \E u \in BrowserUser : InSession(u) /\ SessionOf(u) = s

=============================================================================
