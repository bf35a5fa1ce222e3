---------------------------- MODULE MissionSmoke ----------------------------
(***************************************************************************)
(* `spark verify --mission` and the deep check of `spark verify --hosted`: *)
(* each starts a mission at Spawner that has to answer with a marker, then *)
(* polls the mission board until the marker is in its text or the time is  *)
(* over.  Spawner is external: it may lose the answer to a request it took *)
(* up, and its board shows what each mission answered, for as long as it   *)
(* lists the mission.  The text of a goal is not on the board.             *)
(*                                                                         *)
(* The marker is the same for every run of one kind of check, so a run can *)
(* meet that of another one, or of a run before it.                        *)
(***************************************************************************)
EXTENDS Naturals, FiniteSets

CONSTANTS
  Checker,         \* invocations that check the mission lane
  MissionId,       \* missions Spawner may take up in a behaviour
  NoMissionYet,
  MaxChecks        \* bound on the checks begun

ASSUME MissionSmokeAssumption == NoMissionYet \notin MissionId /\ MaxChecks \in Nat

VARIABLES
  lane,            \* what each checker does and has answered
  board,           \* Spawner's missions, with what the board shows of them
  checksBegun

mission_smoke_vars == <<lane, board, checksBegun>>

CheckKind == {"local", "hosted"}     \* each has its marker
Unused == [kind |-> "none", state |-> "unused", listed |-> FALSE]
NotChecking == [kind |-> "none", at |-> "idle", own |-> NoMissionYet, alone |-> FALSE, ok |-> FALSE]

MissionSmokeInit ==
  /\ lane = [c \in Checker |-> NotChecking]
  /\ board = [m \in MissionId |-> Unused] /\ checksBegun = 0

CheckAt(c, step) == lane[c].at = step
Answers(c, ok) == lane' = [lane EXCEPT ![c].at = "answered", ![c].ok = ok]
ListedOf(kind) == {m \in MissionId : board[m].listed /\ board[m].kind = kind}
InTheText(kind) == {m \in ListedOf(kind) : board[m].state = "completed"}

(* The keys are looked at first, and for a local check that Codex is there *)
(* when it is the provider of missions; without them no mission is run.    *)
BeginCheck(c) ==
  /\ lane[c].at \in {"idle", "answered"} /\ checksBegun < MaxChecks
  /\ checksBegun' = checksBegun + 1
  /\ \E kind \in CheckKind, ready \in BOOLEAN :
       lane' = [lane EXCEPT ![c] = [NotChecking EXCEPT !.kind = kind, !.at = IF ready THEN "start" ELSE "answered"]]
  /\ UNCHANGED board

TakenUp(c, m) ==
  /\ board[m] = Unused
  /\ board' = [board EXCEPT ![m] = [kind |-> lane[c].kind, state |-> "running", listed |-> TRUE]]

(* The request is answered; the others of its kind are no longer alone.    *)
RunMission(c) ==
  /\ CheckAt(c, "start")
  /\ \E m \in MissionId :
       /\ TakenUp(c, m)
       /\ lane' = [d \in Checker |->
            IF d = c THEN [lane[c] EXCEPT !.at = "poll", !.own = m, !.alone = ListedOf(lane[c].kind) = {}]
            ELSE IF lane[d].kind = lane[c].kind THEN [lane[d] EXCEPT !.alone = FALSE] ELSE lane[d]]
  /\ UNCHANGED checksBegun

(* No connection, no JSON, or no answer in 20 seconds - the mission may    *)
(* run all the same.                                                       *)
RequestFails(c) ==
  /\ CheckAt(c, "start")
  /\ \/ UNCHANGED board /\ Answers(c, FALSE)
     \/ /\ \E m \in MissionId : TakenUp(c, m)
        /\ lane' = [d \in Checker |->
             IF d = c THEN [lane[c] EXCEPT !.at = "answered"]
             ELSE IF lane[d].kind = lane[c].kind THEN [lane[d] EXCEPT !.alone = FALSE] ELSE lane[d]]
  /\ UNCHANGED checksBegun

(* A poll that fails, or finds no marker, changes only the detail.         *)
Shown_Visible(c) == board[lane[c].own].listed
Shown(c) == InTheText(lane[c].kind) # {}

PollBoard(c) ==
  /\ CheckAt(c, "poll") /\ Shown(c)
  /\ Answers(c, TRUE)
  /\ UNCHANGED <<board, checksBegun>>

(* 90 seconds are over; the mission goes on.                               *)
WaitIsOver(c) ==
  /\ CheckAt(c, "poll")
  /\ Answers(c, FALSE)
  /\ UNCHANGED <<board, checksBegun>>

(* Spawner.                                                                *)
MissionEnds ==
  /\ \E m \in MissionId, state \in {"completed", "expired"} :
       board[m].state = "running" /\ board' = [board EXCEPT ![m].state = state]
  /\ UNCHANGED <<lane, checksBegun>>

BoardDrops ==
  /\ \E m \in MissionId :
       /\ board[m].listed /\ board[m].state # "running"
       /\ board' = [board EXCEPT ![m].listed = FALSE]
  /\ UNCHANGED <<lane, checksBegun>>

MissionSmokeNext ==
  \/ \E c \in Checker : BeginCheck(c) \/ RunMission(c) \/ RequestFails(c) \/ PollBoard(c) \/ WaitIsOver(c)
  \/ MissionEnds \/ BoardDrops

MissionSmokeSpec == MissionSmokeInit /\ [][MissionSmokeNext]_mission_smoke_vars

-----------------------------------------------------------------------------
MissionSmokeTypeOK ==
  /\ \A c \in Checker : lane[c].own \in MissionId \cup {NoMissionYet}
  /\ \A m \in MissionId : board[m].state \in {"unused", "running", "completed", "expired"}
  /\ checksBegun \in 0..MaxChecks

(* The answer of the lane's authoritative gate: ok means that a mission of *)
(* this kind has completed, and this one where the board showed no other   *)
(* of the kind since it was started; a mission that expired, or whose      *)
(* request failed, never counts.                                           *)
PreflightIsTrue ==
  \A c \in Checker : CheckAt(c, "answered") /\ lane[c].ok =>
    /\ \E m \in MissionId : board[m].kind = lane[c].kind /\ board[m].state = "completed"
    /\ lane[c].alone => board[lane[c].own].state = "completed"

-----------------------------------------------------------------------------
(* The inductive invariant behind the theorem.                             *)
CheckRecord ==
  [kind : CheckKind \cup {"none"}, at : {"idle", "start", "poll", "answered"},
   own : MissionId \cup {NoMissionYet}, alone : BOOLEAN, ok : BOOLEAN]
MissionRecord ==
  [kind : CheckKind \cup {"none"}, state : {"unused", "running", "completed", "expired"}, listed : BOOLEAN]

(* Who is alone has its own mission on the board and no other of the kind. *)
AloneOnBoard(c) ==
  lane[c].alone => lane[c].own \in MissionId /\ (CheckAt(c, "poll") => ListedOf(lane[c].kind) \subseteq {lane[c].own})

MissionSmokeIInv ==
  /\ lane \in [Checker -> CheckRecord] /\ board \in [MissionId -> MissionRecord]
  /\ \A c \in Checker : AloneOnBoard(c) /\ (lane[c].ok => CheckAt(c, "answered"))
  /\ PreflightIsTrue /\ checksBegun \in 0..MaxChecks

=============================================================================
