----------------------------- MODULE ModuleGraph -----------------------------
(***************************************************************************)
(* Which modules `spark start`, `stop` and `restart` act on, and in which  *)
(* order: the closures over needs.modules and the depth-first sort of the  *)
(* CLI, loop by loop, over any graph of installed modules - with needs     *)
(* that are not installed, and with cycles, which manifests can have.      *)
(*                                                                         *)
(* A module is a number, in the order of the names; 1..GraphSize are       *)
(* installed, Absent is a name that is not.  A request is the set of names *)
(* a target expands to; some process is on record.  An answer is the list  *)
(* of modules, or an error: the command then ends before it does anything. *)
(* In the answer to a stop the Telegram bot stands for its process keys,   *)
(* one for each of its profiles that is on record.                         *)
(***************************************************************************)
EXTENDS Naturals, Sequences, SequencesExt, FiniteSets

CONSTANTS
  GraphSize,
  Bot      \* spark-telegram-bot

Installed == 1..GraphSize
ASSUME GraphAssumption == GraphSize \in Nat \ {0} /\ Bot \in Installed

Absent == GraphSize + 1
Name == Installed \cup {Absent}
Error == <<0>>

VARIABLES
  needs,    \* needs.modules of each installed module
  asked,    \* the command and the names its target stands for
  profiled, \* {Bot} when a restart has found that profiles of it run, but not itself
  answer,   \* what it resolved to
  at,       \* the loop it is in
  todo, starts,        \* restart_names still to be resolved, and start_names
  requested,           \* what the loop in progress was called with
  stack, found,        \* of the closure: what is to be seen, and what was seen
  selected, path, ordered    \* of the sort: modules, the visits in progress, and those done

graph_vars == <<needs, profiled, asked, answer, at, todo, starts, requested, stack, found, selected, path, ordered>>

Unasked == [cmd |-> "none", names |-> {}]
Cascade == {"stop_cascade", "restart_cascade"}
Commands == {"start", "stop", "restart"} \cup Cascade

GraphInit ==
  /\ needs \in [Installed -> SUBSET Name]
  /\ asked = Unasked /\ profiled = {} /\ answer = <<>> /\ at = "idle"
  /\ todo = {} /\ starts = {} /\ requested = {} /\ stack = {} /\ found = {}
  /\ selected = {} /\ path = <<>> /\ ordered = <<>>

Needs(m) == IF m \in Installed THEN needs[m] ELSE {}

(* reverse_dependency_map                                                  *)
NeededBy(m) == {n \in Installed : m \in Needs(n)}

-----------------------------------------------------------------------------
(* How the loops follow one another.                                       *)

Closure(names) == /\ requested' = names /\ stack' = names /\ found' = {}
                  /\ UNCHANGED <<selected, path, ordered>>
Sort(modules) == /\ selected' = modules /\ path' = <<>> /\ ordered' = <<>>
                 /\ stack' = {} /\ UNCHANGED requested

(* A system exit ends the command.                                         *)
Refuse ==
  /\ answer' = Error /\ at' = "done"
  /\ UNCHANGED <<needs, profiled, asked, todo, starts, requested, stack, found, selected, path, ordered>>

(* resolve_start_modules, resolve_stop_module_names with --cascade, and    *)
(* resolve_exact_stop_module_names, which has no closure.                  *)
Ask ==
  /\ at = "idle"
  /\ \E cmd \in Commands, names \in (SUBSET Name) \ {{}} :
       /\ asked' = [cmd |-> cmd, names |-> names]
       /\ IF cmd = "stop"
            THEN /\ at' = "sort_stops" /\ found' = names
                 /\ Sort(names \cap Installed)
            ELSE /\ at' = IF cmd \in Cascade THEN "collect_stops" ELSE "collect_starts"
                 /\ Closure(names)
  /\ UNCHANGED <<needs, profiled, answer, todo, starts>>

(* The loop over a stack of names, with what each name adds.               *)
See(name, adds) ==
  /\ found' = found \cup {name}
  /\ stack' = (stack \ {name}) \cup (IF name \in found THEN {} ELSE adds)
  /\ UNCHANGED <<needs, profiled, asked, answer, at, todo, starts, requested, selected, path, ordered>>
Popped == CHOOSE name \in stack : TRUE

CollectStop ==
  /\ at = "collect_stops" /\ stack # {}
  /\ See(Popped, NeededBy(Popped))

CollectStart_DirectOnly ==
  /\ at = "collect_starts" /\ stack # {}
  /\ IF Popped = Absent \/ Absent \in Needs(Popped) THEN Refuse
     ELSE See(Popped, IF Popped \in requested THEN Needs(Popped) ELSE {})

(* An absent name among the needed is an error.                            *)
CollectStart ==
  /\ at = "collect_starts" /\ stack # {}
  /\ IF Popped = Absent \/ Absent \in Needs(Popped) THEN Refuse ELSE See(Popped, Needs(Popped))

CollectDone ==
  /\ at \in {"collect_stops", "collect_starts"} /\ stack = {}
  /\ at' = IF at = "collect_stops" THEN "sort_stops" ELSE "sort_starts"
  /\ Sort(found \cap Installed)
  /\ UNCHANGED <<needs, profiled, asked, answer, todo, starts, found>>

-----------------------------------------------------------------------------
(* topologically_sort_modules: depth first over the selected modules, by   *)
(* name; a module still on the path when it is met again is a cycle.  The  *)
(* needs of a module come in any order.                                    *)

Sorting == at \in {"sort_stops", "sort_starts", "sort_all"}
Visiting == path # <<>>
Top == path[Len(path)]
Unordered == selected \ ToSet(ordered)
Visit == [name : Installed, left : SUBSET Installed]
VisitOf(name) == [name |-> name, left |-> Needs(name) \cap selected]

VisitNext ==
  /\ Sorting /\ ~Visiting /\ Unordered # {}
  /\ \E name \in Unordered : (\A other \in Unordered : name <= other) /\ path' = Append(path, VisitOf(name))
  /\ UNCHANGED <<needs, profiled, asked, answer, at, todo, starts, requested, stack, found, selected, ordered>>

VisitNeeded ==
  /\ Sorting /\ Visiting
  /\ \E name \in Top.left :
       IF \E i \in DOMAIN path : path[i].name = name THEN Refuse
       ELSE LET rest == [path EXCEPT ![Len(path)].left = @ \ {name}]
            IN /\ path' = IF name \in ToSet(ordered) THEN rest
                          ELSE Append(rest, VisitOf(name))
               /\ UNCHANGED <<needs, profiled, asked, answer, at, todo, starts, requested, stack, found, selected, ordered>>

Visited ==
  /\ Sorting /\ Visiting /\ Top.left = {}
  /\ ordered' = Append(ordered, Top.name) /\ path' = SubSeq(path, 1, Len(path) - 1)
  /\ UNCHANGED <<needs, profiled, asked, answer, at, todo, starts, requested, stack, found, selected>>

-----------------------------------------------------------------------------
(* What a sorted list is for.                                              *)

Answer(list) ==
  /\ answer' = list /\ at' = "done"
  /\ UNCHANGED <<needs, profiled, asked, todo, starts, requested, stack, found, selected, path, ordered>>

Sorted == Sorting /\ ~Visiting /\ Unordered = {}

(* Dependents first, and then the names that are not installed.            *)
AnswerStop ==
  /\ Sorted /\ at = "sort_stops" /\ asked.cmd # "restart_cascade"
  /\ Answer(Reverse(ordered) \o (IF Absent \in found THEN <<Absent>> ELSE <<>>))

AnswerStart ==
  /\ Sorted /\ (at = "sort_all" \/ (at = "sort_starts" /\ asked.cmd # "restart_cascade"))
  /\ Answer(ordered)

(* resolve_restart_modules: what was named and what a cascading stop stops *)
(* is started, one name after the other, and what all of them need.  But   *)
(* the stop names process keys: of a bot that runs under the keys of       *)
(* profiles alone none is the name of a module, and it is left out.        *)
StopsResolved ==
  /\ Sorted /\ at = "sort_stops" /\ asked.cmd = "restart_cascade"
  /\ profiled' \in {{}, {Bot} \cap ToSet(ordered)}
  /\ at' = "restart" /\ todo' = asked.names \cup (ToSet(ordered) \ profiled')
  /\ UNCHANGED <<needs, asked, answer, starts, requested, stack, found, selected, path, ordered>>

RestartNext ==
  /\ at = "restart" /\ todo # {}
  /\ LET name == CHOOSE n \in todo : TRUE
     IN at' = "collect_starts" /\ todo' = todo \ {name} /\ Closure({name})
  /\ UNCHANGED <<needs, profiled, asked, answer, starts>>

StartResolved ==
  /\ Sorted /\ at = "sort_starts" /\ asked.cmd = "restart_cascade"
  /\ at' = "restart" /\ starts' = starts \cup ToSet(ordered)
  /\ UNCHANGED <<needs, profiled, asked, answer, todo, requested, stack, found, selected, path, ordered>>

RestartAllResolved ==
  /\ at = "restart" /\ todo = {}
  /\ at' = "sort_all" /\ Sort(starts)
  /\ UNCHANGED <<needs, profiled, asked, answer, todo, starts, found>>

GraphNext ==
  \/ Ask \/ CollectStop \/ CollectStart \/ CollectDone
  \/ VisitNext \/ VisitNeeded \/ Visited
  \/ AnswerStop \/ AnswerStart \/ StopsResolved \/ RestartNext \/ StartResolved \/ RestartAllResolved

GraphSpec == GraphInit /\ [][GraphNext]_graph_vars

-----------------------------------------------------------------------------
GraphTypeOK ==
  /\ needs \in [Installed -> SUBSET Name] /\ profiled \subseteq {Bot} /\ answer \in Seq(Name \cup {0})
  /\ asked = Unasked \/ asked \in [cmd : Commands, names : SUBSET Name]
  /\ at \in {"idle", "collect_stops", "collect_starts", "sort_stops", "sort_starts", "sort_all", "restart", "done"}
  /\ todo \subseteq Name /\ starts \subseteq Installed /\ requested \subseteq Name
  /\ stack \subseteq Name /\ found \subseteq Name /\ selected \subseteq Installed
  /\ path \in Seq(Visit) /\ ordered \in Seq(Installed)

(* The reference: reachability as the least closed set, and an order of a  *)
(* set of modules judged by its positions.                                 *)

NeedsWithin(set) == [m \in Name |-> Needs(m) \cap set]
Dependent == [m \in Name |-> NeededBy(m)]
Closed(set, adds) == \A m \in set : adds[m] \subseteq set
Reached(names, adds) ==
  {m \in Name : \A set \in SUBSET Name : names \subseteq set /\ Closed(set, adds) => m \in set}

HasCycle(set) == \E m \in set : m \in Reached(Needs(m) \cap set, NeedsWithin(set))

Orders(order, set) ==
  /\ ToSet(order) = set /\ Len(order) = Cardinality(set)
  /\ \A i, j \in DOMAIN order : order[i] \in Needs(order[j]) => i < j

Dependents == Reached(asked.names, Dependent)
Restarted == asked.names \cup (Dependents \ profiled)

(* What a command is about, and must not run or not stop without.          *)
ToStart == Reached(IF asked.cmd = "restart_cascade" THEN Restarted ELSE asked.names, NeedsWithin(Name))
ToStop == IF asked.cmd = "stop" THEN asked.names ELSE Dependents

(* A start runs exactly the requested modules and all they need, each      *)
(* after what it needs; it refuses exactly when one of those is not        *)
(* installed or they need each other in a circle (resolve_start_modules).  *)
(* A cascading restart starts what was named, all that needs it other than *)
(* a bot whose profiles alone run, and all that these need, or refuses, on *)
(* the same terms, before it stops anything.  A cascading stop leaves      *)
(* nothing running that needs what it stops, and every stop stops each     *)
(* module before what it needs.                                            *)
OrderServesNeeds ==
  at = "done" =>
    /\ asked.cmd \in {"start", "restart", "restart_cascade"} =>
         IF Absent \in ToStart \/ HasCycle(ToStart)
           THEN answer = Error ELSE answer # Error /\ Orders(answer, ToStart)
    /\ asked.cmd \in {"stop", "stop_cascade"} /\ Absent \notin asked.names =>
         IF HasCycle(ToStop) THEN answer = Error ELSE Orders(Reverse(answer), ToStop)

-----------------------------------------------------------------------------
(* The inductive invariant behind the theorem.                             *)

(* A closure has seen, or has still to see, what was asked for and what    *)
(* each name it has seen adds, and nothing that is not reached.            *)
Added == IF at = "collect_stops" THEN Dependent ELSE NeedsWithin(Name)
CollectInv ==
  /\ at \in {"collect_stops", "collect_starts"} =>
       /\ requested \subseteq found \cup stack
       /\ found \cup stack \subseteq Reached(requested, Added)
       /\ \A m \in found : Added[m] \subseteq found \cup stack
  /\ at \in {"collect_starts", "sort_starts"} => Absent \notin found

(* The modules in order come after what they need; the path goes from each *)
(* module to one it needs; and what a module on it still has to visit is   *)
(* all of its needs but those in order and the next one on the path.       *)
OrderedOK(sel, list) ==
  /\ \A i, j \in DOMAIN list : list[i] = list[j] => i = j
  /\ \A i \in DOMAIN list :
       /\ list[i] \in sel
       /\ \A d \in Needs(list[i]) \cap sel : \E j \in DOMAIN list : j < i /\ list[j] = d

PathOK(sel, visits, list) ==
  /\ \A i \in DOMAIN visits :
       /\ visits[i].name \in sel \ ToSet(list)
       /\ visits[i].left \subseteq Needs(visits[i].name) \cap sel
       /\ \A d \in (Needs(visits[i].name) \cap sel) \ visits[i].left :
            d \in ToSet(list) \/ (i + 1 \in DOMAIN visits /\ visits[i + 1].name = d)
       /\ i + 1 \in DOMAIN visits => visits[i + 1].name \in Needs(visits[i].name) \cap sel
  /\ \A i, j \in DOMAIN visits : visits[i].name = visits[j].name => i = j

SortOK == OrderedOK(selected, ordered) /\ PathOK(selected, path, ordered)

(* What each loop is about.                                                *)
LoopInv ==
  /\ at # "idle" => asked \in [cmd : Commands, names : SUBSET Name]
  /\ at \in {"idle", "collect_stops", "sort_stops"} => starts = {} /\ profiled = {}
  /\ at = "collect_stops" => asked.cmd \in Cascade /\ requested = asked.names
  /\ at = "sort_stops" =>
       /\ asked.cmd \in {"stop"} \cup Cascade
       /\ found = ToStop /\ selected = found \cap Installed
  /\ at \in {"collect_starts", "sort_starts"} =>
       \/ asked.cmd \in {"start", "restart"} /\ requested = asked.names
       \/ asked.cmd = "restart_cascade" /\ requested \subseteq Restarted
  /\ at = "sort_starts" => found = Reached(requested, NeedsWithin(Name)) /\ selected = found
  /\ at \in {"restart", "sort_all"} => asked.cmd = "restart_cascade"
  /\ at = "sort_all" => selected = starts /\ todo = {}

(* What a cascading restart still has to resolve, and what it has.         *)
RestartInv ==
  asked.cmd = "restart_cascade" /\ at \in {"restart", "collect_starts", "sort_starts", "sort_all"} =>
    /\ todo \subseteq Restarted
    /\ Restarted \subseteq todo \cup starts \cup (IF at \in {"collect_starts", "sort_starts"} THEN requested ELSE {})
    /\ starts \subseteq ToStart /\ \A m \in starts : Needs(m) \subseteq starts

GraphIInv ==
  /\ GraphTypeOK /\ CollectInv /\ LoopInv /\ RestartInv
  /\ Sorting => SortOK
  /\ OrderServesNeeds

=============================================================================
