------------------------ MODULE MCProcessSupervisor ------------------------
(* Model-checking instances of ProcessSupervisor.                          *)
EXTENDS ProcessSupervisor, TLC

CONSTANTS ui, bot, mem

Start(k)  == [op |-> "start", key |-> k]
Stop(k)   == [op |-> "stop", key |-> k]
Remove(k) == [op |-> "remove", key |-> k]

(* `spark start`, `spark stop`, `spark restart` and `spark uninstall` of   *)
(* the Spawner and of a module that is no bridge consumer.                 *)
SpawnerPlans ==
  {<<Start(ui)>>, <<Stop(ui), Start(ui)>>, <<Start(mem), Start(ui)>>, <<Remove(mem)>>}

(* A Telegram profile, whose relay port is cleared before each launch.     *)
TelegramPlans == {<<Start(bot)>>, <<Stop(bot), Start(bot)>>, <<Remove(bot)>>}

(* Commands that contend for both locks, for the liveness run.             *)
ContendingPlans == {<<Start(mem)>>, <<Stop(mem)>>, <<Remove(mem), Start(mem)>>}

Symmetric == Permutations(Cli) \cup Permutations(Pid)

=============================================================================
