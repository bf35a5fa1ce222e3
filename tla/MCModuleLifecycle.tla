------------------------- MODULE MCModuleLifecycle -------------------------
(* Instances of ModuleLifecycle: a telegram bot that needs the spawner, and *)
(* the bundle of the two.                                                   *)
EXTENDS ModuleLifecycle

CONSTANTS bot, spawner

TwoModules == {bot, spawner}
OneBundle == {<<spawner, bot>>}
BotNeedsSpawner == {<<bot, spawner>>}
Bots == {bot}

=============================================================================
