----------------------------- MODULE GameState -----------------------------
(***************************************************************************)
(* The player's combat state, emitter/src/game_state.c: health, the two    *)
(* ammunition counters, the reload flag and the fire-rate limiter.  The    *)
(* module is a set of calls with no scheduling of its own: GsNext lets a   *)
(* caller make any call at any time, and module Emitter restricts it to    *)
(* the calls the firmware makes.                                           *)
(*                                                                         *)
(* The ammunition counters are uint16_t and wrap; WordMod is 2^16 in the   *)
(* code and a small number in a TLC run.  The 64-bit uptime is replaced by *)
(* the time since the last shot, sinceShot, kept up to RateCap: no         *)
(* configuration has a longer fire period, so RateCap also stands for      *)
(* "no shot yet" (last_shot_ms = 0).                                       *)
(***************************************************************************)
EXTENDS Integers

CONSTANTS
  Configs,      \* the emitter_config values a phone or a host may send
  WordMod,      \* one more than the largest value of an ammunition counter
  RateCap,      \* no configuration has a longer fire period than this
  AmmoGrants,   \* the amounts CMD_AMMO_INCREASE may carry
  IssueBound    \* bound on the ammunition issued in one life (TLC only)

Words == 0 .. WordMod - 1

\* The fields of struct emitter_config that drive the state; user_id,
\* ammo_type and the reload time have no effect on it.
ConfigType == [damage : Nat, magSize : Words, fireRate : 0 .. RateCap,
               fullAuto : BOOLEAN, total : Words, maxHealth : Nat,
               friendlyFire : BOOLEAN]

ASSUME WordModAssumption == WordMod \in Nat \ {0}
ASSUME RateCapAssumption == RateCap \in Nat
ASSUME ConfigsAssumption == Configs \subseteq ConfigType
ASSUME AmmoGrantsAssumption == AmmoGrants \subseteq Words
ASSUME IssueBoundAssumption == IssueBound \in Nat

ZeroConfig == [damage |-> 0, magSize |-> 0, fireRate |-> 0, fullAuto |-> FALSE,
               total |-> 0, maxHealth |-> 0, friendlyFire |-> FALSE]

VARIABLES
  cfg,          \* the configuration in force
  health,
  mag,          \* mag_current
  reserve,      \* reserve_current
  alive,
  reloading,
  sinceShot,    \* k_uptime_get() - last_shot_ms, up to RateCap
  issued,       \* history: ammunition handed out since the life began
  shots         \* history: shots fired since the life began

gsVars == <<cfg, health, mag, reserve, alive, reloading, sinceShot, issued, shots>>

GsTypeOK ==
  /\ cfg \in ConfigType
  /\ health \in Nat
  /\ mag \in Words
  /\ reserve \in Words
  /\ alive \in BOOLEAN
  /\ reloading \in BOOLEAN
  /\ sinceShot \in 0 .. RateCap
  /\ issued \in Nat
  /\ shots \in Nat
-----------------------------------------------------------------------------
\* game_state_init: everything zero; no shot has been fired.
GsInitWith(c) ==
  /\ cfg = c
  /\ health = 0
  /\ mag = 0
  /\ reserve = 0
  /\ alive = FALSE
  /\ reloading = FALSE
  /\ sinceShot = RateCap
  /\ issued = 0
  /\ shots = 0

GsInit == GsInitWith(ZeroConfig)

\* Power-on: game_state_init followed by settings_load, which sets the saved
\* configuration c if there is one.
GsRestart(c) ==
  /\ cfg' = c
  /\ health' = 0
  /\ mag' = 0
  /\ reserve' = 0
  /\ alive' = FALSE
  /\ reloading' = FALSE
  /\ sinceShot' = RateCap
  /\ issued' = 0
  /\ shots' = 0

\* game_state_set_config copies the configuration and touches nothing else,
\* so a game in progress keeps counters that belong to the old one.
SetConfig(c) ==
  /\ cfg' = c
  /\ UNCHANGED <<health, mag, reserve, alive, reloading, sinceShot, issued, shots>>

StartingMag(c) == IF c.total > c.magSize THEN c.magSize ELSE c.total

\* A fresh life under c: full health, the magazine filled from the total.
FreshLife(c) ==
  /\ health' = c.maxHealth
  /\ mag' = StartingMag(c)
  /\ reserve' = c.total - StartingMag(c)
  /\ alive' = TRUE
  /\ reloading' = FALSE
  /\ issued' = c.total
  /\ shots' = 0

\* game_state_start_game when c is the configuration in force, and
\* game_state_set_config(c) followed by it in one callback otherwise.
StartGame(c) ==
  /\ cfg' = c
  /\ FreshLife(c)
  /\ sinceShot' = RateCap

\* game_state_respawn: as a start, but the fire-rate limiter keeps running.
Respawn ==
  /\ FreshLife(cfg)
  /\ UNCHANGED <<cfg, sinceShot>>

RateElapsed == sinceShot >= cfg.fireRate

CanFire == alive /\ ~reloading /\ mag # 0 /\ RateElapsed

\* game_state_try_fire, in the case where it returns true.
TryFire ==
  /\ CanFire
  /\ mag' = mag - 1
  /\ sinceShot' = 0
  /\ shots' = shots + 1
  /\ UNCHANGED <<cfg, health, reserve, alive, reloading, issued>>

Kills(damage) == alive /\ damage >= health

\* game_state_apply_hit: no effect on a player who is already dead.
ApplyHit(damage) ==
  /\ health' = IF Kills(damage) THEN 0 ELSE IF alive THEN health - damage ELSE health
  /\ alive' = (alive /\ ~Kills(damage))
  /\ UNCHANGED <<cfg, mag, reserve, reloading, sinceShot, issued, shots>>

CanStartReload ==
  /\ ~reloading
  /\ mag # cfg.magSize
  /\ ~(reserve = 0 /\ mag > 0)

\* game_state_start_reload, in the case where it returns true.
StartReload ==
  /\ CanStartReload
  /\ reloading' = TRUE
  /\ UNCHANGED <<cfg, health, mag, reserve, alive, sinceShot, issued, shots>>

\* Mutant: the magazine's contents are not subtracted.
NeededWhole == cfg.magSize

\* uint16_t needed: it wraps when the magazine holds more than the size in
\* force, which a configuration that shrinks it mid-game brings about.
Needed == (cfg.magSize - mag) % WordMod

Transfer == IF reserve >= Needed THEN Needed ELSE reserve

\* Mutant: what to take from the reserve is computed after the magazine has
\* been filled.
CompleteReloadFree ==
  /\ mag' = (mag + Transfer) % WordMod
  /\ reloading' = FALSE
  /\ UNCHANGED <<cfg, health, reserve, alive, sinceShot, issued, shots>>

\* Mutant: the magazine is thrown away with what is left in it.
CompleteReloadDiscards ==
  /\ mag' = Transfer
  /\ reserve' = reserve - Transfer
  /\ reloading' = FALSE
  /\ UNCHANGED <<cfg, health, alive, sinceShot, issued, shots>>

\* game_state_complete_reload; it does not ask whether a reload was under way.
CompleteReload ==
  /\ mag' = (mag + Transfer) % WordMod
  /\ reserve' = reserve - Transfer
  /\ reloading' = FALSE
  /\ UNCHANGED <<cfg, health, alive, sinceShot, issued, shots>>

\* game_state_add_ammo: the reserve is a uint16_t and wraps.
AddAmmo(amount) ==
  /\ issued + amount <= IssueBound
  /\ reserve' = (reserve + amount) % WordMod
  /\ issued' = issued + amount
  /\ UNCHANGED <<cfg, health, mag, alive, reloading, sinceShot, shots>>

\* The uptime advances by one unit.
Tick ==
  /\ sinceShot < RateCap
  /\ sinceShot' = sinceShot + 1
  /\ UNCHANGED <<cfg, health, mag, reserve, alive, reloading, issued, shots>>

GsNext ==
  \/ \E c \in Configs : SetConfig(c)
  \/ StartGame(cfg)
  \/ \E c \in Configs : StartGame(c)
  \/ TryFire
  \/ ApplyHit(cfg.damage)
  \/ StartReload
  \/ CompleteReload
  \/ Respawn
  \/ \E n \in AmmoGrants : AddAmmo(n)
  \/ Tick

GsSpec == GsInit /\ [][GsNext]_gsVars
-----------------------------------------------------------------------------
(* Properties.  The ammunition ledger relates three counters written by    *)
(* seven functions to what was issued at the start, respawn and grants.    *)

\* The ammunition a player holds or has fired never exceeds what was issued
\* in this life, whatever calls are made in whatever order: completing a
\* reload that nobody started, a configuration changed in mid-game and a
\* wrapping counter mint none.
AmmoNeverMinted == mag + reserve + shots <= issued

\* Until a life has been issued as much as a counter holds, none is lost
\* either: reloads move rounds, they do not discard a partial magazine.
AmmoNeverLost == issued < WordMod => mag + reserve + shots = issued

\* game_state.c:106: a call that adds to a magazine leaves it within the size
\* then in force, with one exception.  A reload of a magazine that holds more
\* than the size, because the configuration shrank it in mid-game, computes a
\* need that wraps, and loads the whole reserve on top: 20, 10 and 50 give 70.
LoadsToSizeOrAll ==
  [][mag' > mag => \/ mag' <= cfg'.magSize
                   \/ mag > cfg.magSize /\ mag' = mag + reserve /\ reserve' = 0]_gsVars
=============================================================================
