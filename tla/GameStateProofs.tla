-------------------------- MODULE GameStateProofs --------------------------
(***************************************************************************)
(* Proofs about GameState, for every counter width, every set of           *)
(* configurations and every order of calls.                                *)
(***************************************************************************)
EXTENDS GameState, TLAPS

USE WordModAssumption, RateCapAssumption

-----------------------------------------------------------------------------
(* Reduction to a machine word.                                            *)

\* Reducing a natural number to a word gives a word that is not larger.
LEMMA WordOfNat ==
  ASSUME NEW x \in Nat
  PROVE  x % WordMod \in Words /\ x % WordMod <= x
BY DEF Words

\* A word is its own reduction.
LEMMA WordOfWord ==
  ASSUME NEW x \in Words
  PROVE  x % WordMod = x
BY DEF Words

\* A sum that passes the end of a word, and a difference that is negative, wrap.
LEMMA WordOfSum ==
  ASSUME NEW x \in Nat, WordMod <= x, x < WordMod + WordMod
  PROVE  x % WordMod = x - WordMod
OBVIOUS

LEMMA WordOfNegative ==
  ASSUME NEW x \in Int, x < 0, 0 < x + WordMod
  PROVE  x % WordMod = x + WordMod
OBVIOUS

\* The difference of two words reduces to a word (uint16_t needed).
LEMMA WordOfInt ==
  ASSUME NEW x \in Int
  PROVE  x % WordMod \in Words
BY DEF Words

-----------------------------------------------------------------------------
(* What the helpers of a step return.                                      *)

\* The starting magazine and the rest of the total are words, and the
\* magazine is not overfilled.
LEMMA StartingMagFits ==
  ASSUME NEW c \in ConfigType
  PROVE  /\ StartingMag(c) \in Words
         /\ StartingMag(c) <= c.magSize
         /\ c.total - StartingMag(c) \in Words
         /\ c.total \in Words
BY DEF StartingMag, ConfigType, Words

\* A transfer takes no more than the reserve holds.
LEMMA TransferFits ==
  ASSUME GsTypeOK
  PROVE  /\ Transfer \in Words
         /\ Transfer <= reserve
         /\ Transfer <= Needed
<1>1. cfg.magSize \in Words /\ mag \in Words /\ reserve \in Words
  BY DEF GsTypeOK, ConfigType
<1>2. Needed \in Words
  <2>1. cfg.magSize - mag \in Int
    BY <1>1 DEF Words
  <2> QED
    BY <2>1, WordOfInt DEF Needed
<1> QED
  BY <1>1, <1>2 DEF Transfer, Words

\* While the magazine is within its size, needed does not wrap.
LEMMA NeededWithinSize ==
  ASSUME GsTypeOK, mag <= cfg.magSize
  PROVE  Needed = cfg.magSize - mag
<1>1. cfg.magSize \in Words /\ mag \in Words
  BY DEF GsTypeOK, ConfigType
<1>2. cfg.magSize - mag \in Words
  BY <1>1 DEF Words
<1> QED
  BY <1>2, WordOfWord DEF Needed

-----------------------------------------------------------------------------
(* Type correctness.                                                       *)

\* game_state_init leaves every variable in its range.
LEMMA GsTypeInit == GsInit => GsTypeOK
<1>1. 0 \in Words /\ 0 \in 0 .. RateCap /\ RateCap \in 0 .. RateCap
  BY DEF Words
<1>2. ZeroConfig \in ConfigType
  BY <1>1 DEF ZeroConfig, ConfigType
<1> SUFFICES ASSUME GsInit
             PROVE  GsTypeOK
  OBVIOUS
<1>3. GsInitWith(ZeroConfig)
  BY DEF GsInit
<1>4. cfg \in ConfigType /\ sinceShot \in 0 .. RateCap
  BY <1>1, <1>2, <1>3, Zenon DEF GsInitWith
<1>5. mag \in Words /\ reserve \in Words
  BY <1>1, <1>3, Zenon DEF GsInitWith
<1>6. alive \in BOOLEAN /\ reloading \in BOOLEAN
  BY <1>3, Zenon DEF GsInitWith
<1>7. health \in Nat /\ issued \in Nat /\ shots \in Nat
  BY <1>3 DEF GsInitWith
<1> QED
  BY <1>4, <1>5, <1>6, <1>7 DEF GsTypeOK

\* A fresh life keeps every variable in its range.
LEMMA GsTypeFreshLife ==
  ASSUME GsTypeOK, NEW c \in ConfigType, FreshLife(c), cfg' \in ConfigType,
         sinceShot' \in 0 .. RateCap
  PROVE  GsTypeOK'
<1>1. c.maxHealth \in Nat
  BY DEF ConfigType
<1>2. c.total \in Nat
  BY DEF ConfigType, Words
<1> QED
  BY <1>1, <1>2, StartingMagFits DEF FreshLife, GsTypeOK

\* Every call keeps every variable in its range.
LEMMA GsTypeStep == GsTypeOK /\ [GsNext]_gsVars => GsTypeOK'
<1> SUFFICES ASSUME GsTypeOK, [GsNext]_gsVars
             PROVE  GsTypeOK'
  OBVIOUS
<1>1. ASSUME NEW c \in Configs, SetConfig(c)
      PROVE  GsTypeOK'
  BY <1>1, ConfigsAssumption DEF SetConfig, GsTypeOK
<1>2. ASSUME NEW c \in ConfigType, StartGame(c)
      PROVE  GsTypeOK'
  <2>1. FreshLife(c) /\ cfg' \in ConfigType /\ sinceShot' \in 0 .. RateCap
    BY <1>2 DEF StartGame
  <2> QED
    BY <2>1, GsTypeFreshLife
<1>3. CASE TryFire
  <2>1. mag - 1 \in Words
    BY <1>3 DEF TryFire, CanFire, GsTypeOK, Words
  <2> QED
    BY <1>3, <2>1 DEF TryFire, GsTypeOK
<1>4. CASE ApplyHit(cfg.damage)
  <2>1. health' \in Nat
    BY <1>4 DEF ApplyHit, Kills, GsTypeOK, ConfigType
  <2>2. alive' \in BOOLEAN
    BY <1>4 DEF ApplyHit
  <2> QED
    BY <1>4, <2>1, <2>2 DEF ApplyHit, GsTypeOK
<1>5. CASE StartReload
  BY <1>5 DEF StartReload, GsTypeOK
<1>6. CASE CompleteReload
  <2>1. mag' \in Words
    <3>1. mag + Transfer \in Nat
      BY TransferFits DEF GsTypeOK, Words
    <3> QED
      BY <3>1, <1>6, WordOfNat DEF CompleteReload
  <2>2. reserve' \in Words
    BY <1>6, TransferFits DEF CompleteReload, GsTypeOK, Words
  <2> QED
    BY <1>6, <2>1, <2>2 DEF CompleteReload, GsTypeOK
<1>7. CASE Respawn
  <2>1. FreshLife(cfg) /\ cfg' \in ConfigType /\ sinceShot' \in 0 .. RateCap
    BY <1>7 DEF Respawn, GsTypeOK
  <2>2. cfg \in ConfigType
    BY DEF GsTypeOK
  <2> QED
    BY <2>1, <2>2, GsTypeFreshLife
<1>8. ASSUME NEW n \in AmmoGrants, AddAmmo(n)
      PROVE  GsTypeOK'
  <2>1. n \in Nat /\ reserve \in Nat
    BY AmmoGrantsAssumption DEF GsTypeOK, Words
  <2>2. reserve' \in Words
    BY <1>8, <2>1, WordOfNat DEF AddAmmo
  <2>3. issued' \in Nat
    BY <1>8, <2>1 DEF AddAmmo, GsTypeOK
  <2> QED
    BY <1>8, <2>2, <2>3 DEF AddAmmo, GsTypeOK
<1>9. CASE Tick
  BY <1>9 DEF Tick, GsTypeOK
<1>10. CASE UNCHANGED gsVars
  BY <1>10 DEF gsVars, GsTypeOK
<1>11. cfg \in ConfigType
  BY DEF GsTypeOK
<1> QED
  BY <1>1, <1>2, <1>3, <1>4, <1>5, <1>6, <1>7, <1>8, <1>9, <1>10, <1>11, ConfigsAssumption DEF GsNext

\* Every counter stays a machine word and every field keeps its range, in
\* any order of calls.
THEOREM GsTypeCorrect == GsSpec => []GsTypeOK
<1> QED
  BY GsTypeInit, GsTypeStep, PTL DEF GsSpec

-----------------------------------------------------------------------------
(* The ammunition ledger.  Neither half is disturbed by the wrap of a      *)
(* counter: a reduction to a word can only lose rounds, and loses none     *)
(* while fewer than WordMod have been issued.                              *)

Ledger == AmmoNeverMinted /\ AmmoNeverLost

\* Moving t rounds out of the reserve, some of which may be lost on the way
\* into the magazine, keeps the ledger.
LEMMA MovedRounds ==
  ASSUME NEW m \in Nat, NEW r \in Nat, NEW s \in Nat, NEW i \in Nat, NEW t \in Nat,
         NEW m2 \in Nat, t <= r, m2 <= m + t, m + r + s <= i
  PROVE  m2 + (r - t) + s <= i
OBVIOUS

\* A transfer cannot fill the magazine beyond what was issued.
LEMMA MovedWithinIssue ==
  ASSUME NEW m \in Nat, NEW r \in Nat, NEW s \in Nat, NEW i \in Nat, NEW t \in Nat,
         t <= r, m + r + s <= i
  PROVE  m + t <= i
OBVIOUS

\* A transfer that loses nothing keeps the ledger exact.
LEMMA MovedInFull ==
  ASSUME NEW m \in Nat, NEW r \in Nat, NEW s \in Nat, NEW i \in Nat, NEW t \in Nat,
         m + r + s = i
  PROVE  (m + t) + (r - t) + s = i
OBVIOUS

\* Granting n rounds, some of which may be lost, keeps the ledger.
LEMMA GrantedRounds ==
  ASSUME NEW m \in Nat, NEW r \in Nat, NEW s \in Nat, NEW i \in Nat, NEW n \in Nat,
         NEW r2 \in Nat, r2 <= r + n, m + r + s <= i
  PROVE  m + r2 + s <= i + n
OBVIOUS

\* A grant cannot fill the reserve beyond what was issued.
LEMMA GrantedWithinIssue ==
  ASSUME NEW m \in Nat, NEW r \in Nat, NEW s \in Nat, NEW i \in Nat, NEW n \in Nat,
         m + r + s <= i
  PROVE  r + n <= i + n /\ i <= i + n
OBVIOUS

\* A grant that loses nothing keeps the ledger exact.
LEMMA GrantedInFull ==
  ASSUME NEW m \in Nat, NEW r \in Nat, NEW s \in Nat, NEW i \in Nat, NEW n \in Nat,
         m + r + s = i
  PROVE  m + (r + n) + s = i + n
OBVIOUS

\* Nothing has been issued at boot and nothing is held.
LEMMA LedgerInit == GsInit => Ledger
BY DEF GsInit, GsInitWith, Ledger, AmmoNeverMinted, AmmoNeverLost

\* A fresh life accounts for every round of its total.
LEMMA LedgerFreshLife ==
  ASSUME NEW c \in ConfigType, FreshLife(c)
  PROVE  Ledger'
<1>1. mag' + reserve' + shots' = issued'
  BY StartingMagFits DEF FreshLife, Words
<1>2. issued' \in Nat
  BY StartingMagFits DEF FreshLife, Words
<1> QED
  BY <1>1, <1>2 DEF Ledger, AmmoNeverMinted, AmmoNeverLost

\* Every call keeps the ledger.
LEMMA LedgerStep == GsTypeOK /\ Ledger /\ [GsNext]_gsVars => Ledger'
<1> SUFFICES ASSUME GsTypeOK, Ledger, [GsNext]_gsVars
             PROVE  Ledger'
  OBVIOUS
<1>0. /\ mag \in Nat /\ reserve \in Nat /\ shots \in Nat /\ issued \in Nat
      /\ cfg \in ConfigType
  BY DEF GsTypeOK, Words
<1>1. ASSUME NEW c \in Configs, SetConfig(c)
      PROVE  Ledger'
  BY <1>1 DEF SetConfig, Ledger, AmmoNeverMinted, AmmoNeverLost
<1>2. ASSUME NEW c \in ConfigType, StartGame(c)
      PROVE  Ledger'
  <2>1. FreshLife(c)
    BY <1>2 DEF StartGame
  <2> QED
    BY <2>1, LedgerFreshLife
<1>3. CASE TryFire
  BY <1>0, <1>3 DEF TryFire, Ledger, AmmoNeverMinted, AmmoNeverLost
<1>4. CASE ApplyHit(cfg.damage)
  BY <1>4 DEF ApplyHit, Ledger, AmmoNeverMinted, AmmoNeverLost
<1>5. CASE StartReload
  BY <1>5 DEF StartReload, Ledger, AmmoNeverMinted, AmmoNeverLost
<1>6. CASE CompleteReload
  <2>1. Transfer \in Nat /\ Transfer <= reserve
    BY TransferFits DEF Words
  <2>2. mag + Transfer \in Nat
    BY <1>0, <2>1
  <2>3. /\ mag' = (mag + Transfer) % WordMod
        /\ reserve' = reserve - Transfer
        /\ shots' = shots
        /\ issued' = issued
    BY <1>6 DEF CompleteReload
  <2>4. mag' <= mag + Transfer /\ mag' \in Nat
    BY <2>2, <2>3, WordOfNat DEF Words
  <2>5. mag + reserve + shots <= issued
    BY DEF Ledger, AmmoNeverMinted
  <2>6. mag' + (reserve - Transfer) + shots <= issued
    BY <1>0, <2>1, <2>4, <2>5, MovedRounds
  <2>7. mag + Transfer <= issued
    BY <1>0, <2>1, <2>5, MovedWithinIssue
  <2>8. AmmoNeverMinted'
    BY <2>3, <2>6 DEF AmmoNeverMinted
  <2>9. ASSUME issued < WordMod
        PROVE  mag' + reserve' + shots' = issued'
    <3>1. mag + Transfer \in Words
      BY <1>0, <2>2, <2>7, <2>9 DEF Words
    <3>2. mag' = mag + Transfer
      BY <2>3, <3>1, WordOfWord
    <3>3. mag + reserve + shots = issued
      BY <2>9 DEF Ledger, AmmoNeverLost
    <3>4. (mag + Transfer) + (reserve - Transfer) + shots = issued
      BY <1>0, <2>1, <3>3, MovedInFull
    <3> QED
      BY <2>3, <3>2, <3>4
  <2> QED
    BY <2>3, <2>8, <2>9 DEF Ledger, AmmoNeverLost
<1>7. CASE Respawn
  <2>1. FreshLife(cfg)
    BY <1>7 DEF Respawn
  <2> QED
    BY <1>0, <2>1, LedgerFreshLife
<1>8. ASSUME NEW n \in AmmoGrants, AddAmmo(n)
      PROVE  Ledger'
  <2>1. n \in Nat
    BY AmmoGrantsAssumption DEF Words
  <2>2. reserve + n \in Nat
    BY <1>0, <2>1
  <2>3. /\ reserve' = (reserve + n) % WordMod
        /\ mag' = mag
        /\ shots' = shots
        /\ issued' = issued + n
    BY <1>8 DEF AddAmmo
  <2>4. reserve' <= reserve + n /\ reserve' \in Nat
    BY <2>2, <2>3, WordOfNat DEF Words
  <2>5. mag + reserve + shots <= issued
    BY DEF Ledger, AmmoNeverMinted
  <2>6. mag + reserve' + shots <= issued + n
    BY <1>0, <2>1, <2>4, <2>5, GrantedRounds
  <2>7. reserve + n <= issued + n /\ issued <= issued + n
    BY <1>0, <2>1, <2>5, GrantedWithinIssue
  <2>8. AmmoNeverMinted'
    BY <2>3, <2>6 DEF AmmoNeverMinted
  <2>9. ASSUME issued + n < WordMod
        PROVE  mag' + reserve' + shots' = issued'
    <3>1. reserve + n \in Words /\ issued < WordMod
      BY <1>0, <2>1, <2>2, <2>7, <2>9 DEF Words
    <3>2. reserve' = reserve + n
      BY <2>3, <3>1, WordOfWord
    <3>3. mag + reserve + shots = issued
      BY <3>1 DEF Ledger, AmmoNeverLost
    <3>4. mag + (reserve + n) + shots = issued + n
      BY <1>0, <2>1, <3>3, GrantedInFull
    <3> QED
      BY <2>3, <3>2, <3>4
  <2> QED
    BY <2>3, <2>8, <2>9 DEF Ledger, AmmoNeverLost
<1>9. CASE Tick
  BY <1>9 DEF Tick, Ledger, AmmoNeverMinted, AmmoNeverLost
<1>10. CASE UNCHANGED gsVars
  BY <1>10 DEF gsVars, Ledger, AmmoNeverMinted, AmmoNeverLost
<1> QED
  BY <1>0, <1>1, <1>2, <1>3, <1>4, <1>5, <1>6, <1>7, <1>8, <1>9, <1>10, ConfigsAssumption DEF GsNext

\* No order of calls mints ammunition.
THEOREM NoAmmoMinted == GsSpec => []AmmoNeverMinted
<1>1. GsSpec => [](GsTypeOK /\ Ledger)
  BY GsTypeInit, GsTypeStep, LedgerInit, LedgerStep, PTL DEF GsSpec
<1>2. Ledger => AmmoNeverMinted
  BY DEF Ledger
<1> QED
  BY <1>1, <1>2, PTL

\* No order of calls loses ammunition before a counter can wrap.
THEOREM NoAmmoLost == GsSpec => []AmmoNeverLost
<1>1. GsSpec => [](GsTypeOK /\ Ledger)
  BY GsTypeInit, GsTypeStep, LedgerInit, LedgerStep, PTL DEF GsSpec
<1>2. Ledger => AmmoNeverLost
  BY DEF Ledger
<1> QED
  BY <1>1, <1>2, PTL

-----------------------------------------------------------------------------
(* Loading.                                                                *)

\* A reload of a magazine within its size fills it to the size at most.
LEMMA ReloadWithinSize ==
  ASSUME GsTypeOK, CompleteReload, mag <= cfg.magSize
  PROVE  mag' <= cfg.magSize
<1>0. mag \in Nat /\ cfg.magSize \in Nat
  BY DEF GsTypeOK, Words, ConfigType
<1>1. Transfer \in Nat /\ Transfer <= cfg.magSize - mag
  BY TransferFits, NeededWithinSize DEF Words
<1>2. mag + Transfer \in Nat
  BY <1>0, <1>1
<1>3. mag' <= mag + Transfer /\ mag' \in Nat
  BY <1>2, WordOfNat DEF CompleteReload, Words
<1> QED
  BY <1>0, <1>1, <1>2, <1>3

\* One of a magazine beyond its size takes the whole reserve, if it adds to it.
LEMMA ReloadBeyondSize ==
  ASSUME GsTypeOK, CompleteReload, mag > cfg.magSize, mag' > mag
  PROVE  mag' = mag + reserve /\ reserve' = 0
<1>0. /\ mag \in Nat /\ reserve \in Nat /\ cfg.magSize \in Nat
      /\ mag < WordMod /\ reserve < WordMod
  BY DEF GsTypeOK, Words, ConfigType
<1>1. mag' = (mag + Transfer) % WordMod /\ reserve' = reserve - Transfer
  BY DEF CompleteReload
<1>2. Needed = cfg.magSize - mag + WordMod
  <2>1. cfg.magSize - mag \in Int /\ cfg.magSize - mag < 0 /\ 0 < cfg.magSize - mag + WordMod
    BY <1>0
  <2> QED BY <2>1, WordOfNegative DEF Needed
<1>3. CASE reserve >= Needed
  <2>1. Transfer = cfg.magSize - mag + WordMod
    BY <1>2, <1>3 DEF Transfer
  <2>2. mag + Transfer = cfg.magSize + WordMod
    BY <1>0, <2>1
  <2>3. (cfg.magSize + WordMod) % WordMod = cfg.magSize
    BY <1>0, WordOfSum
  <2> QED BY <1>0, <1>1, <2>2, <2>3
<1>4. CASE ~(reserve >= Needed)
  <2>1. Transfer = reserve
    BY <1>4 DEF Transfer
  <2>2. CASE mag + reserve < WordMod
    <3>1. (mag + reserve) % WordMod = mag + reserve
      BY <1>0, <2>2, WordOfWord DEF Words
    <3> QED BY <1>0, <1>1, <2>1, <3>1
  <2>3. CASE mag + reserve >= WordMod
    <3>1. (mag + reserve) % WordMod = mag + reserve - WordMod
      BY <1>0, <2>3, WordOfSum
    <3> QED BY <1>0, <1>1, <2>1, <3>1
  <2> QED BY <1>0, <2>2, <2>3
<1> QED BY <1>3, <1>4

\* What a step that adds to a magazine leaves.
LoadedTo ==
  \/ mag' <= cfg'.magSize
  \/ mag > cfg.magSize /\ mag' = mag + reserve /\ reserve' = 0

\* The calls that add to a magazine.
LEMMA LoadingStep ==
  ASSUME GsTypeOK, [GsNext]_gsVars, mag' > mag
  PROVE  LoadedTo
<1>0. mag \in Nat /\ cfg \in ConfigType /\ cfg.magSize \in Nat
  BY DEF GsTypeOK, Words, ConfigType
<1>1. ASSUME NEW c \in ConfigType, StartGame(c)
      PROVE  LoadedTo
  BY <1>1, StartingMagFits DEF StartGame, FreshLife, LoadedTo
<1>2. CASE CompleteReload
  <2>1. cfg' = cfg
    BY <1>2 DEF CompleteReload
  <2> QED
    BY <1>0, <1>2, <2>1, ReloadWithinSize, ReloadBeyondSize DEF LoadedTo
<1>3. CASE Respawn
  BY <1>0, <1>3, StartingMagFits DEF Respawn, FreshLife, LoadedTo
<1>4. CASE TryFire
  BY <1>0, <1>4 DEF TryFire
<1>5. ASSUME UNCHANGED mag
      PROVE  FALSE
  BY <1>0, <1>5
<1>6. \A c \in Configs : SetConfig(c) => UNCHANGED mag
  BY DEF SetConfig
<1>7. ApplyHit(cfg.damage) \/ StartReload \/ Tick \/ UNCHANGED gsVars => UNCHANGED mag
  BY DEF ApplyHit, StartReload, Tick, gsVars
<1>8. \A n \in AmmoGrants : AddAmmo(n) => UNCHANGED mag
  BY DEF AddAmmo
<1> QED
  BY <1>0, <1>1, <1>2, <1>3, <1>4, <1>5, <1>6, <1>7, <1>8, ConfigsAssumption DEF GsNext

\* A call that adds to a magazine fills it to the size in force at most, or it is
\* a reload of one beyond the size, which takes the whole reserve.
THEOREM LoadingBounded == GsSpec => LoadsToSizeOrAll
<1>1. GsSpec => []GsTypeOK
  BY GsTypeCorrect
<1>2. GsTypeOK /\ [GsNext]_gsVars => [mag' > mag => LoadedTo]_gsVars
  BY LoadingStep
<1> QED
  BY <1>1, <1>2, PTL DEF GsSpec, LoadsToSizeOrAll, LoadedTo
=============================================================================
