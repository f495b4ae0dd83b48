------------------------------- MODULE Engine -------------------------------
(***************************************************************************)
(* One game: backend/pkg/engine (game.go, entities.go, physics.go).        *)
(*                                                                         *)
(* Everything here runs on the room goroutine, so an operation is a step:  *)
(* spawning, firing, taking out the tank of a player who does not return,  *)
(* and Tick, which lets every entity recover or decay, sweeps out the dead *)
(* and rewards their killers, refills the food and resolves collisions.    *)
(*                                                                         *)
(* Positions are left out: which entities touch, what meets an obstacle    *)
(* and what has left the map is chosen anew in each tick.  The sweep       *)
(* compacts Game.Entities in place while it looks killers up in that same  *)
(* array, and is modelled as it stands.                                    *)
(***************************************************************************)
EXTENDS Integers, SequencesExt

CONSTANTS
    TankId, BulletId, FoodId,    \* the IDs that are ever handed out
    Rock,                        \* any obstacle
    None,                        \* "no attacker yet", "nobody credited"
    MaxHealth, FoodHealth,       \* health on spawning (a bullet's is 1)
    TankDamage, BulletDamage, FoodDamage,   \* BodyDamage of each kind
    RegenRate, QuickRegenRate, RegenCooldown,
    FireCooldown, Lifespan,      \* in ticks
    FoodValue,                   \* ScoreValue of a food
    MaxFood,
    MaxContacts                  \* bound: the contacts resolved in one tick

Id == TankId \cup BulletId \cup FoodId

ASSUME EngineAssumption ==
    /\ TankId \cap BulletId = {} /\ TankId \cap FoodId = {} /\ BulletId \cap FoodId = {}
    /\ None \notin Id /\ Rock \notin Id
    /\ {MaxHealth, FoodHealth, TankDamage, BulletDamage, FoodDamage} \subseteq Nat \ {0}
    /\ {RegenRate, QuickRegenRate, RegenCooldown, FireCooldown, Lifespan} \subseteq Nat
    /\ {FoodValue, MaxFood, MaxContacts} \subseteq Nat

VARIABLES
    entities,    \* Game.Entities
    spawned,     \* the IDs handed out so far
    health,      \* Health
    attacker,    \* LastAttackerID
    rested,      \* TicksSinceAction of a tank, up to RegenCooldown
    reload,      \* ticks since a tank's LastFireTick, up to FireCooldown
    elapsed,     \* CurrentTick, up to FireCooldown
    owner,       \* Bullet.Owner
    life,        \* LifespanTicks
    hits,        \* hits a bullet added to its owner's HitsTank and HitsFood
    score,       \* Tank.Score
    credit       \* victim -> the tank its "kill" event named

vars == <<entities, spawned, health, attacker, rested, reload, elapsed,
          owner, life, hits, score, credit>>

InPlay == ToSet(entities)

Init ==
    /\ entities = <<>> /\ spawned = {}
    /\ health = [e \in Id |-> 0]
    /\ attacker = [e \in Id |-> None]
    /\ rested = [t \in TankId |-> 0] /\ reload = [t \in TankId |-> 0]
    /\ elapsed = 0
    /\ owner = [b \in BulletId |-> None]
    /\ life = [b \in BulletId |-> 0] /\ hits = [b \in BulletId |-> 0]
    /\ score = [t \in TankId |-> 0]
    /\ credit = [e \in Id |-> None]

-----------------------------------------------------------------------------
(* Between ticks.                                                          *)

\* A tank joins: registerClient appends it, SpawnTank does the same for a bot.
\* LastFireTick of a new tank is 0.
SpawnTank(t) ==
    /\ t \notin spawned
    /\ entities' = Append(entities, t)
    /\ spawned' = spawned \cup {t}
    /\ health' = [health EXCEPT ![t] = MaxHealth]
    /\ reload' = [reload EXCEPT ![t] = elapsed]
    /\ UNCHANGED <<attacker, rested, elapsed, owner, life, hits, score, credit>>

\* Tank.Fire and SpawnBullet: a tank in Entities, dead or alive, fires.
Fire(t, b) ==
    /\ t \in InPlay /\ b \notin spawned
    /\ reload[t] >= FireCooldown
    /\ reload' = [reload EXCEPT ![t] = 0]
    /\ entities' = Append(entities, b)
    /\ spawned' = spawned \cup {b}
    /\ health' = [health EXCEPT ![b] = 1]
    /\ owner' = [owner EXCEPT ![b] = t]
    /\ life' = [life EXCEPT ![b] = Lifespan]
    /\ UNCHANGED <<attacker, rested, elapsed, hits, score, credit>>

\* expireGrace takes a player's tank out; nobody killed it.
RemoveTank(t) ==
    /\ \E i \in DOMAIN entities : entities[i] = t /\ entities' = RemoveAt(entities, i)
    /\ UNCHANGED <<spawned, health, attacker, rested, reload, elapsed,
                   owner, life, hits, score, credit>>

-----------------------------------------------------------------------------
(* Tick, first half: TickCalculation and the sweep.                        *)

\* Tank.TickCalculation: a tank regenerates, whatever its health.
Regenerated(t) ==
    LET rate == RegenRate + IF rested[t] >= RegenCooldown THEN QuickRegenRate ELSE 0
    IN  IF health[t] < MaxHealth THEN Min({health[t] + rate, MaxHealth}) ELSE health[t]

Undying(b) == health[b]                         \* mutants of Flown
Mended(b) == IF life[b] <= 1 THEN 0 ELSE health[b] + RegenRate
\* Bullet.TickCalculation: the last tick of its lifespan ends a bullet.
Flown(b) == IF life[b] <= 1 THEN 0 ELSE health[b]

\* Health when Tick asks IsAlive; those in off are beyond the map's edge.
Ticked(off) ==
    [e \in Id |->
        IF e \notin InPlay THEN health[e]
        ELSE IF e \in off THEN 0
        ELSE IF e \in TankId THEN Regenerated(e)
        ELSE IF e \in BulletId THEN Flown(e) ELSE health[e]]

FullWorth(victim, scores) ==                    \* mutant of Worth
    IF victim \in TankId THEN scores[victim] + FoodValue
    ELSE IF victim \in FoodId THEN FoodValue ELSE 0
\* What processDeath adds to the killer's Score.
Worth(victim, scores) ==
    IF victim \in TankId THEN scores[victim] \div 2
    ELSE IF victim \in FoodId THEN FoodValue ELSE 0

SweptFront(sweep, e) ==                         \* mutant of Swept
    LET killer == attacker[e]
    IN  IF sweep.health[e] > 0 THEN [sweep EXCEPT !.kept = Append(@, e)]
        ELSE IF killer \in TankId /\ Contains(sweep.kept, killer)
             THEN [sweep EXCEPT !.score[killer] = @ + Worth(e, sweep.score),
                                !.credit[e] = killer]
             ELSE sweep
\* One entity of the sweep: a survivor is written over the front of the array; a
\* death rewards the last attacker if that is a tank which the array, by now
\* half overwritten, still holds.
Swept(sweep, e) ==
    LET array == sweep.kept \o SubSeq(entities, Len(sweep.kept) + 1, Len(entities))
        killer == attacker[e]
    IN  IF sweep.health[e] > 0 THEN [sweep EXCEPT !.kept = Append(@, e)]
        ELSE IF killer \in TankId /\ Contains(array, killer)
             THEN [sweep EXCEPT !.score[killer] = @ + Worth(e, sweep.score),
                                !.credit[e] = killer]
             ELSE sweep

\* The sweep of all entities, in their order, given their health.
Sweep(h) ==
    LET after[n \in 0 .. Len(entities)] ==
          IF n = 0 THEN [health |-> h, kept |-> <<>>, score |-> score, credit |-> credit]
          ELSE Swept(after[n - 1], entities[n])
    IN  after[Len(entities)]

\* What a tick's sweep may come to; bound: one entity at a time leaves the map.
Sweeps == {Sweep(Ticked(off)) : off \in {{}} \cup {{e} : e \in InPlay}}

-----------------------------------------------------------------------------
(* Tick, second half: food and CheckAllCollisions.  A contact is a pair of *)
(* entities that touch, or a bullet and an obstacle.                       *)

CountAll(S) == S                                \* mutant of Foods
Foods(S) == S \cap FoodId

\* The foods Tick may spawn: as many as are missing; bound: no tick without them.
Refill(kept) == Injection(1 .. MaxFood - Cardinality(Foods(ToSet(kept))), FoodId \ spawned)

Touches(e, o) == o = Rock => e \in BulletId     \* mutant of Hurts
\* Does the CollisionAction of e do anything when it meets o?  Not when one is a
\* bullet and the other the tank that fired it; an obstacle only ends bullets.
Hurts(e, o) ==
    /\ o = Rock => e \in BulletId
    /\ ~ (e \in BulletId /\ owner[e] = o)
    /\ ~ (o \in BulletId /\ owner[o] = e)

Foe(e, contact) == CHOOSE o \in contact : o # e

\* OnCollision on both sides of every contact: the foes that hurt e.
Foes(e, contacts) == {Foe(e, c) : c \in {c \in contacts : e \in c /\ Hurts(e, Foe(e, c))}}

\* The contacts among S that hurt anybody.
Hurting(S) ==
    LET pairs == {{d, e} : d, e \in S} \cup {{b, Rock} : b \in S \cap BulletId}
    IN  {c \in pairs : Cardinality(c) = 2 /\ \E e \in c \cap Id : Hurts(e, Foe(e, c))}

\* What a tick's collisions may be among S: who is hurt by whom, given at most
\* MaxContacts contacts.
Collisions(S) == {[e \in Id |-> Foes(e, Range(q))] : q \in SeqOf(Hurting(S), MaxContacts)}

TotalDamage(foes) ==
    TankDamage * Cardinality(foes \cap TankId)
    + BulletDamage * Cardinality(foes \cap BulletId) + FoodDamage * Cardinality(foes \cap FoodId)

\* A bullet ends with what it hits; the others lose the foes' BodyDamage.
HealthAfter(e, h, foes) ==
    IF foes = {} THEN h ELSE IF e \in BulletId THEN 0 ELSE h - TotalDamage(foes)

\* Who ends up as LastAttackerID: the only foe, or any of several, the order of
\* the contacts depending on where everything is.
Blamed(foes) ==
    LET by(e) == foes[e] \ {Rock}
        contested == {e \in Id : Cardinality(by(e)) > 1}
    IN  {[e \in Id |-> IF e \in contested THEN last[e]
                       ELSE IF by(e) = {} THEN attacker[e] ELSE CHOOSE o \in by(e) : TRUE] :
           last \in {f \in [contested -> Id] : \A e \in contested : f[e] \in by(e)}}

\* The hits b adds to its owner's counters.  A spent bullet keeps colliding until
\* the tick is over, and counts with every tank and food it hits.
HitsOf(b, foes) == Cardinality({e \in TankId \cup FoodId : b \in foes[e]})

\* What is left in play keeps its record; nothing below reads the others again.
Forgotten(f, void) ==
    LET kept == ToSet(entities') IN [e \in DOMAIN f |-> IF e \in kept THEN f[e] ELSE void]

\* One tick, given how the sweep, the food and the collisions came out.
Turn(sweep, new, foes) ==
    LET h == [e \in Id |-> IF e \in Range(new) THEN FoodHealth ELSE sweep.health[e]]
    IN  /\ entities' = sweep.kept \o new
        /\ spawned' = spawned \cup Range(new)
        /\ score' = sweep.score /\ credit' = sweep.credit
        /\ health' = Forgotten([e \in Id |-> HealthAfter(e, h[e], foes[e])], 0)
        /\ \E last \in Blamed(foes) : attacker' = Forgotten(last, None)
        /\ hits' = [b \in BulletId |-> hits[b] + HitsOf(b, foes)]
        /\ rested' = Forgotten([t \in TankId |->
              IF foes[t] # {} THEN 0 ELSE Min({rested[t] + 1, RegenCooldown})], 0)
        /\ elapsed' = Min({elapsed + 1, FireCooldown})
        /\ reload' = Forgotten([t \in TankId |-> Min({reload[t] + 1, FireCooldown})], 0)
        /\ life' = Forgotten([b \in BulletId |-> life[b] - 1], 0)
        /\ UNCHANGED owner

Tick ==
    \E sweep \in Sweeps : \E new \in Refill(sweep.kept) :
    \E foes \in Collisions(ToSet(sweep.kept \o new)) : Turn(sweep, new, foes)

Next ==
    \/ \E t \in TankId : SpawnTank(t) \/ RemoveTank(t)
    \/ \E t \in TankId, b \in BulletId : Fire(t, b)
    \/ Tick

Spec == Init /\ [][Next]_vars

-----------------------------------------------------------------------------
(* Properties.                                                             *)

TypeOK ==
    /\ entities \in Seq(Id) /\ IsInjective(entities)
    /\ InPlay \subseteq spawned /\ spawned \subseteq Id
    /\ health \in [Id -> Int] /\ attacker \in [Id -> Id \cup {None}]
    /\ rested \in [TankId -> 0 .. RegenCooldown]
    /\ reload \in [TankId -> 0 .. FireCooldown] /\ elapsed \in 0 .. FireCooldown
    /\ owner \in [BulletId -> TankId \cup {None}]
    /\ life \in [BulletId -> 0 .. Lifespan] /\ hits \in [BulletId -> Nat]
    /\ score \in [TankId -> Nat] /\ credit \in [Id -> TankId \cup {None}]

\* Scores come from food: what the tanks in play hold is backed by the food that
\* tanks were credited with, however kills are chained, and even when killer and
\* victim die in the same sweep.  (A tank's death passes half its score on.)
ScoreBacked ==
    SumFunctionOnSet(score, InPlay \cap TankId)
        <= FoodValue * Cardinality({f \in FoodId : credit[f] # None})

\* No kill is lost to the array being overwritten while killers are looked up in it: the
\* tank that hurt a victim last is credited and paid if it survives the same sweep,
\* wherever the two stand in the array.  (A tank that is taken out was not killed.)
KillersPaid ==
    [][\A e \in InPlay \ InPlay' :
          LET killer == attacker[e]
          IN  killer \in TankId \cap InPlay \cap InPlay' /\ ~ (\E t \in TankId : RemoveTank(t)) =>
                /\ credit'[e] = killer
                /\ score'[killer] >= score[killer] + Worth(e, score)]_vars

\* All hits of a bullet fall in one tick: a bullet that has hit something is
\* swept out before the next collisions, and never hits again.
BulletScoresOnce ==
    [][\A b \in BulletId : hits[b] > 0 => hits'[b] = hits[b]]_vars

\* A tank is never hurt by its own bullet, nor the bullet by its tank, whoever
\* else they touch in the same tick and in whatever order.
OwnBulletHarmless ==
    \A e \in InPlay :
        /\ attacker[e] \in BulletId => owner[attacker[e]] # e
        /\ e \in BulletId => attacker[e] # owner[e] \/ owner[e] = None

\* Every tick leaves MaxFood foods on the map, whatever it swept out.
FoodSteady ==
    Foods(spawned) # {} => Cardinality(Foods(InPlay)) = MaxFood
=============================================================================
