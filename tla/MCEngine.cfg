SPECIFICATION Spec
CONSTANTS
    TankId = {t1, t2}
    BulletId = {b1, b2}
    FoodId = {f1, f2}
    Rock = Rock
    None = None
    MaxHealth = 2
    FoodHealth = 1
    TankDamage = 1
    BulletDamage = 1
    FoodDamage = 1
    RegenRate = 1
    QuickRegenRate = 1
    RegenCooldown = 1
    FireCooldown = 1
    Lifespan = 3
    FoodValue = 2
    MaxFood = 1
    MaxContacts = 2
CHECK_DEADLOCK FALSE
SYMMETRY Symmetry
INVARIANT TypeOK
INVARIANT ScoreBacked
INVARIANT OwnBulletHarmless
INVARIANT FoodSteady
PROPERTY KillersPaid
PROPERTY BulletScoresOnce
