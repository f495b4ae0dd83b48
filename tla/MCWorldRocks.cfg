SPECIFICATION Spec
CONSTANTS
    bot = bot
    rival = rival
    player = player
    bullet = bullet
    food = food
    rock = rock
    pebble = pebble
    None = None
    Body = {bullet, food}
    Rock = {rock, pebble}
    Form <- MCForm
    Size <- MCSize
    Weight <- MCWeight
    Rank <- MCRank
    CellSize = 5
    Spots <- MCSpots
    RockSpots <- MCRockSpots
    Kind <- MCKind
    Entities <- MCRocksEntities
    Obstacles <- MCObstacles
    ViewRange = 8
    NumSlots = 2
CHECK_DEADLOCK FALSE
INVARIANT RocksEndBullets
