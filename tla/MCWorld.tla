------------------------------ MODULE MCWorld -------------------------------
\* Values for the constants of Physics and Perception, for TLC: the tanks of
\* two bots and a player, a bullet and a food among rocks, one wider than a cell.
EXTENDS Perception

CONSTANTS bot, rival, player, bullet, food, rock, pebble

MCForm == [c \in Thing |-> IF c = food THEN "square" ELSE "circle"]
MCSize == [c \in Thing |-> CASE c = rock -> 6 [] c \in {bullet, food} -> 1 [] OTHER -> 2]
MCWeight == [c \in Body |-> CASE c = bullet -> 2 [] c = food -> 1 [] OTHER -> 20]
MCRank == [c \in Thing |-> CASE c = player -> 1 [] c = bullet -> 2 [] c = food -> 3
                             [] c = pebble -> 4 [] c = rock -> 5 [] c = bot -> 6 [] c = rival -> 7]
MCKind == [c \in Thing |-> CASE c \in Rock -> "obstacle" [] c = bullet -> "bullet"
                             [] c = food -> "food" [] OTHER -> "tank"]
MCEntities == <<food, bot, rival, player, bullet>>
MCRocksEntities == <<food, bullet>>
MCObstacles == <<rock, pebble>>
MCSpots == {<<0, 0>>, <<4, 4>>, <<5, 5>>, <<9, 0>>}
MCRockSpots == {<<7, 4>>, <<15, 3>>}
=============================================================================
