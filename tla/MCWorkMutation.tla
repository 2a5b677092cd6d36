--------------------------- MODULE MCWorkMutation ---------------------------
(* Small mutations for the model checker: a reparent (the page is written  *)
(* at its new name and deleted at the old one), a move into a new          *)
(* directory with a rewritten index, and an index alone.                   *)
EXTENDS WorkMutation, TLC

CONSTANTS page, index, asset, home, old, written, edited, dir, absent

MCMembers == {page, index, asset, home}

MCStart == (page :> old) @@ (index :> old) @@ (asset :> absent) @@ (home :> absent)

Shape(mkdirs, moves, writes, deletes, checked) ==
    [mkdirs |-> mkdirs, moves |-> moves, writes |-> writes,
     deletes |-> deletes, checked |-> checked]

MCShapes ==
    {Shape({}, {}, {asset, index}, {page}, {page}),
     Shape({home}, {<<page, asset>>}, {index}, {}, {home}),
     Shape({home}, {}, {}, {page}, {})}
=============================================================================
