--------------------------- MODULE MCInputValidation ---------------------------
EXTENDS InputValidation

MCCells == 1 .. 3

(* A buffer reaches the neighbouring cells; that of nothing is undefined.  *)
MCBuffered ==
    [e \in SUBSET MCCells |->
        IF e = {} THEN NoExtent ELSE {c \in MCCells : \E d \in e : c \in {d - 1, d, d + 1}}]

(* Every defect alone, and the pairs whose order of discovery matters.     *)
(* What is no database at all cannot be queried either.                    *)
MCDefects == {{}} \cup {{d} : d \in Defects} \cup
             {{"unreadable", "noContents", "noMatrix"}, {"unreadable", "grid"}, {"badInfo", "noContents"},
              {"noUnique", "noManual"}, {"grid", "noContents"}, {"tileSize", "noManual", "noUnique"},
              {"noMatrix", "manyTables"}}

MCContents == {[defects |-> d, extent |-> {1}] : d \in MCDefects} \cup
              {[defects |-> {}, extent |-> {}], [defects |-> {}, extent |-> {2}]}

MCProducts == {[kind |-> k, polygons |-> {{1}}] : k \in {"unreadable", "noFeatures", "invalid"}} \cup
              {[kind |-> "ok", polygons |-> p] : p \in {{{1}}, {{1}, {2}}, {{3}}}}
=============================================================================
