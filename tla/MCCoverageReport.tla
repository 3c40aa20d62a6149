-------------------------- MODULE MCCoverageReport --------------------------
(* A file of nine lines: f from 2 to 4; g on 5 and 6; two instances of a   *)
(* template on 8 and 9; in its other form, two overloads whose names are   *)
(* the same up to a comma in place of g and of these.  Line 7 is a comment *)
(* with parentheses, line 3 is never executed.                             *)
EXTENDS CoverageReport

MCExtent ==
    [f |-> <<2, 4>>, g |-> <<5, 6>>, t1 |-> <<8, 9>>, t2 |-> <<8, 9>>,
     o1 |-> <<5, 6>>, o2 |-> <<8, 9>>]
MCEntry == [fn \in DOMAIN MCExtent |-> IF fn \in {"o1", "o2"} THEN "o" ELSE fn]
MCTelling == {1, 2, 3, 5, 7, 8}

\* Orders of the functions of the file, with and without the template, and with
\* the overloads.
MCOrders ==
    SetToSeqs({"f", "g", "t1", "t2"}) \cup SetToSeqs({"f", "g", "t1"})
        \cup SetToSeqs({"f", "o1", "o2"})

MCInfo(order, ends, called) ==
    [order |-> order, ends |-> ends, called |-> called \cap ToSet(order),
     hits |-> [l \in UNION {MCExtent[fn][1] .. MCExtent[fn][2] : fn \in ToSet(order)} |->
                 l # 3 /\ \E fn \in called \cap ToSet(order) :
                            l \in MCExtent[fn][1] .. MCExtent[fn][2]]]

MCInfos ==
    {MCInfo(order, ends, called) :
       order \in MCOrders, ends \in BOOLEAN, called \in {{}, {"f", "o2"}, {"f", "g", "t2"}}}

\* The file is one ReportsOwnLines is proved for.
ASSUME MCOwnLines == OwnLines
=============================================================================
