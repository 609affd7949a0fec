--------------------------- MODULE MCRelationalKv ---------------------------
(* Instances of RelationalKv and Columns for TLC: two connections; a key of  *)
(* a signed type that takes a negative and a positive value and is removed,  *)
(* and one of an unsigned type that takes its largest; a column of each type *)
(* that is written and read as each type.                                    *)
EXTENDS RelationalKv, Columns, TLC

CONSTANTS k1, k2

(* Integers of 2, 3, 4 and 8 bits stand for those of 1, 2, 4 and 8 bytes: a  *)
(* number of less than 8 bytes has no more than half of their bits.          *)
MCHalf == [s \in Sizes |-> CASE s = 1 -> 2 [] s = 2 -> 4 [] s = 4 -> 8 [] s = 8 -> 128]
MCWidened == [f \in 0 .. 15 |-> 16 * f]
MCNarrowed == [d \in 0 .. 255 |-> d \div 16]
MCNaNs == {240}
MCWhole == {d \in 0 .. 255 : d % 32 = 0}
MCStrings == [size : {0, 1, 3, 4, 8}, bits : 0 .. 1]

(* The even doubles have no more than six decimals; the shortest text of a   *)
(* float is not that of its double.                                          *)
MCRounded == [d \in 0 .. 255 |-> 2 * (d \div 2)]
MCShown == [f \in 0 .. 15 |-> 16 * f + 1]

MCKeyType == [k \in Keys |-> IF k = k1 THEN "int32" ELSE "uint8"]

MCValue(T, n) == [type |-> T, val |-> n]
MCValues == {MCValue("int32", -8), MCValue("int32", 1), MCValue("uint8", 3)}

MCGets == [op : {"get"}, key : {k1}, type : {"int32"}]
            \cup [op : {"get"}, key : {k2}, type : {"uint8"}]

MCSets == [op : {"set"}, key : {k1}, val : {MCValue("int32", -8), MCValue("int32", 1)}]
            \cup [op : {"set"}, key : {k2}, val : {MCValue("uint8", 3)}]

MCRequests == MCSets \cup MCGets \cup [op : {"remove"}, key : {k1}] \cup ClearRequests

(* The threads are alike.                                                    *)
Symmetry == Permutations(Clients)

MCWithNull == MCSets \cup MCGets \cup NullRequests \cup RemoveRequests

(* A program works with the key-value database or with a table of its own.  *)
(* They share no state, so one run takes either and not both at once.       *)
MCInit == Init /\ ColumnsInit

KeyValueStep ==
    /\ ColumnsInit
    /\ Next
    /\ UNCHANGED columnVars

ColumnsStep ==
    /\ Init
    /\ ColumnsNext
    /\ UNCHANGED vars

MCSpec == MCInit /\ [][KeyValueStep \/ ColumnsStep]_<<vars, columnVars>>
=============================================================================
