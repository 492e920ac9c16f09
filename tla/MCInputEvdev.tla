---------------------------- MODULE MCInputEvdev ----------------------------
(* Two devices of different rank and two slots.  Esc has a bit in held_keys; *)
(* the shoulder button R1 has not, and its device has a stick.               *)
EXTENDS InputEvdev

MCRank == [d \in Devices |-> IF d = 0 THEN 1 ELSE 4]
MCKeysOf == [d \in Devices |-> IF Devices = {0} THEN Keys ELSE IF d = 0 THEN {"Esc"} ELSE {"R1"}]
MCAxis == [d \in Devices |-> [min |-> 0, max |-> 2, flat |-> 0]]
MCKeyAction == [k \in Keys |-> IF k = "Esc" THEN "QUIT" ELSE "NEXT"]
=============================================================================
