------------------------------ MODULE MCWinDriver ------------------------------
(***************************************************************************)
(* WinDriver for TLC: two frames of memory, requests of one transfer with   *)
(* two elements, of two transfers and of a length that is refused.         *)
(***************************************************************************)
EXTENDS WinDriver

MCShapes == {<<>>, <<<<"f1", "f2">>>>, <<<<"f1">>, <<"f2">>>>}
OneTransfer == {<<<<"f1">>>>}
MCResourceLists == {<<"mem0", "mem1", "interrupt">>, <<"mem0", "interrupt">>, <<"mem0">>}

\* A pin the power-down sets too, a value with the sign bit set, a buffer of the wrong
\* size and an input.
MCCtlCalls ==
    {[op |-> "SET", name |-> "ADCAPD", sized |-> TRUE, arg |-> {}],
     [op |-> "SET", name |-> "ADCAPD", sized |-> TRUE, arg |-> {31}],
     [op |-> "SET", name |-> "RXDecEn", sized |-> FALSE, arg |-> {1}],
     [op |-> "GET", name |-> "N7SDO", sized |-> TRUE, arg |-> {}]}
MCMayFail == {AddSteps[i] : i \in 1 .. Len(AddSteps)}
===============================================================================
