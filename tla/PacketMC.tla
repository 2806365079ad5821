------------------------------ MODULE PacketMC ------------------------------
(* Instances of Packet: the cases that matter to folding, where frames are   *)
(* many and the inputs steady, and those that matter to the gate, where the  *)
(* trigger input and the error flags change with every frame; both for the   *)
(* older device too.                                                         *)
EXTENDS Gen1Capture

FoldCases == [gen : {2}, fold : {TRUE}, exclude : BOOLEAN, trigger : {"disabled"},
              speed : {"Reset"}, limit : {0, 3}, inputs : {{<<1, 0>>}},
              flags : {{{}, {"overflow"}, {"data"}}}, frames : {5}]

GateCases == [gen : {2}, fold : BOOLEAN, exclude : {FALSE}, trigger : Triggers,
              speed : {"FS"}, limit : {0}, inputs : {{0, 1} \X {0, 1}},
              flags : {{{}, {"overflow"}, {"crc"}, {"overflow", "data"}}}, frames : {3}]

Gen1Cases == [gen : {1}, fold : {TRUE}, exclude : BOOLEAN, trigger : {"disabled"},
              speed : {"Reset"}, limit : {0, 3}, inputs : {{<<1, 0>>}},
              flags : {{{}, {"overflow"}}}, frames : {5}]
             \cup
             [gen : {1}, fold : BOOLEAN, exclude : {FALSE}, trigger : Triggers,
              speed : {"FS"}, limit : {2}, inputs : {{0, 1} \X {0, 1}},
              flags : {{{}, {"crc"}, {"data"}}}, frames : {3}]

(* The time stands still, moves on or goes back within a range of the        *)
(* counter, or a range has passed.                                           *)
ClockReadings == {<<0, 0>>, <<0, 2>>, <<1, 0>>}

AllCases == FoldCases \cup GateCases \cup Gen1Cases
=============================================================================
