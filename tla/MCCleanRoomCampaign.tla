------------------------ MODULE MCCleanRoomCampaign ------------------------
(* Two checks; Part I with one adaptive method and two slots, Part II with two methods. *)
EXTENDS CleanRoomCampaign

MCConfigs ==
  {[part |-> "part1", methods |-> <<"verigrey">>, slots |-> 2, cells |-> 1],
   [part |-> "part2", methods |-> <<"skillrace", "verigrey">>, slots |-> 2, cells |-> 1]}
=============================================================================
