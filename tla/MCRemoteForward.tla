---------------------------- MODULE MCRemoteForward ----------------------------
(* Two channels: of two ports, of one port at two addresses or given twice at one, *)
(* of a port sshd picks, which may be the other one's.                             *)
EXTENDS RemoteForward
CONSTANTS o1, o2, web, db, lo, lan

TwoOpens == {o1, o2}
SpecLists ==
  {<< >>,
   <<RemoteSpec(lo, 80, web), RemoteSpec(lo, 81, db)>>,
   <<RemoteSpec(lo, 80, web), RemoteSpec(lan, 80, db)>>,
   <<RemoteSpec(lo, 80, web), RemoteSpec(lo, 80, db)>>,
   <<RemoteSpec(lo, 0, web), RemoteSpec(lan, 80, db)>>}
==============================================================================
