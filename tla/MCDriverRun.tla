---------------------------- MODULE MCDriverRun ----------------------------
(* Small instances of DriverRun for TLC.  One child: a driver who taps on a *)
(* page that is fetching, and one who waits but loses an answer; the route  *)
(* of the one goes to school, that of the other home.  Two children: what   *)
(* the page shows after the first stop.                                     *)
EXTENDS DriverRun, TLC

CONSTANTS s1, s2

Morning(children, lost, hurry) ==
  [slot |-> "morning", stops |-> 1, at |-> [s \in children |-> 1],
   losses |-> lost, haste |-> hurry]

Evening(children, lost, hurry) ==
  [slot |-> "evening", stops |-> 2, at |-> [s \in children |-> IF s = s1 THEN 1 ELSE 2],
   losses |-> lost, haste |-> hurry]

MCTwoChildren == {Morning({s1, s2}, 0, {}), Evening({s1, s2}, 0, {})}

MCOneChild == {Morning({s1}, 0, {"tap"}), Evening({s1}, 1, {})}

=============================================================================
