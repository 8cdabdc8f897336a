---------------------------- MODULE MCStaleFeed ----------------------------
(***************************************************************************)
(* Instances of StaleFeed.  A key is named <host><deployer>; host 2 is     *)
(* intermittent, and two deployers know it.                                *)
(***************************************************************************)
EXTENDS StaleFeed

Host(k) == CASE k = "1a" -> 1 [] k = "3a" -> 3 [] OTHER -> 2
Deployer(k) == IF k = "2b" THEN "b" ELSE "a"

(* Three hosts for a table of two: the limits. *)
WideKeys == {"1a", "2a", "2b", "3a"}
WideHostOf == [k \in WideKeys |-> Host(k)]
WideDeployerOf == [k \in WideKeys |-> Deployer(k)]

(* Two hosts and a clock that passes the grace: time and liveness. *)
DeepKeys == {"1a", "2a", "2b"}
DeepHostOf == [k \in DeepKeys |-> Host(k)]
DeepDeployerOf == [k \in DeepKeys |-> Deployer(k)]

(* Two keys of host 2 without a single deployer segment: they are named     *)
(* "(unknown)" both.                                                        *)
AliasKeys == {"2", "2:b:c"}
AliasHostOf == [k \in AliasKeys |-> 2]
AliasDeployerOf == [k \in AliasKeys |-> "(unknown)"]
=============================================================================
