---------------------------- MODULE MCSourceState ----------------------------
\* A synced probe of high authority that numbers its messages, and a weaker
\* device without clock or numbers that reports the same property.
EXTENDS SourceState, TLC

CONSTANTS probe, device, level

\* The probe's three readings creep upwards, the third after a reboot, which
\* starts its numbers again, the second is sent twice; w is the weaker report.
Reading(n, boot, seq) ==
  [src |-> probe, prop |-> level, boot |-> boot, seq |-> seq, obs |-> n, val |-> n - 1]
MCAbout ==
  "m1" :> Reading(1, "b1", 1) @@ "m2" :> Reading(2, "b1", 2) @@ "m3" :> Reading(3, "b2", 1) @@
  "m2 again" :> Reading(2, "b1", 2) @@
  "w"  :> [src |-> device, prop |-> level, boot |-> None, seq |-> None, obs |-> None, val |-> 3] @@
  "oversized" :> [src |-> device, prop |-> level, boot |-> None, seq |-> None, obs |-> None, val |-> 3]
All == {"m1", "m2", "m2 again", "m3", "w", "oversized"}
AllAbout == [m \in All |-> MCAbout[m]]

MCRank == probe :> 1 @@ device :> 0
MCDeadband == probe :> (level :> 2) @@ device :> (level :> 0)
=============================================================================
