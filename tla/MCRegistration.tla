---------------------------- MODULE MCRegistration ----------------------------
(* Registration on a small instance: one content at two places, decrypted by  *)
(* two tools; another of the same phone; and two backups that are refused.    *)
EXTENDS Registration

CONSTANTS p1, p2, r1, r2

Kind(root, prov) == [root |-> root, prov |-> prov]
Backup(content, place, ok, decrypt, ileapp, crash) ==
  [content |-> content, phone |-> "iPhone", place |-> place, sidecar |-> ok,
   decrypt |-> decrypt, ileapp |-> ileapp, crash |-> crash]
FiveBackups == {
  Backup("c1", "x", TRUE, Kind("c1", "v1"), Kind("c1", "i1"), None),
  Backup("c1", "y", TRUE, Kind("c1", "v2"), Kind("c1", "i1"), Kind("c1", "k")),
  Backup("c2", "z", TRUE, Kind("c2", "v1"), None, None),
  Backup("c2", "z", TRUE, Kind("c2", "v1"), Kind("c1", "i1"), None),
  Backup("c2", "z", FALSE, Kind("c2", "v1"), None, None)}

\* 0001 to 0007 as one file of several statements, 0008, 0009 which takes
\* 0008's constraint away, and 0012.
DropsOfFour == [f \in 1 .. 4 |-> IF f = 3 THEN {2} ELSE {}]
================================================================================
