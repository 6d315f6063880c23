------------------------------ MODULE MCFactLedger ------------------------------
(* FactLedger on small instances. *)
EXTENDS FactLedger, TLC

CONSTANTS e1, e2, fa, fb, fc, hx, hy

\* Two evidence items that share a file's bytes: the first has them twice, the
\* second has a file with no facts beside it, which parser version 1 cannot read
\* and version 2 can.  An old unit of those bytes may be stranded in each, at the
\* newer and at the older version.
TwoEvidence == {e1, e2}
ThreeFiles == {fa, fb, fc}
FilesOfTwo == (e1 :> {fa, fc}) @@ (e2 :> {fb, fc})
HashOfThree == (fa :> hx) @@ (fb :> hy) @@ (fc :> hx)
CountWithEmpty == (hx :> 2) @@ (hy :> 0)
ReadableByTwo == {<<hx, 1>>, <<hx, 2>>, <<hy, 2>>}
StrandedTwo == {[ev |-> e1, hash |-> hx, ver |-> 2], [ev |-> e2, hash |-> hx, ver |-> 1]}
================================================================================
