----------------------------- MODULE MCCredentials -----------------------------
(* A file that is not there, one with two passwords for a cluster, and one *)
(* whose lines for it do not count.                                        *)
EXTENDS Credentials, TLC

CONSTANTS n1, n2, a, b, p, q, m1, m2

Line(colon, name, passwd) == [colon |-> colon, name |-> name, passwd |-> passwd]

MCName == {n1, n2}
MCServer == {a, b}
MCPasswd == {NoPasswd, p, q}
MCFiles ==
  { <<>>,
    << Line(TRUE, n1, p), Line(TRUE, n1, q), Line(TRUE, n2, q) >>,
    << Line(FALSE, n1, p), Line(TRUE, "empty", p), Line(TRUE, n1, NoPasswd),
       Line(TRUE, n2, p) >> }
MCMap == {m1, m2}
Symmetry == Permutations(MCServer) \cup Permutations(MCMap)
===============================================================================
