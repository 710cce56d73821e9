-------------------------- MODULE MCLoginProtection --------------------------
(* LoginProtection on small instances.                                     *)
EXTENDS LoginProtection

CONSTANTS r1, r2

\* A window admits two requests; one failure locks.
MCLimit == [k \in Keys |-> IF k \in RateKeys THEN 2 ELSE 1]
=============================================================================
