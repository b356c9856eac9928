------------------------------ MODULE MCInputs ------------------------------
(* Lists of up to three inputs, two of them of origin inference.             *)
EXTENDS Inputs

CONSTANTS x, y, z

In(n, o, opt, re) == [name |-> n, origin |-> o, optional |-> opt, retry |-> re]

MCLists ==
    {<<In(x, o, opt, re)>> : o \in Origins, opt \in BOOLEAN, re \in BOOLEAN}
    \cup {<<In(x, o, FALSE, re), In(y, "inference", opt, FALSE)>> :
              o \in {"function", "inference"}, opt \in BOOLEAN, re \in BOOLEAN}
    \cup {<<In(x, "inference", opt, re), In(y, "function", FALSE, FALSE), In(z, "inference", FALSE, FALSE)>> :
              opt \in BOOLEAN, re \in BOOLEAN}
    \cup {<<In(x, "inference", opt, FALSE), In(y, "inference", FALSE, FALSE), In(z, "inference", FALSE, FALSE)>> :
              opt \in BOOLEAN}
=============================================================================
