------------------------------ MODULE MCAdminDesk ------------------------------
EXTENDS AdminDesk

Plain == [there |-> TRUE, broker |-> FALSE, active |-> TRUE, codes |-> FALSE]

\* One administrator on a new system; with a reviewer, and the sign-on filled in
\* but off; and with a broker, and the sign-on in use.
CheckedStarts ==
    {[accounts |-> [u \in Users |-> IF u = Me THEN Plain ELSE s[1]], sso |-> s[2]] :
        s \in {<<Nobody, Blank>>,
               <<Plain, [enabled |-> FALSE, ids |-> TRUE, secret |-> TRUE]>>,
               <<[Plain EXCEPT !.broker = TRUE, !.codes = TRUE],
                 [enabled |-> TRUE, ids |-> TRUE, secret |-> TRUE]>>}}
=============================================================================
