----------------------------- MODULE MCRubricDesk -----------------------------
EXTENDS RubricDesk

\* Without ties, in and out of the order of the keys; and all tied.
CheckedOrders == {<<0, 1, 2>>, <<2, 0, 1>>, <<0, 0, 0>>}
=============================================================================
