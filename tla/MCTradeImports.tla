--------------------------- MODULE MCTradeImports ---------------------------
EXTENDS TradeImports

Row(e, d) == [ext |-> e, day |-> d]
\* A file over two dates, and one without dates.
MCFiles == {[rows |-> {Row("a", 1), Row("b", 2)}, filtered |-> 1],
            [rows |-> {Row("b", NoDay)}, filtered |-> 0]}
MCFeeds == {[rows |-> {Row("a", NoDay)}, filtered |-> 0]}
=============================================================================
