\* Two threads, two products, one unit a line, sales of up to two lines.
SPECIFICATION FairSpec
CONSTANTS
    t1 = t1  t2 = t2  p1 = p1  p2 = p2
    Threads = {t1, t2}
    Products = {p1, p2}
    NoProduct = NoProduct
    MaxQuantity = 1
    MaxLines = 2
    MaxStock = 1
INVARIANTS NeverOversold StockAccounted
PROPERTY StockRequestsAnswered
