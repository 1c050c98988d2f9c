----------------------------- MODULE MCScanner -----------------------------
EXTENDS Scanner

Candle(o, h, l, c) == [open |-> o, high |-> h, low |-> l, close |-> c]
\* Two that fall, one with a wick, and three that rise.
MCShapes == {Candle(2, 2, 1, 1), Candle(4, 5, 2, 2),
             Candle(3, 4, 3, 4), Candle(4, 5, 4, 5), Candle(5, 6, 5, 6)}

When(type, direction, side, zone, lookback) ==
  [type |-> type, direction |-> direction, side |-> side, zone |-> zone,
   lookback |-> lookback]
\* Two of the library (strategy/library.py), and one at the market both ways.
MCStrategies ==
  << [direction |-> "up", entry |-> "order_block_retest", minimumRR |-> 2,
      conditions |-> {When("bos", "up", None, None, 2),
                      When("order_block", "up", None, None, 2)}],
     [direction |-> "up", entry |-> "fvg_retest", minimumRR |-> 2,
      conditions |-> {When("premium_discount", None, None, "DISCOUNT", 1),
                      When("fvg", "up", None, None, 1)}],
     [direction |-> None, entry |-> "market", minimumRR |-> 1,
      conditions |-> {When("trend", None, None, None, 1),
                      When("liquidity_sweep", None, None, None, 3)}] >>
=============================================================================
