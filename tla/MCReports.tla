----------------------------- MODULE MCReports -----------------------------
(* An instance of Reports for TLC: three heights, the lowest with one block   *)
(* of every shape that the attribution tells apart.                           *)
EXTENDS Reports

Coinbase(extra, raw, reward, time) ==
  [coinbase |-> "present", extra |-> extra, powAlgoRaw |-> raw, reward |-> reward,
   difficulty |-> 2 + raw, timestamp |-> time]

Without(what) == [Coinbase(<<>>, 1, 1, 0) EXCEPT !.coinbase = what]

Shapes ==
  { Coinbase(<<"supportxtm-", "sha3x", "-pplns", "NUL", "a", "bad">>, 1, 1, 0),
    Coinbase(<<"supportxtm-", "c29", "-solo", "NUL", "NUL", "rune">>, 3, 1, 0),
    Coinbase(<<"supportxtm-", "rxm", "a", "bad">>, 0, 1, 0),
    Coinbase(<<"Jagtech", "a", "a", "NUL", "bad", "a">>, 2, 1, 0),
    Coinbase(<<"WUF", "Jagtech", "a", "a", "a">>, 9, 1, 0),
    Coinbase(<<"WUF", "Jagtech", "a", "rune">>, 0, 1, 0),
    Coinbase(<<"GCPOOL-SOLO", "ctl", "a">>, 0, 1, 0),
    Coinbase(<<"H9.com.", "a">>, 1, 1, 0),
    Coinbase(<<"SupportXTM">>, 1, 1, 0),
    Coinbase(<<"a", "rune", "NUL", "bad">>, 1, 1, 0),
    Coinbase(<<"ctl">>, 1, 1, 0),
    Coinbase(<<>>, 1, 1, 0),
    Without("no_output") }

SomeCoinbases ==
  [h \in 0 .. 2 |->
     IF h = 0 THEN Shapes
     ELSE { Coinbase(<<"supportxtm-", "rxt", "NUL", "a">>, 2, h, 3 * h),
            Coinbase(<<"H9.com.">>, 9, 3, h),
            Coinbase(<<"Jagtech", "a", "a">>, 1, 1, 1) }]

Raw(bucketSize, from, to) == [bucketSize |-> bucketSize, from |-> from, to |-> to, pool |-> NULL]

SomeParams ==
  { Raw(Absent, Absent, Absent), Raw(1, 0, Absent), Raw(0, 1, 0), Raw(1, Absent, 1),
    [Raw(1, 1, 2) EXCEPT !.pool = <<"H9.com">>] }

PicturesAndPairs ==
  {<<v, v>> : v \in Views}
  \cup {<<"pool-share", "algo-distribution">>, <<"rewards-by-pool", "rewards-by-algo">>,
        <<"pool-share", "pool-algo-breakdown">>, <<"pool-share", "rewards-by-pool">>}
=============================================================================
