----------------------------- MODULE MCRowMetrics -----------------------------
\* Single metrics of many forms, and pairs that share a query.
EXTENDS RowMetrics, TLC
CONSTANTS x, y

MetricOf(keys, values, valueLabel, static, timestamp) ==
  [keys |-> keys, values |-> values, valueLabel |-> valueLabel, static |-> static, timestamp |-> timestamp]

Forms ==
  {MetricOf(keys, values, valueLabel, static, timestamp) :
     keys \in {<<>>, <<"k">>, <<"k", "k">>, <<"v">>, <<"job">>},
     values \in {<<>>, <<"v">>, <<"v", "w">>, <<"v", "v">>},
     valueLabel \in {"", "l", "k", "job"}, static \in BOOLEAN, timestamp \in {"", "t", "v"}}

Shared ==
  {MetricOf(<<"k">>, <<"v">>, "", FALSE, "t"), MetricOf(<<"v">>, <<"w">>, "", FALSE, ""),
   MetricOf(<<"k">>, <<"v", "w">>, "l", FALSE, ""), MetricOf(<<>>, <<>>, "", TRUE, "")}

MCQueries == {<<m>> : m \in Forms} \cup (Shared \X Shared)

MCResults == {<<"k", "v">>, <<"v", "k", "w">>, <<"t", "v", "k">>, <<"k", "v", "v">>, <<"w", "u", "v">>}
\* Values are only compared.
Symmetry == Permutations(Value)
===============================================================================
