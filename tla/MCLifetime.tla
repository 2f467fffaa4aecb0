----------------------------- MODULE MCLifetime -----------------------------
EXTENDS Lifetime

\* The bodies of main_executor_pub, _sub, _service, _client and main_parameter.
Mains == {
  <<"node", "publisher", "loop">>,
  <<"node", "subscription", "executor", "addMyNode", "loop">>,
  <<"node", "service", "executor", "addMyNode", "loop">>,
  <<"node", "client", "executor", "addMyNode", "request", "loop">>,
  <<"node", "parameter_service", "executor", "addMyNode", "loop">>}

\* Applications that combine them, with entities created after addMyNode too.
Combined == {
  <<"node", "publisher", "subscription", "client", "parameter_service", "executor", "addMyNode", "loop">>,
  <<"node", "service", "client", "executor", "addMyNode", "client", "publisher", "loop">>}

MCPrograms == Mains \cup Combined
=============================================================================
