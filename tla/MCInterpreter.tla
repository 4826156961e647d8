--------------------------- MODULE MCInterpreter ---------------------------
EXTENDS Interpreter

Cmd(name, args) == [cmd |-> name, args |-> args]

MCCommands ==
  {Cmd("global", <<>>), Cmd("global", <<"from", "date", "to", "date">>),
   Cmd("global", <<"from", "date">>), Cmd("system", <<"name">>),
   Cmd("user", <<"name">>), Cmd("user", <<"name", "since", "date">>),
   Cmd("user", <<"name", "since">>), Cmd("share", <<"name">>),
   Cmd("file", <<"name", "from", "date", "to", "date">>),
   Cmd("domain", <<"name">>), Cmd("domain", <<"name", "since", "date">>),
   Cmd("domain", <<"since", "date">>), Cmd("global", <<"since">>),
   Cmd("total", <<"rw">>), Cmd("total", <<"name">>), Cmd("list", <<"users">>),
   Cmd("top", <<"10", "users", "r">>), Cmd("top", <<"10", "domains", "w", "asc">>),
   Cmd("last_activity", <<"10">>), Cmd("24h_usage", <<"w">>), Cmd("24h_usage", <<"name">>),
   Cmd("search", <<"name">>), Cmd("throughput", <<"10", "days", "rw">>),
   Cmd("throughput", <<"10", "days">>), Cmd("usage", <<"10", "10", "r">>),
   Cmd("usage", <<"10">>), Cmd("smbtad-report", <<"full">>),
   Cmd("smbtad-report", <<"short">>), Cmd("smbtad-report", <<"name">>),
   Cmd("self-check", <<"online">>), Cmd("self-check", <<"name">>),
   Cmd("unknown", <<"10">>)}

MCVersions == {<<1, 2, 4>>, <<1, 3, 0>>, <<2, 0, 0>>, <<1, 10, 3>>}
=============================================================================
