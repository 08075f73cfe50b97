---------------------------- MODULE MCDeployment -----------------------------
EXTENDS Deployment

Numbers ==
  ("0" :> 0) @@ ("1" :> 1) @@ ("1024" :> 1024) @@ ("1025" :> 1025)
    @@ ("65535" :> 65535) @@ ("65536" :> 65536)

set(key, value, pad) == [kind |-> "setting", key |-> key, value |-> value, pad |-> pad]

comment == [kind |-> "comment", value |-> <<"port", "=", "0">>, pad |-> <<"\t">>]

blank == [kind |-> "other", value |-> <<>>, pad |-> <<" ", "\r">>]

\* Lines that are wrong by themselves: no "=", no key, no value, unknown keys,
\* values just outside their ranges, a comment that is part of the value.
WrongLines ==
  {[kind |-> "other", value |-> <<"port", " ", "1">>, pad |-> <<>>],
   set(<<>>, <<"1">>, <<" ">>), set(<<"port">>, <<>>, <<" ">>),
   set(<<"ports">>, <<"1">>, <<>>), set(<<"port", " ", "host">>, <<"1">>, <<>>),
   set(<<"port">>, <<"65536">>, <<>>), set(<<"port">>, <<"-1">>, <<>>),
   set(<<"port">>, <<"1", " ", "#", "x">>, <<" ">>),
   set(<<"worker_threads">>, <<"0">>, <<>>),
   set(<<"worker_threads">>, <<"1025">>, <<>>),
   set(<<"shard_count">>, <<"0">>, <<" ">>),
   set(<<"shard_count">>, <<"1025">>, <<>>),
   set(<<"cache_capacity_bytes">>, <<"0">>, <<>>),
   set(<<"log_level">>, <<"INFO">>, <<>>), set(<<"allocator">>, <<"arena">>, <<>>)}

RightLines ==
  {comment, blank,
   set(<<"port">>, <<"0">>, <<" ">>), set(<<"port">>, <<"65535">>, <<>>),
   set(<<"worker_threads">>, <<"1">>, <<"\t">>),
   set(<<"worker_threads">>, <<"1024">>, <<>>),
   set(<<"shard_count">>, <<"1024">>, <<>>),
   set(<<"cache_capacity_bytes">>, <<"1">>, <<" ", "\t">>),
   set(<<"log_level">>, <<"warning">>, <<" ">>),
   set(<<"allocator">>, <<"system">>, <<>>),
   set(<<"host">>, <<"0.0.0.0">>, <<" ">>),
   set(<<"host">>, <<"local", "=", "host">>, <<" ">>)}

\* All files of two lines, and some with a right line in front of them.
Pairs == {<<x, y>> : x, y \in RightLines \union WrongLines}

AllFiles ==
  [items : Pairs \union {<<set(<<"port">>, <<"1">>, <<>>), comment>> \o p :
                           p \in {<<x, y>> : x \in RightLines, y \in RightLines}},
   bad : BOOLEAN]

Addresses == {<<"127.0.0.1">>, <<"0.0.0.0">>}

call(argc, port, command, key, value, ttl) ==
  [argc |-> argc, port |-> port, command |-> command, key |-> key,
   value |-> value, ttl |-> ttl]

\* Every command and outcome, command lines that are refused, and requests
\* that encode_request refuses.
Calls ==
  {call(6, "65535", "set", "k", "v", ""), call(7, "1", "set", "k", "v", "1024"),
   call(7, "1", "set", "k", "v", "65536"), call(6, "1", "set", "k", "huge", ""),
   call(7, "1", "set", "k", "v", "soon"), call(6, "65536", "set", "k", "v", ""),
   call(5, "1", "get", "k", "", ""), call(5, "1", "delete", "k", "", ""),
   call(5, "1", "get", "", "", ""), call(5, "0", "get", "k", "", ""),
   call(6, "1", "get", "k", "v", ""), call(2, "", "", "", "", "")}
==============================================================================
