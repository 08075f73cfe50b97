------------------------------- MODULE Config --------------------------------
(***************************************************************************)
(* src/config/config.cpp: how a configuration file becomes a Config.  A    *)
(* line is a sequence of words, white space, "=" and "#"; what a word      *)
(* means is all that matters of its spelling.  A parser answers the set of *)
(* what its argument stands for, which is empty where the code throws.     *)
(***************************************************************************)
EXTENDS Words, SequencesExt

Whitespace == {" ", "\t", "\r"}

LogLevels == <<"debug", "info", "warning", "error">>

\* The initializers of Config's members.
DefaultConfig ==
  [log_level |-> "info", host |-> <<"127.0.0.1">>, port |-> 11211,
   worker_threads |-> 4, cache_capacity_bytes |-> 64 * 1024 * 1024,
   shard_count |-> 64, allocator |-> "slab"]

trim(s) ==
  LET ink == {i \in DOMAIN s : s[i] \notin Whitespace}
  IN  IF ink = {} THEN <<>> ELSE SubSeq(s, Min(ink), Max(ink))

parse_log_level(value) == {l \in ToSet(LogLevels) : value = <<l>>}

parse_allocator_backend(value) == {b \in {"system", "slab"} : value = <<b>>}

\* What from_stream makes of the value of a known key.
Setting(key, value) ==
  CASE key = "log_level" -> parse_log_level(value)
    [] key = "host" -> {value}
    [] key = "port" -> {n \in parse_unsigned(value) : ~(n > 65535)}
    [] key \in {"worker_threads", "shard_count"} ->
         {n \in parse_unsigned(value) : ~(n = 0 \/ n > 1024)}
    [] key = "cache_capacity_bytes" -> {n \in parse_unsigned(value) : n # 0}
    [] key = "allocator" -> parse_allocator_backend(value)

\* The state of from_stream: line_number, the has_ flags as the set of keys
\* met, and the ErrorCode it has thrown.
Start == [config |-> DefaultConfig, line_number |-> 0, has |-> {}, error |-> "none"]

\* Mutant of Rejected: a later line replaces an earlier one.
RejectedAlone(has, key, value) ==
  ~\E k \in DOMAIN DefaultConfig : key = <<k>> /\ Setting(k, value) # {}

\* from_stream throws for a line with this key and value: one of them is empty,
\* the key is unknown or has been met, the value is not one for this key.
Rejected(has, key, value) ==
  ~\E k \in DOMAIN DefaultConfig : /\ key = <<k>> /\ value # <<>>
                                   /\ k \notin has
                                   /\ Setting(k, value) # {}

\* One iteration of the loop.  The first "=" divides the line.
ParseLine(state, line) ==
  LET content == trim(line)
      delimiter == SelectInSeq(content, LAMBDA w : w = "=")
      key == trim(SubSeq(content, 1, delimiter - 1))
      value == trim(SubSeq(content, delimiter + 1, Len(content)))
      next == [state EXCEPT !.line_number = @ + 1]
  IN  IF content = <<>> \/ Head(content) = "#" THEN next
      ELSE IF delimiter = 0 \/ Rejected(state.has, key, value)
      THEN [next EXCEPT !.error = "config_parse"]
      ELSE [next EXCEPT !.has = @ \union {key[1]},
                        !.config[key[1]] = CHOOSE v \in Setting(key[1], value) : TRUE]

\* What follows the loop; bad is whether it ended because reading failed.
EndOfInput(state, bad) ==
  IF bad THEN [state EXCEPT !.error = "config_io"] ELSE state
------------------------------------------------------------------------------
\* What somebody who writes a configuration file means by it: a line is an
\* item that sets a key to a value, or says nothing, or is neither; pad is the
\* white space around every part.
Text(item) ==
  LET pad == item.pad
  IN  CASE item.kind = "setting" ->
             pad \o item.key \o pad \o <<"=">> \o pad \o item.value \o pad
        [] item.kind = "comment" -> pad \o <<"#">> \o item.value
        [] item.kind = "other" -> pad \o item.value \o pad

\* The values a key may be given.
Allowed(key, v) ==
  CASE key = "log_level" -> v \in {<<l>> : l \in {"debug", "info", "warning", "error"}}
    [] key = "host" -> v # <<>>
    [] key = "port" -> \E w \in DOMAIN Numerals : v = <<w>> /\ Numerals[w] \in 0 .. 65535
    [] key \in {"worker_threads", "shard_count"} ->
         \E w \in DOMAIN Numerals : v = <<w>> /\ Numerals[w] \in 1 .. 1024
    [] key = "cache_capacity_bytes" ->
         \E w \in DOMAIN Numerals : v = <<w>> /\ Numerals[w] >= 1
    [] key = "allocator" -> v \in {<<"system">>, <<"slab">>}

Sets(items, i, k) == items[i].kind = "setting" /\ items[i].key = <<k>>

\* Line i is one a file must not have.
Wrong(items, i) ==
  \/ items[i].kind = "other" /\ items[i].value # <<>>
  \/ /\ items[i].kind = "setting"
     /\ ~\E k \in DOMAIN DefaultConfig :
           /\ Sets(items, i, k)
           /\ Allowed(k, items[i].value)
           /\ \A j \in 1 .. i - 1 : ~Sets(items, j, k)

\* The value a key has in a file without a wrong line.
Declared(items, k) ==
  LET lines == {i \in DOMAIN items : Sets(items, i, k)}
      value == items[CHOOSE i \in lines : TRUE].value
  IN  IF lines = {} THEN DefaultConfig[k]
      ELSE IF k = "host" THEN value
      ELSE IF k \in {"log_level", "allocator"} THEN value[1]
      ELSE Numerals[value[1]]

\* What loading the items, of which reading fails after the last if bad, must
\* have come to.
Means(items, bad, state) ==
  LET wrong == {i \in DOMAIN items : Wrong(items, i)}
  IN  IF wrong # {} THEN state.error = "config_parse" /\ state.line_number = Min(wrong)
      ELSE IF bad THEN state.error = "config_io"
      ELSE /\ state.error = "none"
           /\ \A k \in DOMAIN DefaultConfig : state.config[k] = Declared(items, k)
==============================================================================
