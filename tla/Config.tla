------------------------------- MODULE Config -------------------------------
(* The configuration of a command (internal/config): built-in defaults, a YAML
   file, LEATHER_* variables and flags, in rising order.  A setting is a key
   of the tables below; its values are strings as written (DefaultToolsets: a
   list).  The environment is a function from every key to what its variable
   holds ("" when unset; for a list, the list); the flags a function whose
   domain is the keys whose flags were given, in a form flag.Parse accepts.  *)
EXTENDS Yaml

TextSettings ==
    {"agent_dir", "log_level", "log_format", "model", "llm_endpoint", "llm_fixture",
     "llm_record", "api_addr", "state_dir", "log_file", "pretty_mode",
     "persist_runs_detail", "run_history_dir", "tool_dir", "worker_dir", "cache_dir",
     "mcp_servers_file"}
ParsedSettings ==
    {"temperature", "summarize_threshold",
     "max_tokens", "completion_reserve", "reasoning_reserve", "max_concurrent_jobs",
     "max_jobs", "persist_runs_tool_cap", "run_max_bytes", "max_tool_rounds", "loop",
     "llm_timeout", "tool_timeout", "scheduler_tick", "run_duration",
     "api", "pretty", "stats", "tokens_per_turn", "show_vars", "show_context",
     "persist_runs"}
ListSettings   == {"default_toolsets"}
\* Settings that a plain line of the YAML file does not set.
TextOutsideYaml   == {"config_file", "replay", "replay_live", "tannery"}
ParsedOutsideYaml == {"replay_speed"}
Settings == TextSettings \cup ParsedSettings \cup ListSettings
            \cup TextOutsideYaml \cup ParsedOutsideYaml

NoDefault == {"model", "llm_fixture", "llm_record", "log_file", "run_history_dir", "tool_dir",
              "worker_dir", "cache_dir", "mcp_servers_file", "replay", "replay_live", "tannery"}
Default(k) == IF k \in ListSettings THEN <<>> ELSE IF k \in NoDefault THEN "" ELSE "builtin"

Parses(k, v) == k \in ParsedSettings \cup ParsedOutsideYaml => v \notin Malformed

\* envString, envInt, ...: the default when unset, empty or not parseable.
EnvOr(env, k, else) ==
    IF k \in ListSettings THEN IF env[k] = <<>> THEN else ELSE env[k]
    ELSE IF env[k] # "" /\ Parses(k, env[k]) THEN env[k] ELSE else

\* applyYAML: what a document sets.
YamlSets(lines) ==
    LET doc == ParseFlat(lines)
    IN  [k \in {k \in TextSettings \cup ParsedSettings :
                   At(doc.vals, k, "") # "" /\ Parses(k, doc.vals[k])} |-> doc.vals[k]]
        ++ [k \in {k \in ListSettings : At(doc.lists, k, <<>>) # <<>>} |-> doc.lists[k]]

-----------------------------------------------------------------------------
(* Blocks of the file that the flat reader does not read.                    *)
BackendFields == {"name", "type", "chat_id", "from", "to", "group_id", "api_url"}
NotifyBackend(lines) ==
    LET Read(b, l) ==
            IF IsHeading(l, "token") THEN [b EXCEPT !.inToken = TRUE]
            ELSE IF l.key = "" THEN b
            ELSE IF b.inToken /\ l.key \in {"pass", "env"}
            THEN [b EXCEPT !.token = With(@, l.key, ValueOf(l))]
            ELSE [b EXCEPT !.inToken = FALSE,
                           !.set = IF l.key \in BackendFields THEN With(@, l.key, ValueOf(l)) ELSE @]
    IN  FoldLeft(Read, [set |-> <<>>, token |-> <<>>, inToken |-> FALSE], lines)
NotifyBackends(lines) ==
    LET notify == BlockOf(lines, "notify")
        at     == FirstIndex(notify, LAMBDA l : IsHeading(l, "backends"))
        items  == Items(SubSeq(notify, at + 1, Len(notify)), LAMBDA l : l.dash)
    IN  IF at = 0 THEN <<>>
        ELSE SelectSeq([i \in DOMAIN items |-> NotifyBackend(items[i])],
                       LAMBDA b : At(b.set, "name", "") # "" /\ At(b.set, "type", "") # "")
ToolRateLimits(lines) ==
    LET tools == BlockOf(lines, "tools")
        at    == FirstIndex(tools, LAMBDA l : IsHeading(l, "rate_limits"))
        all   == BlockValues(SubSeq(tools, at + 1, Len(tools)))
    IN  IF at = 0 THEN <<>> ELSE [h \in {h \in DOMAIN all : all[h] # ""} |-> all[h]]

(* A secret reference: an inline value, a path of the pass store, the name of
   a variable.  The key block of the file: the first top-level line for it.  *)
Ref(value, pass, env) == [value |-> value, pass |-> pass, env |-> env]
NoRef == Ref("", "", "")
LLMAPIKeyBlock(lines) ==
    LET at   == FirstIndex(lines, LAMBDA l : l.ind = 0 /\ ~l.dash /\ l.key = "llm_api_key")
        rest == SubSeq(lines, at + 1, Len(lines))
        stop == FirstIndex(rest, LAMBDA l : l.ind = 0)
        sub  == BlockValues(IF stop = 0 THEN rest ELSE SubSeq(rest, 1, stop - 1))
    IN  IF at = 0 THEN NoRef
        ELSE IF ValueOf(lines[at]) # "" THEN Ref(ValueOf(lines[at]), "", "")
        ELSE Ref("", At(sub, "pass", ""), At(sub, "env", ""))

\* store: what `pass show` prints for a path; vars: the environment.
Resolve(ref, store, vars) ==
    IF ref.value # "" THEN [ok |-> TRUE, key |-> ref.value]
    ELSE IF ref = NoRef THEN [ok |-> TRUE, key |-> ""]
    ELSE IF At(store, ref.pass, "") # "" THEN [ok |-> TRUE, key |-> store[ref.pass]]
    ELSE IF At(vars, ref.env, "") # "" THEN [ok |-> TRUE, key |-> vars[ref.env]]
    ELSE [ok |-> FALSE, key |-> ""]

-----------------------------------------------------------------------------
(* Load.  inputs: [env, flags, files, key (LEATHER_LLM_API_KEY), keyFlag (<<>>
   or the flag's value), blankList (a LEATHER_DEFAULT_TOOLSETS without items),
   store, vars, unreadable].  A file that is missing sets nothing; one that is
   there and cannot be read is an error.                                     *)
ConfigPath(inputs) ==
    At(inputs.flags, "config_file", EnvOr(inputs.env, "config_file", Default("config_file")))
FileAt(inputs) == At(inputs.files, ConfigPath(inputs), <<>>)

EnvMarks(inputs) ==
    {k \in Settings \ ListSettings : inputs.env[k] # "" /\ Parses(k, inputs.env[k])}
    \cup {k \in ListSettings : inputs.env[k] # <<>> \/ inputs.blankList}
    \cup (IF inputs.key # "" THEN {"llm_api_key"} ELSE {})

KeyRef(inputs, lines) ==
    LET yaml == LLMAPIKeyBlock(lines)
    IN  IF inputs.keyFlag # <<>> THEN Ref(inputs.keyFlag[1], "", "")
        ELSE Ref(IF inputs.key # "" THEN inputs.key ELSE yaml.value, yaml.pass, yaml.env)

\* Mutant of AfterFile: the file has the last word over the environment.
FileLast(inputs, k, v) == v

\* applyEnvOverrides: the environment again, over the file.
AfterFile(inputs, k, v) == IF k = "config_file" THEN v ELSE EnvOr(inputs.env, k, v)

\* applyFlag, for each flag that was given.
ApplyFlags(inputs, values) == inputs.flags ++ values

\* The layer each key is attributed to; the later mark stays.
Sources(inputs, lines, yaml) ==
    LET yamlKey == inputs.key = "" /\ LLMAPIKeyBlock(lines) # NoRef
    IN  [k \in DOMAIN inputs.flags |-> "flag"]
        ++ [k \in IF inputs.keyFlag # <<>> THEN {"llm_api_key"} ELSE {} |-> "flag"]
        ++ [k \in IF yamlKey THEN {"llm_api_key"} ELSE {} |-> "yaml"]
        ++ [k \in EnvMarks(inputs) |-> "env"]
        ++ [k \in DOMAIN yaml |-> "yaml"]

LoadConfig(inputs) ==
    LET lines   == FileAt(inputs)
        yaml    == YamlSets(lines)
        base    == [k \in Settings |-> EnvOr(inputs.env, k, Default(k))]
        file    == yaml ++ With(base, "config_file", ConfigPath(inputs))
        env     == [k \in Settings |-> AfterFile(inputs, k, file[k])]
        secret  == Resolve(KeyRef(inputs, lines), inputs.store, inputs.vars)
    IN  [ok      |-> secret.ok /\ ConfigPath(inputs) \notin inputs.unreadable,
         values  |-> ApplyFlags(inputs, env),
         sources |-> Sources(inputs, lines, yaml),
         key     |-> secret.key,
         notify  |-> NotifyBackends(lines),
         limits  |-> ToolRateLimits(lines)]
=============================================================================
