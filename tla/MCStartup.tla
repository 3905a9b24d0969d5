------------------------------ MODULE MCStartup ------------------------------
(* Inputs for TLC: four families, each around a plain input.                 *)
EXTENDS StartupIntent

MCMalformed == {"x"}
MCReserves  == "qwq" :> "8192"

\* An unset variable for every setting.
Unset == [k \in Settings |-> IF k \in ListSettings THEN <<>> ELSE ""]
PlainConfig == [env |-> Unset, flags |-> <<>>, files |-> <<>>, key |-> "", keyFlag |-> <<>>,
                blankList |-> FALSE, store |-> <<>>, vars |-> <<>>, unreadable |-> {}]
PlainIntent == [agent |-> [name |-> "a", set |-> "model" :> "m0", skills |-> <<>>], form |-> "none",
                top |-> Nobody, insts |-> <<>>, off |-> <<>>, style |-> "flow"]
AgentFile(w, turns) == [front |-> WriteFront(w), closed |-> TRUE, turns |-> turns, path |-> "a.agent.md"]
Plain == [config |-> PlainConfig, file |-> <<>>, ref |-> NoRef, backends |-> <<>>, limits |-> <<>>,
          intent |-> PlainIntent, agents |-> <<AgentFile(PlainIntent, <<>>)>>,
          lifecycles |-> <<>>, tools |-> <<>>, servers |-> {}]

-----------------------------------------------------------------------------
(* Settings: one key, with what each layer says of it, and the path of the
   configuration file.                                                       *)
Values(k, v) == IF k \in ListSettings THEN {<<>>, <<v>>} ELSE {"", v, "x"}
KeyLines(ref) == IF ref = NoRef THEN <<>>
                 ELSE IF ref.value # "" THEN <<Scalar("llm_api_key", ref.value)>>
                 ELSE <<Heading("llm_api_key")>> \o Indent(Scalars(Pick(ref, {"pass", "env"})), 2)
FileLines(k, v) ==
    IF v = "none" THEN <<>>
    ELSE IF k \in ListSettings THEN <<FlowList(k, IF v = "" THEN <<>> ELSE <<v>>)>>
    ELSE <<Scalar(k, v)>>
FlagSet(k, f) == IF f = "none" THEN <<>> ELSE k :> (IF k \in ListSettings THEN <<f>> ELSE f)
SettingInput(k, e, f, y, path) ==
    [Plain EXCEPT
           !.config.env = [Unset EXCEPT ![k] = e],
           !.config.flags = FlagSet(k, f) @@ path,
           !.config.files = ("builtin" :> <<Scalar("log_level", "home")>>) @@ ("given" :> FileLines(k, y)),
           !.file = IF k = "config_file" \/ path = <<>>
                    THEN IF k # "config_file" \/ (f = "none" /\ e = "")
                         THEN "log_level" :> "home" ELSE <<>>
                    ELSE IF y = "none" THEN <<>>
                    ELSE k :> (IF k \in ListSettings THEN IF y = "" THEN <<>> ELSE <<y>> ELSE y)]
IsSettingInput(i) ==
    \E k \in Settings, f \in {"none", "f"}, y \in {"none", "", "y", "x"} :
        \E e \in Values(k, "e"), path \in {<<>>, "config_file" :> "given"} :
            /\ k = "config_file" => path = <<>>
            /\ i = SettingInput(k, e, f, y, path)
Refs == {NoRef, Ref("inline", "", ""), Ref("", "p", ""), Ref("", "", "V"), Ref("", "p", "V")}
Backends == <<"name" :> "chat" @@ "type" :> "telegram" @@ "chat_id" :> "7">>
BlockLines == <<Heading("notify")>> \o
              Indent(<<Heading("backends")>> \o
                     Indent(<<[Scalar("name", "chat") EXCEPT !.dash = TRUE]>> \o
                            Indent(<<Scalar("type", "telegram"), Heading("token")>> \o
                                   Indent(<<Scalar("pass", "q"), Scalar("env", "Q")>>, 2) \o
                                   <<Scalar("chat_id", "7")>>, 2), 2), 2) \o
              <<Heading("tools")>> \o
              Indent(<<Heading("rate_limits")>> \o Indent(<<Scalar("host", "5/h")>>, 2), 2)
KeyInput(ref, key, flag, store, vs) ==
    [Plain EXCEPT !.ref = ref, !.backends = Backends, !.limits = "host" :> "5/h",
                    !.config.files = "builtin" :> (BlockLines \o KeyLines(ref)),
                    !.config.key = key, !.config.keyFlag = flag,
                    !.config.store = store, !.config.vars = vs]
IsKeyInput(i) ==
    \E ref \in Refs, key \in {"", "env"}, flag \in {<<>>, <<"">>, <<"flag">>},
       store \in {<<>>, "p" :> "stored"}, vs \in {<<>>, "V" :> "var"} :
        i = KeyInput(ref, key, flag, store, vs)

-----------------------------------------------------------------------------
(* Jobs: one field and one block, written or not at each of the three levels,
   in the three forms, with an instance that may be disabled.                *)
Job(k, v) == CASE v = "" -> Nobody
               [] k = "skills" -> [Nobody EXCEPT !.skills = <<v>>]
               [] k = "prompts" -> [Nobody EXCEPT !.prompts = <<v, "to: all">>]
               [] OTHER -> [Nobody EXCEPT !.set = k :> v]
FieldValues(k) ==
    CASE k = "enabled" -> <<"false", "true", "false">>
      [] k = "temperature" -> <<"1", "0", "2">>
      [] k = "model" -> <<"m1", "qwq", "m3">>
      [] OTHER -> <<"5", "6", "7">>
OfAgent(k) == k \in {"model", "enabled", "temperature", "max_tokens", "completion_reserve", "timeout",
                     "queue_input", "skills"}
Fields == {"model", "enabled", "temperature", "max_tokens", "completion_reserve", "timeout",
           "queue_input", "queue_max_attempts", "skills", "prompt", "prompts"}
BlockValuesOf(b) ==
    CASE b = "cache"  -> <<"enabled" :> "true" @@ "ttl" :> "5m", "enabled" :> "true" @@ "ttl" :> "9m">>
      [] b = "hooks"  -> <<"pre_run" :> "h1", "post_error" :> "h2">>
      [] b = "output" -> <<<<"type" :> "queue" @@ "queue" :> "q1", "type" :> "file" @@ "path" :> "f">>,
                           <<"type" :> "http" @@ "url" :> "u">>>>
      [] b = "parameters" -> <<"topic" :> "t1", "topic" :> "t2" @@ "tone" :> "">>
Blocks == {"cache", "hooks", "output", "parameters"}
AddPart(p, b, on, i) == IF on THEN [p EXCEPT !.blocks = b :> BlockValuesOf(b)[i]] ELSE p
AddSet(p, f) == [p EXCEPT !.set = f @@ @]
Every == "schedule" :> "s"

IntentOf(k, says, b, has, form, style, off) ==
    LET v(i) == IF says[i] THEN FieldValues(k)[i] ELSE ""
        front == Job(k, IF OfAgent(k) THEN v(1) ELSE "")
        inst  == AddPart(Job(k, v(3)), b, has[2], 2)
    IN  [PlainIntent EXCEPT
           !.agent.set = front.set @@ ("model" :> "m0"), !.agent.skills = front.skills,
           !.form = form, !.style = style,
           !.top = AddSet(AddPart(Job(k, v(2)), b, has[1], 1), Every),
           !.insts = IF form # "list" THEN <<>>
                     ELSE <<inst @@ [name |-> "i1", off |-> FALSE],
                            Nobody @@ [name |-> "i2", off |-> off \in {"own", "all"}]>>,
           !.off = IF off = "top" THEN <<"i2">> ELSE IF off = "all" THEN <<"i1">> ELSE <<>>]
WithIntent(w) == [Plain EXCEPT !.intent = w, !.agents = <<AgentFile(w, <<>>)>>,
                               !.lifecycles = IF w.form = "none" THEN <<>> ELSE <<WriteLifecycle(w)>>]
IsJobInput(i) ==
    \E k \in Fields, says \in [1..3 -> BOOLEAN], b \in Blocks, has \in [1..2 -> BOOLEAN],
       form \in {<<"flat", "block", "no">>, <<"list", "flow", "own">>, <<"list", "block", "top">>,
                 <<"list", "block", "no">>, <<"list", "flow", "all">>} :
        i = WithIntent(IntentOf(k, says, b, has, form[1], form[2], form[3]))

-----------------------------------------------------------------------------
(* Scopes: what an agent and its one turn name, against a tool directory.    *)
Decl(k, items) == IF items = <<"-">> THEN <<>> ELSE <<[key |-> k, items |-> items]>>
Turn(tools, require) == Decl("tools", tools) \o Decl("require_tool", require)
                        \o <<[key |-> "", items |-> <<>>]>>
ToolLines(name) == <<[Scalar("name", name) EXCEPT !.ind = 2, !.dash = TRUE]>>
MCPLines(name) == ToolLines(name) \o Indent(<<Scalar("type", "mcp"), Heading("mcp")>>
                                            \o Indent(<<Scalar("server", "srv"), Scalar("tool", "t")>>, 2), 4)
SkillFile(name, tools) == [kind |-> "skill", lines |-> <<Scalar("name", name), Heading("tools")>> \o tools]
ToolsetFile(name, tools) == [kind |-> "toolset", lines |-> <<Scalar("name", name), Heading("tools")>>
                                                          \o Indent([i \in DOMAIN tools |-> Item(tools[i])], 2)]
BadHTTP == SkillFile("s3", ToolLines("t4") \o Indent(<<Heading("http")>> \o
                         Indent(<<Scalar("url", "u"), Scalar("headers", "h")>>, 2), 4))
Good == <<SkillFile("s1", ToolLines("t1") \o MCPLines("t2")), SkillFile("s2", ToolLines("t3")),
          ToolsetFile("set", <<"t1">>)>>
ToolDirs == {Good, Good \o <<SkillFile("s3", ToolLines("t1"))>>,
             Good \o <<ToolsetFile("bad", <<"t9">>)>>, Good \o <<BadHTTP>>}
ScopeAgent(skills, toolsets, turns, path) ==
    [closed |-> TRUE, front |-> <<Scalar("name", "a"), Scalar("model", "m0"), FlowList("skills", skills),
                 FlowList("toolsets", toolsets)>>, turns |-> turns, path |-> path]
ScopeInput(defaults, dir, servers, skills, toolsets, turns, prompt) ==
    [Plain EXCEPT
         !.config.flags = "tool_dir" :> "tools" @@ defaults,
         !.intent.form = "other",
         !.tools = dir, !.servers = servers,
         !.agents = <<ScopeAgent(skills, toolsets, turns, "a")>>,
         !.lifecycles = IF prompt THEN <<<<Scalar("agent", "a"), Scalar("schedule", "s"),
                                           Scalar("prompt", "p")>>>> ELSE <<>>]
Sections == {<<>>, <<<<[key |-> "toolset", items |-> <<>>]>>>>} \cup
            { <<Turn(t, r)>> : t \in {<<"-">>, <<>>, <<"t3">>, <<"t9">>},
                              r \in {<<"-">>, <<"t1">>, <<"t1", "t3">>} }
IsScopeInput(i) ==
    \E defaults \in {<<>>, "default_toolsets" :> <<"set">>},
       dir \in ToolDirs, servers \in {{}, {"srv"}, {"other"}},
       skills \in {<<>>, <<"s1">>, <<"s2">>, <<"s9">>}, toolsets \in {<<>>, <<"set">>, <<"s1">>},
       turns \in Sections, prompt \in BOOLEAN :
        i = ScopeInput(defaults, dir, servers, skills, toolsets, turns, prompt)

\* A file whose front matter is not closed, in a scope input.
IsOpenInput(i) ==
    i = [ScopeInput(<<>>, Good, {}, <<"s1">>, <<>>, <<>>, FALSE) EXCEPT !.agents[1].closed = FALSE]

AnyInput(i) == IsOpenInput(i) \/ IsSettingInput(i) \/ IsKeyInput(i) \/ IsJobInput(i) \/ IsScopeInput(i)
=============================================================================
