------------------------------ MODULE ToolScope ------------------------------
(* The tool registry (internal/tool/registry.go): skills with the tools they
   define, toolsets that name tools, and the scopes an agent resolves against
   them.  A flow mapping { k: v } is written as the block it stands for.      *)
EXTENDS Yaml

-----------------------------------------------------------------------------
(* A skill file.  The fields before tools: without indentation, and the lines
   under the last of them.  Fields after tools: are not read.                *)
SkillTop(lines) ==
    LET Field(s, l) ==
            [s EXCEPT !.in = IF l.dash THEN "" ELSE l.key,
                      !.set = IF ~l.dash /\ l.key \in {"name", "description", "system_prompt_append"}
                              THEN With(@, l.key, ValueOf(l)) ELSE @]
        Extract(s, l) ==
            IF l.dash \/ s.extract = <<>>
            THEN [s EXCEPT !.extract = Append(@, l.key :> ValueOf(l))]
            ELSE [s EXCEPT !.extract[Len(s.extract)] = With(@, l.key, ValueOf(l))]
        Read(s, l) ==
            IF l.ind = 0 THEN Field(s, l)
            ELSE CASE s.in = "parameters" /\ l.key # "" -> [s EXCEPT !.params = With(@, l.key, ValueOf(l))]
                   [] s.in = "extract" /\ l.key \in {"tool", "pattern", "store"} -> Extract(s, l)
                   [] s.in = "required_env" /\ l.dash -> [s EXCEPT !.env = @ \o l.val]
                   [] OTHER -> s
    IN  FoldLeft(Read, [set |-> <<>>, params |-> <<>>, extract |-> <<>>, env |-> <<>>, in |-> ""],
                 lines)

(* The http: block: method and url up to the first map, then the maps, each up
   to the heading of the next one; a map that is a scalar is an error.       *)
HTTPMaps == {"headers", "query", "body"}
HTTPConfig(lines) ==
    LET Read(c, l) ==
            IF \E m \in HTTPMaps : IsHeading(l, m) THEN [c EXCEPT !.in = l.key]
            ELSE IF l.key = "" THEN c
            ELSE IF c.in # "" THEN [c EXCEPT !.maps[c.in] = With(@, l.key, ValueOf(l))]
            ELSE IF l.key \in {"method", "url"} THEN [c EXCEPT !.set = With(@, l.key, ValueOf(l))]
            ELSE IF l.key \in HTTPMaps THEN [c EXCEPT !.ok = FALSE]
            ELSE c
    IN  FoldLeft(Read, [set |-> <<>>, maps |-> [m \in HTTPMaps |-> <<>>], in |-> "", ok |-> TRUE], lines)
MCPConfig(lines) ==
    LET all == BlockValues(lines) IN [server |-> At(all, "server", ""), tool |-> At(all, "tool", "")]

(* A tool: its fields up to the first of http: and mcp:, and the lines of each
   of the two up to the other or to the end.                                 *)
ToolFields == {"name", "description", "type", "output_file", "max_repeats"}
ToolBlock(lines) ==
    LET http  == FirstIndex(lines, LAMBDA l : IsHeading(l, "http"))
        mcp   == FirstIndex(lines, LAMBDA l : IsHeading(l, "mcp"))
        first == IF http = 0 \/ (mcp # 0 /\ mcp < http) THEN mcp ELSE http
        head  == Keep(IF first = 0 THEN lines ELSE SubSeq(lines, 1, first - 1), LAMBDA l : l.ind = 0)
        set   == BlockValues(Keep(head, LAMBDA l : l.key \in ToolFields))
        Sub(from, other) ==
            IF from = 0 THEN <<>>
            ELSE SubSeq(lines, from + 1, IF other > from THEN other - 1 ELSE Len(lines))
    IN  [name    |-> At(set, "name", ""),
         type    |-> IF At(set, "type", "") = "" THEN "http" ELSE set["type"],
         repeats |-> At(set, "max_repeats", "0"),
         wrong   |-> \E l \in Range(head) : l.key \in {"http", "mcp"},
         http    |-> HTTPConfig(Sub(http, mcp)),
         mcp     |-> MCPConfig(Sub(mcp, http))]
\* http: and mcp: are mappings; the least max_repeats is -1; an MCP tool needs
\* both halves of its address.
ToolFails(t) ==
    \/ t.wrong \/ ~t.http.ok
    \/ t.repeats \in Malformed \cup {"-2"}
    \/ t.type = "mcp" /\ "" \in {t.mcp.server, t.mcp.tool}

ParseSkill(lines) ==
    LET at    == FirstIndex(lines, LAMBDA l : IsHeading(l, "tools"))
        top   == SkillTop(IF at = 0 THEN lines ELSE SubSeq(lines, 1, at - 1))
        items == IF at = 0 THEN <<>> ELSE Mappings(SubSeq(lines, at + 1, Len(lines)))
        tools == [i \in DOMAIN items |-> ToolBlock(items[i])]
    IN  [ok      |-> \A i \in DOMAIN tools : ~ToolFails(tools[i]),
         name    |-> At(top.set, "name", ""),
         tools   |-> [i \in DOMAIN tools |-> tools[i] @@ [allowedEnv |-> top.env]],
         extract |-> top.extract, params |-> top.params]

(* A toolset file: an item that is a mapping is an error, and so is a toolset
   without tools.                                                            *)
ParseToolset(lines) ==
    LET Read(t, l) ==
            IF l.dash /\ t.in THEN IF l.key # "" THEN [t EXCEPT !.ok = FALSE]
                                   ELSE [t EXCEPT !.tools = @ \o l.val]
            ELSE CASE l.key = "name" -> [t EXCEPT !.name = ValueOf(l), !.in = FALSE]
                   [] l.key = "tools" /\ l.flow -> [t EXCEPT !.tools = @ \o l.val, !.in = FALSE]
                   [] l.key = "tools" /\ ~l.flow -> [t EXCEPT !.in = TRUE]
                   [] OTHER -> [t EXCEPT !.in = FALSE]
    IN  FoldLeft(Read, [ok |-> TRUE, name |-> "", tools |-> <<>>, in |-> FALSE], lines)

-----------------------------------------------------------------------------
(* The registry.  Names of tools are unique; a second skill with a name takes
   the place of the first, whose tools stay registered.                      *)
EmptyRegistry == [skills |-> <<>>, tools |-> <<>>, toolsets |-> <<>>, extractors |-> <<>>]
NamesOf(tools) == [i \in DOMAIN tools |-> tools[i].name]

Register(r, s) ==
    LET names == NamesOf(s.tools)
        fresh == /\ \A i \in DOMAIN names : names[i] \notin DOMAIN r.tools
                 /\ \A i, j \in DOMAIN names : i # j => names[i] # names[j]
        bad   == \E i \in DOMAIN s.extract : At(s.extract[i], "pattern", "") \in Malformed
    IN  [ok  |-> fresh /\ ~bad,
         reg |-> [r EXCEPT !.skills = With(@, s.name, s),
                           !.tools = FoldLeft(LAMBDA f, t : With(f, t.name, t), @, s.tools),
                           !.extractors = @ \o s.extract]]
RegisterToolset(r, t) ==
    [ok  |-> t.name \notin DOMAIN r.toolsets /\ \A i \in DOMAIN t.tools : t.tools[i] \in DOMAIN r.tools,
     reg |-> [r EXCEPT !.toolsets = With(@, t.name, t.tools)]]

(* Load: the skills in the order of the directory, then the toolsets.  The
   first error is the result.  A file is [kind, lines].                      *)
LoadRegistry(files) ==
    LET Then(acc, ok, step) ==
            IF acc.ok /\ ok THEN step ELSE [acc EXCEPT !.ok = FALSE]
        Skill(acc, s)   == Then(acc, s.ok /\ s.name # "", Register(acc.reg, s))
        Toolset(acc, t) == Then(acc, t.ok /\ t.name # "" /\ t.tools # <<>>, RegisterToolset(acc.reg, t))
        Of(kind) == SelectSeq(files, LAMBDA f : f.kind = kind)
        skills   == FoldLeft(LAMBDA acc, f : Skill(acc, ParseSkill(f.lines)),
                             [ok |-> TRUE, reg |-> EmptyRegistry], Of("skill"))
    IN  FoldLeft(LAMBDA acc, f : Toolset(acc, ParseToolset(f.lines)), skills, Of("toolset"))

-----------------------------------------------------------------------------
(* Scopes.                                                                   *)
Once(s) == FoldLeft(LAMBDA acc, x : IF Contains(acc, x) THEN acc ELSE Append(acc, x), <<>>, s)
Known(s, f) == SelectSeq(s, LAMBDA x : x \in DOMAIN f)
Concat(ss)  == FoldLeft(LAMBDA acc, s : acc \o s, <<>>, ss)

GetTools(r, skills) ==
    LET known == Known(skills, r.skills)
    IN  Once(Concat([i \in DOMAIN known |-> NamesOf(r.skills[known[i]].tools)]))
GetToolsetTools(r, toolsets) ==
    LET known == Known(toolsets, r.toolsets)
    IN  Once(Known(Concat([i \in DOMAIN known |-> r.toolsets[known[i]]]), r.tools))
ResolveTools(r, skills, toolsets, tools) ==
    Once(GetTools(r, skills) \o GetToolsetTools(r, toolsets) \o Known(tools, r.tools))

\* Every name is loaded, and a scope with toolsets or tools gives some tool.
CheckScope(r, skills, toolsets, tools) ==
    /\ Known(skills, r.skills) = skills
    /\ Known(toolsets, r.toolsets) = toolsets
    /\ Known(tools, r.tools) = tools
    /\ toolsets \o tools # <<>> => ResolveTools(r, skills, toolsets, tools) # <<>>

MCPTools(r) == {n \in DOMAIN r.tools : r.tools[n].type = "mcp"}
=============================================================================
