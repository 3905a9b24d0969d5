------------------------------- MODULE Startup -------------------------------
(* How a command starts from what the operator wrote: it loads the
   configuration, the agents and the tool registry, and then `leather
   validate` judges them while `leather serve` prepares the runs of the jobs
   up to their first LLM call.  Reads the same files for both.               *)
EXTENDS Config, AgentFiles, ToolScope

CONSTANT IsInput(_)   \* what can be written: a record [config, agents, lifecycles, tools, servers]

VARIABLES input,      \* what is written
          phase,      \* how far the command is
          config,     \* the result of config.Load
          loaded,     \* the result of agent.LoadDir: jobs by name
          registry,   \* the result of tool.Load
          verdict,    \* the exit code of validate, "none" before
          prepared    \* the jobs whose run was prepared: agent, budget and whether it starts
startupVars == <<input, phase, config, loaded, registry, verdict, prepared>>

StartupInit == /\ IsInput(input) /\ phase = "start"
        /\ config = <<>> /\ loaded = <<>> /\ registry = <<>>
        /\ verdict = "none" /\ prepared = <<>>

\* Exits with status 1 when a secret or a file cannot be read.
ReadConfig ==
    /\ phase = "start"
    /\ config' = LoadConfig(input.config)
    /\ phase' = IF config'.ok THEN "configured" ELSE "exited"
    /\ UNCHANGED <<input, loaded, registry, verdict, prepared>>

\* Errors of single files are logged; the jobs without one are kept.
ReadAgents ==
    /\ phase = "configured"
    /\ loaded' = LoadDir(input.agents, input.lifecycles)
    /\ phase' = "agents"
    /\ UNCHANGED <<input, config, registry, verdict, prepared>>

HasToolDir == config.values["tool_dir"] # ""
ReadTools ==
    /\ phase = "agents"
    /\ registry' = IF HasToolDir THEN LoadRegistry(input.tools)
                   ELSE [ok |-> TRUE, reg |-> EmptyRegistry]
    /\ phase' = "tools"
    /\ UNCHANGED <<input, config, loaded, verdict, prepared>>

-----------------------------------------------------------------------------
(* The scope a turn declares, and the one it runs in.                        *)
ScopeKeys == {"skills", "toolsets", "tools"}
MaxTurnDecls(a) == Len(a.scopes)
Declared(a, i)  == i <= Len(a.scopes) /\ \E k \in ScopeKeys : a.scopes[i][k] # <<>>
TurnScopeFor(a, i) == [k \in ScopeKeys |-> IF a.scopes[i][k] = <<>> THEN <<>> ELSE a.scopes[i][k][1]]
TurnRequireFor(a, i) ==
    IF i > Len(a.scopes) \/ a.scopes[i]["require_tool"] = <<>> THEN <<>>
    ELSE a.scopes[i]["require_tool"][1]
BaseScope(a) == [skills |-> a.lists["skills"], toolsets |-> a.lists["toolsets"], tools |-> <<>>]

Reg            == registry.reg
Resolves(s)    == CheckScope(Reg, s.skills, s.toolsets, s.tools)
ToolsIn(s)     == Range(ResolveTools(Reg, s.skills, s.toolsets, s.tools))

(* validate: every file loads, every job has a model and its scopes resolve,
   and each turn reaches every tool it requires.  Without a tool directory the
   scopes are not looked at.  The loops over the turns, and the scope of a
   turn that declares none, are validate's own, apart from those of the run. *)
ScopesOf(a) ==
    {BaseScope(a)} \cup {TurnScopeFor(a, i) : i \in {j \in 1..MaxTurnDecls(a) : Declared(a, j)}}
\* Mutant of ScopesResolve: what the turns declare is not looked at.
BaseResolves(a)  == Resolves(BaseScope(a))
ScopesResolve(a) == \A s \in ScopesOf(a) : Resolves(s)
ReachedIn(a, i)  ==
    ToolsIn(IF Declared(a, i) THEN TurnScopeFor(a, i)
            ELSE [skills |-> a.lists["skills"], toolsets |-> a.lists["toolsets"], tools |-> <<>>])
RequiredReached(a) ==
    \A i \in 1..MaxTurnDecls(a) : Range(TurnRequireFor(a, i)) \subseteq ReachedIn(a, i)
HasModel(a) == a.set["model"] # ""
ScopesAccepted(a) == ScopesResolve(a) /\ RequiredReached(a)
Validate ==
    /\ phase = "tools" /\ verdict = "none"
    /\ verdict' =
         IF /\ loaded.ok
            /\ \A n \in DOMAIN loaded.jobs : HasModel(ResolveAgent(config.values, loaded.jobs[n]))
            /\ HasToolDir =>
                 /\ registry.ok
                 /\ \A t \in MCPTools(Reg) :
                       input.servers # {} => Reg.tools[t].mcp.server \in input.servers
                 /\ \A n \in DOMAIN loaded.jobs :
                       ScopesAccepted(ResolveAgent(config.values, loaded.jobs[n]))
         THEN "ok" ELSE "error"
    /\ UNCHANGED <<input, phase, config, loaded, registry, prepared>>

(* serve: it exits when the registry fails to load; a run is refused when a
   scope does not resolve, and a turn with required tools when its scope has
   none of them.                                                             *)
UserPrompts(a) == IF a.prompts # <<>> THEN a.prompts ELSE IF a.prompt # "" THEN <<a.prompt>> ELSE <<"none">>
CheckScopes(a) ==
    /\ Resolves(BaseScope(a))
    /\ \A i \in 1..MaxTurnDecls(a) : Declared(a, i) => Resolves(TurnScopeFor(a, i))
RunScope(a, i) == IF Declared(a, i) THEN TurnScopeFor(a, i) ELSE BaseScope(a)
Satisfiable(a, i) == TurnRequireFor(a, i) # <<>> =>
                        Range(TurnRequireFor(a, i)) \cap ToolsIn(RunScope(a, i)) # {}
Starts(a) == CheckScopes(a) /\ \A i \in 1..Len(UserPrompts(a)) : Satisfiable(a, i)
Serve ==
    /\ phase = "tools"
    /\ phase' = IF registry.ok THEN "serving" ELSE "exited"
    /\ UNCHANGED <<input, config, loaded, registry, verdict, prepared>>
Prepare(n) ==
    /\ phase = "serving" /\ n \in DOMAIN loaded.jobs \ DOMAIN prepared
    /\ LET a == ResolveAgent(config.values, loaded.jobs[n])
       IN  prepared' = With(prepared, n, [agent |-> a, starts |-> Starts(a),
                                          budget |-> TokenBudget(config.values, a)])
    /\ UNCHANGED <<input, phase, config, loaded, registry, verdict>>

StartupNext == ReadConfig \/ ReadAgents \/ ReadTools \/ Validate \/ Serve
               \/ \E n \in DOMAIN At(loaded, "jobs", <<>>) : Prepare(n)
StartupSpec == StartupInit /\ [][StartupNext]_startupVars
=============================================================================
