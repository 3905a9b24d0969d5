---------------------------- MODULE StartupIntent ----------------------------
(* What the operator means by what is written, and how it is written down.
   An intent is what the documents are to say; Write gives their lines, and
   the properties compare what the code reads with the intent.

   The intent of a lifecycle:
     agent   name, front matter: set (scalars) and skills
     form    "none", "flat" or "list"
     top     what stands at the top level: set, skills, prompts, blocks
     insts   the instances: name, off (disable: true) and the same four
     off     the names in the top-level disable list
     style   how lists are written, "flow" or "block"                        *)
EXTENDS Startup

Scalars(set) == LET keys == SetToSeq(DOMAIN set)
                IN  [i \in DOMAIN keys |-> Scalar(keys[i], set[keys[i]])]
\* The items of a list; one of them has a colon in its text.
WriteItem(v) == IF v = "to: all" THEN Line(0, TRUE, "to", <<"all">>, FALSE) ELSE Item(v)
WriteList(style, key, items) ==
    IF items = <<>> THEN <<>>
    ELSE IF style = "flow" THEN <<FlowList(key, items)>>
    ELSE <<Heading(key)>> \o Indent([i \in DOMAIN items |-> WriteItem(items[i])], 2)

\* A block is a function of scalars; the output block a sequence of routes.
WriteRoutes(routes) ==
    LET Route(r) == LET ls == <<Scalar("type", r["type"])>> \o Scalars(Pick(r, DOMAIN r \ {"type"}))
                    IN  [i \in DOMAIN ls |-> [ls[i] EXCEPT !.ind = IF i = 1 THEN 2 ELSE 4, !.dash = (i = 1)]]
    IN  FoldLeft(LAMBDA acc, r : acc \o Route(r), <<>>, routes)
WriteBlock(name, block) ==
    <<Heading(name)>> \o (IF name = "output" THEN WriteRoutes(block) ELSE Indent(Scalars(block), 2))
WriteBlocks(blocks) ==
    LET names == SetToSeq(DOMAIN blocks)
    IN  FoldLeft(LAMBDA acc, n : acc \o WriteBlock(n, blocks[n]), <<>>, names)
WritePart(style, part) ==
    Scalars(part.set) \o WriteList(style, "skills", part.skills)
    \o WriteList(style, "prompts", part.prompts) \o WriteBlocks(part.blocks)
WriteInstance(style, inst) ==
    LET rest == (IF inst.off THEN <<Scalar("disable", "true")>> ELSE <<>>) \o WritePart(style, inst)
    IN  <<[Scalar("name", inst.name) EXCEPT !.ind = 2, !.dash = TRUE]>> \o Indent(rest, 4)

WriteFront(w) == <<Scalar("name", w.agent.name)>> \o Scalars(w.agent.set)
                 \o WriteList(w.style, "skills", w.agent.skills)
WriteLifecycle(w) ==
    <<Scalar("agent", w.agent.name)>> \o WritePart(w.style, w.top)
    \o IF w.form = "flat" THEN <<>>
       ELSE WriteList(w.style, "disable", w.off) \o <<Heading("instances")>>
            \o FoldLeft(LAMBDA acc, inst : acc \o WriteInstance(w.style, inst), <<>>, w.insts)

-----------------------------------------------------------------------------
(* The jobs an intent means.  The parts that speak for a job, the nearest
   first: its instance, the top level, the front matter.                     *)
Nobody == [set |-> <<>>, skills |-> <<>>, prompts |-> <<>>, blocks |-> <<>>]
FrontPart(w) == [Nobody EXCEPT !.set = w.agent.set, !.skills = w.agent.skills]
MeantJobs(w) ==
    CASE w.form = "none" -> With(<<>>, w.agent.name, <<FrontPart(w)>>)
      [] w.form = "flat" -> With(<<>>, w.agent.name, <<w.top, FrontPart(w)>>)
      [] w.form = "list" ->
           LET on == {i \in DOMAIN w.insts : ~w.insts[i].off /\ ~Contains(w.off, w.insts[i].name)}
           IN  IF on = {} THEN With(<<>>, w.agent.name, <<FrontPart(w)>>) ELSE
               [n \in {w.insts[i].name : i \in on} |->
                  <<w.insts[CHOOSE i \in on : w.insts[i].name = n], w.top, FrontPart(w)>>]

\* The nearest part that has key k in its function Of, or the default.
Nearest(parts, Of(_), k, default) ==
    LET says == {i \in DOMAIN parts : k \in DOMAIN Of(parts[i])}
    IN  IF says = {} THEN default
        ELSE Of(parts[CHOOSE i \in says : \A j \in says : i <= j])[k]
MeantScalar(parts, k, default) == Nearest(parts, LAMBDA p : p.set, k, default)
MeantBlock(parts, b) == Nearest(parts, LAMBDA p : p.blocks, b, <<>>)
MeantSkills(parts) ==
    LET written == IF Len(parts) = 3 THEN parts[2].skills \o parts[1].skills ELSE parts[1].skills
    IN  IF written # <<>> THEN written ELSE parts[Len(parts)].skills
MeantPrompts(parts) ==
    LET says == {i \in DOMAIN parts : parts[i].prompts # <<>>}
    IN  IF says = {} THEN <<>> ELSE parts[CHOOSE i \in says : \A j \in says : i <= j].prompts

\* A key of a nested block with the name of a field.
Shadowed(parts, k) ==
    \E i \in DOMAIN parts : \E b \in DOMAIN parts[i].blocks :
        b # "output" /\ k \in DOMAIN parts[i].blocks[b]
RoutesOf(a) == [i \in DOMAIN a.output |-> a.output[i].set]

\* As resolveAgent and resolveTokenBudget fill in what nobody says.
Says(parts, got, k, default) == At(got, k, "") = MeantScalar(parts, k, default)
JobIs(parts, job, cfg) ==
    /\ \A k \in {"schedule", "queue_input", "queue_max_attempts"} : Says(parts, job.agent.set, k, "")
    /\ Says(parts, job.agent.set, "model", cfg["model"])
    /\ Says(parts, job.agent.set, "temperature", cfg["temperature"])
    /\ Says(parts, job.agent.set, "timeout", cfg["llm_timeout"])
    /\ job.budget.max_tokens = MeantScalar(parts, "max_tokens", cfg["max_tokens"])
    /\ job.budget.completion_reserve =
         MeantScalar(parts, "completion_reserve",
                     At(Reserves, MeantScalar(parts, "model", cfg["model"]), cfg["completion_reserve"]))
    /\ Shadowed(parts, "enabled") \/ Says(parts, job.agent.set, "enabled", "true")
    /\ job.agent.lists["skills"] = MeantSkills(parts)
    /\ job.agent.prompts = MeantPrompts(parts)
    /\ job.agent.prompt = MeantScalar(parts, "prompt", "")
    /\ job.agent.cache = MeantBlock(parts, "cache")
    /\ job.agent.hooks = MeantBlock(parts, "hooks")
    /\ job.agent.params = MeantBlock(parts, "parameters")
    /\ RoutesOf(job.agent) = MeantBlock(parts, "output")

-----------------------------------------------------------------------------
(* The layers of a setting, the highest first: flag, environment, file.      *)
Effective(k, v) == IF k \in ListSettings THEN v # <<>> ELSE v # "" /\ Parses(k, v)
LayerOf(w, k) ==
    CASE k \in DOMAIN w.config.flags -> "flag"
      [] OTHER ->
         IF Effective(k, w.config.env[k]) THEN "env"
         ELSE IF /\ k \in TextSettings \cup ParsedSettings \cup ListSettings
                 /\ k \in DOMAIN w.file /\ Effective(k, w.file[k]) THEN "yaml"
         ELSE "default"
MeantValue(w, k) ==
    LET layer == LayerOf(w, k)
    IN  CASE layer = "flag" -> w.config.flags[k] [] layer = "env" -> w.config.env[k]
          [] layer = "yaml" -> w.file[k] [] OTHER -> Default(k)

(* The key of the LLM: flag, variable, inline value; then the pass store, then
   the variable that the file names.                                         *)
MeantKey(w) ==
    LET in == w.config
    IN  IF in.keyFlag # <<>> THEN in.keyFlag[1]
        ELSE IF in.key # "" THEN in.key
        ELSE IF w.ref.value # "" THEN w.ref.value
        ELSE IF At(in.store, w.ref.pass, "") # "" THEN in.store[w.ref.pass]
        ELSE At(in.vars, w.ref.env, "")

KeyWanted(w) == IF w.config.keyFlag # <<>> THEN w.config.keyFlag # <<"">>
                ELSE w.config.key # "" \/ w.ref # NoRef

-----------------------------------------------------------------------------
(* ConfigLayered: every setting has the value of the highest layer that gives
   it one that parses, is attributed to that layer, and an unparseable value
   hides no lower layer; so for the key of the LLM, and Load fails only when one
   was asked for and no source has it.  Load reads the environment before and
   after the file, the path of the file is itself a setting, and four functions
   list the keys once each (config.go:29-149).                               *)
ConfigLayered ==
    config # <<>> =>
        /\ config.ok = (KeyWanted(input) => MeantKey(input) # "")
        /\ \A k \in Settings :
             /\ config.values[k] = MeantValue(input, k)
             /\ At(config.sources, k, "default") = LayerOf(input, k)
        /\ config.key = MeantKey(input)
        /\ [i \in DOMAIN config.notify |-> config.notify[i].set] = input.backends
        /\ config.limits = input.limits

(* JobsAsWritten: the jobs of a directory are those its lifecycles mean, one
   per instance that is not disabled, or the agent itself when none is left,
   and each runs with the nearest thing written for it: instance over top level
   over front matter over configuration, a temperature of 0 and enabled: false
   included, skills added up, and a block replaced as a whole
   (lifecycle.go:105-228, agent.go:133-211).  A nested key with the name of a
   field is left out (see EnabledAsWritten), and so is a 0 for a number that
   has no 0: an instance's 0 stands for "not set" but takes the place of the
   top level's value, so that the front matter's comes through.              *)
JobsAsWritten ==
    loaded # <<>> /\ input.intent.form # "other" =>
        /\ DOMAIN loaded.jobs = DOMAIN MeantJobs(input.intent)
        /\ \A n \in DOMAIN prepared :
             JobIs(MeantJobs(input.intent)[n], prepared[n], config.values)

(* EnabledAsWritten: whether a job is enabled is what its own enabled: says.
   Not so: a nested key is read as a field, and the enabled: of a cache block
   (or of a parameter) comes after it (yamlx.go:26-76, lifecycle.go:190).    *)
EnabledAsWritten ==
    input.intent.form # "other" => \A n \in DOMAIN prepared :
        At(prepared[n].agent.set, "enabled", "true")
            = MeantScalar(MeantJobs(input.intent)[n], "enabled", "true")

(* ValidateAgreesWithRun: what `leather validate` accepts, serve starts: the
   registry loads and no run is refused for its scopes or for a required tool
   out of reach (cmd_validate.go:323 "exactly as the runner does").  Without a
   tool directory validate does not look at scopes.                          *)
ValidateAgreesWithRun ==
    verdict = "ok" /\ HasToolDir =>
        /\ registry.ok
        /\ \A n \in DOMAIN prepared : prepared[n].starts
=============================================================================
