----------------------------- MODULE AgentFiles -----------------------------
(* Agent definitions (internal/agent): the front matter and the turns of a
   *.agent.md, the records of a *.lifecycle.yaml, and the jobs that LoadDir
   makes of the two.  Scalars are kept as written, in a function whose domain
   is the keys that were set.  A list that may be undeclared is a sequence of
   at most one list: <<>> is Go's nil.                                       *)
EXTENDS Yaml, FiniteSets

CONSTANT Reserves   \* the reserve of the models that have one of their own (LookupReserve)

Positive(v) == v \notin {"", "0", "-1"} \cup Malformed
OrPositive(new, old) == IF Positive(new) THEN new ELSE old
OrNonzero(new, old) == IF new \in {"", "0"} THEN old ELSE new
OrText(new, old) == IF new = "" THEN old ELSE new
OrElse(new, old) == IF new = <<>> THEN old ELSE new

TextKeys    == {"schedule", "model", "queue_input"}
NumberKeys  == {"max_tokens", "completion_reserve", "timeout", "tool_timeout",
                "temperature", "tool_rounds"}
QueueKeys   == {"queue_batch_size", "queue_max_attempts"}
AddedKeys   == {"tags", "skills", "toolsets"}
ParsedKeys  == NumberKeys \cup {"enabled"}

Pick(f, keys) == [k \in keys \cap DOMAIN f |-> f[k]]
Refused(vals, keys) == \E k \in keys \cap DOMAIN vals : vals[k] \in Malformed \cup {""}

-----------------------------------------------------------------------------
(* The front matter.  Items after an empty tags:, skills: or toolsets: go to
   that list until a line with another key.                                  *)
ParseFrontMatter(lines) ==
    LET Read(fm, l) ==
            IF l.dash
            THEN IF fm.open \in AddedKeys
                 THEN [fm EXCEPT !.lists[fm.open] = @ \o ItemText(l)] ELSE fm
            ELSE IF l.key = "" THEN fm
            ELSE IF l.key \in AddedKeys
            THEN [fm EXCEPT !.lists[l.key] = @ \o l.val,
                            !.open = IF l.val = <<>> /\ ~l.flow THEN l.key ELSE ""]
            ELSE [fm EXCEPT !.vals = With(@, l.key, ValueOf(l)), !.open = ""]
    IN  FoldLeft(Read, [vals |-> "enabled" :> "true", open |-> "",
                        lists |-> [k \in AddedKeys |-> <<>>]], lines)
FrontMatterFails(fm) == Refused(fm.vals, ParsedKeys \cup {"thinking"})

(* The turns of the body.  A section is its lines, each with the key it starts
   with ("" for prompt text, "blank" for a blank line) and the items after it.
   The header ends at the first blank line or line of text; a line shaped like
   a declaration with another key is an error.                               *)
TurnKeys == {"skills", "toolsets", "tools", "require_tool", "clear"}
Nothing  == [k \in TurnKeys |-> <<>>]
ReadDecl(t, l) ==
    IF t.done THEN t
    ELSE IF l.key \in {"", "blank"} THEN [t EXCEPT !.done = TRUE]
    ELSE IF l.key \in TurnKeys THEN [t EXCEPT !.decl[l.key] = <<l.items>>]
    ELSE [t EXCEPT !.done = TRUE, !.bad = TRUE]
ParseTurn(section) == FoldLeft(ReadDecl, [decl |-> Nothing, done |-> FALSE, bad |-> FALSE], section)
Clears(t) == t.decl["clear"] # <<>> /\ t.decl["clear"][1] # <<>>
             /\ t.decl["clear"][1][1] \in {"true", "yes"}

\* A file is [front, closed, turns, path]: closed when a second --- ends the
\* front matter; the prompt of turn i is named by path and i.
LoadFile(file) ==
    LET fm    == ParseFrontMatter(file.front)
        turns == [i \in DOMAIN file.turns |-> ParseTurn(file.turns[i])]
    IN  [ok      |-> file.closed /\ ~FrontMatterFails(fm) /\ \A i \in DOMAIN turns : ~turns[i].bad,
         name    |-> At(fm.vals, "name", ""),
         set     |-> Pick(fm.vals, TextKeys \cup ParsedKeys \cup {"thinking"}),
         lists   |-> fm.lists,
         prompts |-> [i \in DOMAIN turns |-> <<file.path, i>>],
         scopes  |-> [i \in DOMAIN turns |-> turns[i].decl],
         clear   |-> [i \in DOMAIN turns |-> Clears(turns[i])],
         prompt  |-> "", params |-> <<>>, hooks |-> <<>>, cache |-> <<>>, output |-> <<>>]

-----------------------------------------------------------------------------
(* The nested blocks of a lifecycle document.                                *)
CacheKeys == {"enabled", "ttl"}
HookKeys  == {"pre_run", "post_success", "post_error"}
RouteKeys == {"type", "path", "queue", "url", "method", "backend"}

CacheBlock(lines) ==
    LET all == Pick(BlockValues(BlockOf(lines, "cache")), CacheKeys)
    IN  [ok |-> \A k \in DOMAIN all : all[k] \notin Malformed \cup {""}, set |-> all]
HooksBlock(lines)      == Pick(BlockValues(BlockOf(lines, "hooks")), HookKeys)
ParametersBlock(lines) == BlockValues(BlockOf(lines, "parameters"))

(* The routes of the output list: each "- " line, however deep, starts one;
   the keys after headers: are headers until a key of the route itself.  A
   route without a type is left out.                                         *)
OutputRoute(lines) ==
    LET Read(r, l) ==
            IF IsHeading(l, "headers") THEN [r EXCEPT !.inHeaders = TRUE]
            ELSE IF l.key = "" THEN r
            ELSE IF l.key \in RouteKeys
            THEN [r EXCEPT !.inHeaders = FALSE, !.set = With(@, l.key, ValueOf(l))]
            ELSE IF r.inHeaders THEN [r EXCEPT !.headers = With(@, l.key, ValueOf(l))]
            ELSE r
    IN  FoldLeft(Read, [set |-> <<>>, headers |-> <<>>, inHeaders |-> FALSE], lines)
OutputRoutes(lines) ==
    LET items  == Items(BlockOf(lines, "output"), LAMBDA l : l.dash)
        routes == [i \in DOMAIN items |-> OutputRoute(items[i])]
    IN  SelectSeq(routes, LAMBDA r : At(r.set, "type", "") # "")

-----------------------------------------------------------------------------
(* A record of a lifecycle file: what applyLifecycleFields sets is added to
   what the record has from the top level.                                   *)
EmptyRecord == [set |-> <<>>, lists |-> [k \in AddedKeys |-> <<>>], prompts |-> <<>>,
                cache |-> <<>>, output |-> <<>>, hooks |-> <<>>, params |-> <<>>]
FieldKeys(vals) == TextKeys \cup ParsedKeys \cup {"name", "prompt"}
                   \cup {k \in QueueKeys : Positive(At(vals, k, ""))}
ApplyFields(doc, rec) ==
    [rec EXCEPT
       !.set     = Pick(doc.vals, FieldKeys(doc.vals)) ++ @,
       !.lists   = [k \in AddedKeys |-> @[k] \o At(doc.lists, k, <<>>)],
       !.prompts = OrElse(At(doc.lists, "prompts", <<>>), @)]
FieldsFail(doc) == Refused(doc.vals, ParsedKeys)

HasNestedBlock(lines, name) == \E i \in DOMAIN lines : ~lines[i].dash /\ lines[i].key = name

\* The blocks of a document, as the blocks of its singleton or of its defaults.
ApplyBlocks(lines, rec) ==
    [rec EXCEPT !.cache = CacheBlock(lines).set, !.output = OutputRoutes(lines),
                !.hooks = HooksBlock(lines), !.params = ParametersBlock(lines)]

\* Mutant of OverrideBlocks: an instance without a block loses the inherited one.
OverrideAlways(lines, rec) == ApplyBlocks(lines, rec)

\* An instance replaces the blocks it has, except a cache block with an error.
OverrideBlocks(lines, rec) ==
    [rec EXCEPT
       !.cache  = IF HasNestedBlock(lines, "cache") /\ CacheBlock(lines).ok
                  THEN CacheBlock(lines).set ELSE @,
       !.hooks  = IF HasNestedBlock(lines, "hooks") THEN HooksBlock(lines) ELSE @,
       !.output = IF HasNestedBlock(lines, "output") THEN OutputRoutes(lines) ELSE @,
       !.params = IF HasNestedBlock(lines, "parameters") THEN ParametersBlock(lines) ELSE @]

IsListForm(lines)      == FirstIndex(lines, LAMBDA l : IsHeading(l, "instances")) # 0
ExtractTopLevel(lines) ==
    LET at == FirstIndex(lines, LAMBDA l : IsHeading(l, "instances"))
    IN  IF at = 0 THEN lines ELSE SubSeq(lines, 1, at - 1)
SplitInstances(lines)  ==
    LET at == FirstIndex(lines, LAMBDA l : IsHeading(l, "instances"))
    IN  Mappings(Keep(SubSeq(lines, at + 1, Len(lines)), LAMBDA l : ~IsHeading(l, "instances")))

Failed   == [ok |-> FALSE, recs |-> <<>>]
Disabled(doc) == At(doc.vals, "disable", "") = "true"

ParseFlatForm(agent, doc, lines) ==
    LET rec == ApplyBlocks(lines, ApplyFields(doc, [EmptyRecord EXCEPT !.set = With(@, "name", agent)]))
    IN  IF FieldsFail(doc) \/ ~CacheBlock(lines).ok \/ At(rec.set, "schedule", "") = ""
        THEN Failed ELSE [ok |-> TRUE, recs |-> <<rec>>]

\* An instance: its document, and its record over the defaults.
ParseInstance(base, doc, lines) ==
    [doc |-> doc, rec |-> OverrideBlocks(lines, ApplyFields(doc, base))]
NameOf(inst) == At(inst.rec.set, "name", "")

\* The instances that are not disabled; one that is may lack a schedule.
InstanceRecords(disabled, insts) ==
    LET kept == {i \in DOMAIN insts : ~Disabled(insts[i].doc) /\ ~Contains(disabled, NameOf(insts[i]))}
    IN  IF \/ \E i \in DOMAIN insts : FieldsFail(insts[i].doc) \/ NameOf(insts[i]) = ""
           \/ \E i \in kept : At(insts[i].rec.set, "schedule", "") = ""
        THEN Failed
        ELSE [ok |-> TRUE, recs |-> [n \in 1..Cardinality(kept) |->
                 insts[CHOOSE i \in kept : Cardinality({j \in kept : j <= i}) = n].rec]]

\* The top level is the default of every instance, but for its name.
Defaults(top, topLines) ==
    [ApplyBlocks(topLines, ApplyFields(top, EmptyRecord)) EXCEPT !.set = Pick(@, DOMAIN @ \ {"name"})]
ParseListForm(top, topLines, blocks) ==
    IF FieldsFail(top) \/ ~CacheBlock(topLines).ok \/ blocks = <<>> THEN Failed
    ELSE InstanceRecords(At(top.lists, "disable", <<>>),
           [i \in DOMAIN blocks |->
              ParseInstance(Defaults(top, topLines), ParseBlock(blocks[i]), blocks[i])])

(* A lifecycle file as a whole, its top level read before.                   *)
Records(top, topLines, lines) ==
    IF At(top.vals, "agent", "") = "" THEN Failed
    ELSE IF IsListForm(lines) THEN ParseListForm(top, topLines, SplitInstances(lines))
    ELSE IF Disabled(top) THEN [ok |-> TRUE, recs |-> <<>>]
    ELSE ParseFlatForm(At(top.vals, "agent", ""), top, lines)
ParseLifecycle(lines) ==
    LET top == ParseBlock(ExtractTopLevel(lines))
    IN  [agent |-> At(top.vals, "agent", ""), made |-> Records(top, ExtractTopLevel(lines), lines)]

-----------------------------------------------------------------------------
(* A job: the record over the agent it names (applyLifecycle).  A zero does
   not override, except enabled and temperature, which were set or not.  A
   prompt of the lifecycle drops the scopes of the body's turns.             *)
Overrides(set) ==
    (DOMAIN set \cap {"enabled", "temperature"})
    \cup {k \in DOMAIN set \cap TextKeys : set[k] # ""}
    \cup {k \in DOMAIN set \cap (NumberKeys \cup QueueKeys) : Positive(set[k])}
PromptOf(rec)     == At(rec.set, "prompt", "")
Replaces(rec)     == PromptOf(rec) # "" \/ rec.prompts # <<>>
GivesCache(cache) == At(cache, "enabled", "") = "true" \/ Positive(At(cache, "ttl", ""))
GivesHook(hooks)  == \E k \in DOMAIN hooks : hooks[k] # ""
ApplyLifecycle(a, rec) ==
    [a EXCEPT
       !.set     = Pick(rec.set, Overrides(rec.set)) ++ @,
       !.lists   = [k \in AddedKeys |-> OrElse(rec.lists[k], @[k])],
       !.prompt  = OrText(PromptOf(rec), @),
       !.prompts = OrElse(rec.prompts, @),
       !.scopes  = IF Replaces(rec) THEN <<>> ELSE @,
       !.cache   = IF GivesCache(rec.cache) THEN rec.cache ELSE @,
       !.output  = OrElse(rec.output, @),
       !.hooks   = IF GivesHook(rec.hooks) THEN rec.hooks ELSE @,
       !.params  = OrElse(rec.params, @)]

OutOfRange == {"-1", "3"}
Valid(a) == a.name # "" /\ At(a.set, "temperature", "0") \notin OutOfRange

(* LoadDir over the files of a directory in their order.  A file, a record or
   a job with an error is skipped, and the error is reported.  An agent that no
   record of a lifecycle claims is a job of its own.                         *)
AddDef(d, a) ==
    IF a.ok /\ a.name \notin DOMAIN d.defs \cup {""}
    THEN [d EXCEPT !.defs = With(@, a.name, a)]
    ELSE [d EXCEPT !.ok = FALSE]
AgentDefs(files) ==
    FoldLeft(LAMBDA d, file : AddDef(d, LoadFile(file)), [defs |-> <<>>, ok |-> TRUE], files)
Claim(defs, agent, j, rec) ==
    LET name == rec.set["name"]
    IN  IF agent \notin DOMAIN defs THEN [j EXCEPT !.ok = FALSE]
        ELSE IF name \in DOMAIN j.jobs THEN [j EXCEPT !.ok = FALSE, !.claimed = @ \cup {agent}]
        ELSE [j EXCEPT !.claimed = @ \cup {agent},
                       !.jobs = With(@, name, [ApplyLifecycle(defs[agent], rec) EXCEPT !.name = name])]
ClaimAll(defs, j, file) ==
    IF ~file.made.ok THEN [j EXCEPT !.ok = FALSE]
    ELSE FoldLeft(LAMBDA k, rec : Claim(defs, file.agent, k, rec), j, file.made.recs)
LifecycleJobs(defs, docs) ==
    FoldLeft(LAMBDA j, lines : ClaimAll(defs, j, ParseLifecycle(lines)),
             [jobs |-> <<>>, claimed |-> {}, ok |-> TRUE], docs)
Jobs(found, made) ==
    LET free  == (DOMAIN found.defs) \ made.claimed
        all   == made.jobs ++ [n \in free |-> found.defs[n]]
        valid == {n \in DOMAIN all : Valid(all[n])}
    IN  [jobs |-> Pick(all, valid),
         ok   |-> found.ok /\ made.ok /\ free \cap DOMAIN made.jobs = {} /\ valid = DOMAIN all]
LoadDir(files, docs) ==
    LET found == AgentDefs(files) IN Jobs(found, LifecycleJobs(found.defs, docs))

-----------------------------------------------------------------------------
(* What a run takes from the configuration: resolveAgent, resolveTokenBudget. *)
Unique(s) == FoldLeft(LAMBDA acc, x : IF Contains(acc, x) \/ x = "" THEN acc ELSE Append(acc, x),
                      <<>>, s)
Defaulted(cfg, set) ==
    With(With(With(set, "model", OrText(At(set, "model", ""), cfg["model"])),
              "temperature", At(set, "temperature", cfg["temperature"])),
         "timeout", OrNonzero(At(set, "timeout", ""), cfg["llm_timeout"]))
ResolveAgent(cfg, a) ==
    [a EXCEPT
       !.set = Defaulted(cfg, @),
       !.lists["toolsets"] = IF cfg["default_toolsets"] = <<>> THEN @
                             ELSE Unique(cfg["default_toolsets"] \o @)]

TokenBudget(cfg, a) ==
    [max_tokens |-> OrPositive(At(a.set, "max_tokens", ""), cfg["max_tokens"]),
     completion_reserve |-> OrPositive(At(a.set, "completion_reserve", ""),
                                       At(Reserves, a.set["model"], cfg["completion_reserve"])),
     reasoning_reserve |-> cfg["reasoning_reserve"]]
=============================================================================
