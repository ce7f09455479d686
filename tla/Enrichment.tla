----------------------------- MODULE Enrichment -----------------------------
(***************************************************************************)
(* The enrichment of transactions (statements/llm_enrichment.py,           *)
(* llm_tracking.py, rules_engine.py and enrich_transactions_job in         *)
(* processing.py) by several jobs over one answer cache, beside the        *)
(* requests of LedgerMemory and the narration rules API (rules_router.py). *)
(*                                                                         *)
(* A step of a job is one database access on the cache, one call of a      *)
(* model, or one group of reads.  Batches run one after the other: they    *)
(* share nothing and their answers are joined in order.  What an answer    *)
(* says of a transaction is reduced to the suggested ledger.               *)
(***************************************************************************)
EXTENDS LedgerMemory, SequencesExt

CONSTANTS
    Job,
    Hash,           \* content hash of each transaction
    Vague,          \* transactions of which no answer finds every column
    Hint,           \* the ledger local keywords suggest for a transaction
    Chart,          \* the ledgers of each client
    Answer,         \* ledgers a model may name, NULL included
    Configured,     \* the models that are configured, by tier
    BatchSize,      \* LLM_BATCH_SIZE
    Limit,          \* transactions of one job
    MaxRetries,     \* attempts of one call
    RuleChoice,     \* rules the users may write
    Matches,        \* the transactions the pattern of each rule matches
    MaxRuleChanges, \* bound: changes through the rules API
    MaxSessions,    \* bound: jobs, requests, deletions, changed rules in all
    MaxOpen         \* bound: jobs and requests open at once

Source == <<"claude", "claude-fallback", "gpt4o-fallback">>
Tier == DOMAIN Source
HashKey == {Hash[t] : t \in Tx}

AnswerSource == ToSet(Source) \cup {"heuristic"}
Rows == [id : Job, from : AnswerSource, ledger : Ledger \cup {None}, hits : Nat]

ASSUME NamesAssumption == None \notin Job /\ None \notin Rows
ASSUME LinesAssumption ==
    /\ Lines \in [Statement -> Seq(Tx)]
    /\ \A s \in Statement : \A i, k \in DOMAIN Lines[s] : Lines[s][i] = Lines[s][k] => i = k
ASSUME LedgerAssumption ==
    /\ Chart \in [Client -> SUBSET Ledger] /\ Hint \in [Tx -> Ledger \cup {None}]
    /\ \A r \in RuleChoice : r.ledger \in Ledger \cup {None} /\ r.priority \in Nat
ASSUME TierAssumption == Configured \subseteq Tier
ASSUME AnswerAssumption == Answer \subseteq Ledger \cup {None}
ASSUME BoundsAssumption ==
    /\ BatchSize \in Nat \ {0} /\ MaxRetries \in Nat \ {0} /\ Limit \in Nat
    /\ MaxRuleChanges \in Nat /\ MaxSessions \in Nat /\ MaxOpen \in Nat

VARIABLES
    rules,      \* the narration rules, in the order of their creation
    changes,    \* changes made through the rules API
    cache, cacheOwn, cacheMem, cacheDirty,   \* table llm_cache
    usage,      \* table llm_usage
    recorded,   \* history: every record ever committed to it
    pc, job     \* where each job is, and what it holds

cacheVars == <<cache, cacheOwn, cacheMem, cacheDirty>>
vars == <<memoryVars, rules, changes, cacheVars, usage, recorded, pc, job>>

Cache == INSTANCE UniqueTable WITH
    Session <- Job, Key <- HashKey, stored <- cache,
    own <- cacheOwn, mem <- cacheMem, dirty <- cacheDirty

Busy == {"begin", "lookup", "ask", "store", "apply"}
JobState == {"new", "loaded", "done", "failed"} \cup Busy
Status == {"HIT", "MISS", "FALLBACK"}
Result(from, l, status, by) == [from |-> from, ledger |-> l, status |-> status, by |-> by]

(* What a job holds: statement, transactions selected and loaded, answers  *)
(* so far, usage records not yet committed, misses, the position in the    *)
(* current loop, the tier and attempt of the call; past is history.        *)
Idle == [statement |-> None, force |-> FALSE, list |-> << >>, seen |-> << >>,
         allowed |-> {}, result |-> << >>, used |-> {}, misses |-> << >>,
         at |-> 1, tier |-> 1, attempt |-> 1, past |-> {}]

Init ==
    /\ MemoryInit
    /\ rules \in {<< >>} \cup {<<r>> : r \in RuleChoice} /\ changes = 0
    /\ Cache!Init
    /\ usage = {} /\ recorded = {}
    /\ pc = [j \in Job |-> "new"]
    /\ job = [j \in Job |-> Idle]

Begun == {j \in Job : pc[j] # "new"}
Opened == {u \in Request : request[u] # "new"}
SessionsLeft ==
    Cardinality(Begun) + Cardinality(Opened) + Cardinality(deleted) + changes < MaxSessions

-----------------------------------------------------------------------------
(* The rules API: one commit each; (match_type, pattern) is unique.        *)
RuleChange(new) ==
    /\ SessionsLeft /\ changes < MaxRuleChanges /\ changes' = changes + 1
    /\ \A i, k \in DOMAIN new : new[i].name = new[k].name => i = k
    /\ rules' = new
    /\ UNCHANGED <<memoryVars, cacheVars, usage, recorded, pc, job>>
CreateRule == \E r \in RuleChoice : RuleChange(Append(rules, r))
UpdateRule == \E i \in DOMAIN rules, r \in RuleChoice : RuleChange([rules EXCEPT ![i] = r])
DeleteRule == \E i \in DOMAIN rules : RuleChange(RemoveAt(rules, i))

(* The active rules that match t; the first by priority, then creation.    *)
Matching(t) == {i \in DOMAIN rules : rules[i].active /\ t \in Matches[rules[i].name]}
FirstRule(t) ==
    rules[CHOOSE i \in Matching(t) : \A k \in Matching(t) :
            \/ rules[i].priority < rules[k].priority
            \/ rules[i].priority = rules[k].priority /\ i <= k]

-----------------------------------------------------------------------------
Put(f, x, y) == [z \in DOMAIN f \cup {x} |-> IF z = x THEN y ELSE f[z]]
OthersIdle == UNCHANGED <<memoryVars, rules, changes>>
Hold(j, new) == job' = [job EXCEPT ![j] = new]
CanBegin ==
    /\ SessionsLeft
    /\ Cardinality({j \in Begun : pc[j] \notin {"done", "failed"}})
       + Cardinality({u \in Opened : request[u] \notin {"done", "error"}}) < MaxOpen
Go(j, state) == pc' = [pc EXCEPT ![j] = state]
HitsOf(h, records) == {u \in records : u.hash = h /\ u.status = "HIT"}
RecordOfSource(j, t, status) ==
    [job |-> j, tx |-> t, hash |-> Hash[t], status |-> "claude"]
RecordAsMiss(j, t, status) == [job |-> j, tx |-> t, hash |-> Hash[t], status |-> "MISS"]
Record(j, t, status) == [job |-> j, tx |-> t, hash |-> Hash[t], status |-> status]

(* The selection: the rows that lack a column, or all of them when forced  *)
(* or when the user asked for all.                                         *)
Missing(t) == ~row[t].rich \/ t \in Vague
Load(j) ==
    /\ pc[j] = "new" /\ CanBegin
    /\ \E s \in Statement \ deleted, f, all \in BOOLEAN :
         LET wanted == {i \in DOMAIN Lines[s] : f \/ all \/ Missing(Lines[s][i])}
             first  == {i \in wanted : Cardinality({k \in wanted : k < i}) < Limit}
         IN  \E p \in [1..Cardinality(first) -> first] :
               /\ \A i, k \in DOMAIN p : i < k => p[i] < p[k]
               /\ LET list == [i \in DOMAIN p |-> Lines[s][p[i]]]
                  IN  Hold(j, [Idle EXCEPT !.statement = s, !.force = f, !.list = list,
                                           !.seen = [t \in ToSet(list) |-> row[t]]])
               /\ Go(j, IF f THEN "loaded" ELSE "begin")
    /\ OthersIdle /\ UNCHANGED <<cacheVars, usage, recorded>>

(* A forced job deletes the cached answers of its transactions.  It takes  *)
(* their locks one by one: a deadlock that ends it halfway is a JobDies.   *)
StaleKeysOfFirst(j) == {Hash[t] : t \in ToSet(SubSeq(job[j].list, 1, 1))}
StaleKeys(j) == {Hash[t] : t \in ToSet(job[j].list)}
DeleteStale(j) ==
    /\ pc[j] = "loaded" /\ Cache!DeleteBlockers(j, StaleKeys(j)) = {}
    /\ Cache!Delete(j, StaleKeys(j))
    /\ Hold(j, [job[j] EXCEPT !.past = {k \in Job : pc[k] = "done"}])
    /\ Go(j, "begin")
    /\ OthersIdle /\ UNCHANGED <<usage, recorded>>

(* The write of the statement's metadata takes the lock of its row until   *)
(* the job ends.  Then the client's ledgers are read, the rules and the    *)
(* recurring mappings applied; a recurring hit replaces a rule hit.        *)
StatementHolders(j) ==
    {k \in Job \ {j} : job[k].statement = job[j].statement /\ pc[k] \in Busy \ {"begin"}}
Begin(j) ==
    /\ pc[j] = "begin" /\ StatementHolders(j) = {} /\ job[j].statement \notin deleted
    /\ LET c    == {ClientOf[t] : t \in ToSet(Lines[job[j].statement])}
           seen == [t \in Tx |-> IF t \in DOMAIN job[j].seen THEN job[j].seen[t] ELSE row[t]]
           ruled     == {t \in ToSet(job[j].list) : Matching(t) # {}}
           recurring == {t \in ToSet(job[j].list) : Recurring(t, seen)}
       IN  Hold(j, [job[j] EXCEPT
             !.allowed = (UNION {Chart[x] : x \in c})
                   \cup {mapping[k].ledger : k \in {x \in c \X Pattern : mapping[x] # None}},
             !.result = [t \in ruled \cup recurring |->
                   IF t \in recurring
                   THEN Result("recurring", RecurringLedger(t, seen), "MISS", None)
                   ELSE Result("rule", FirstRule(t).ledger, "MISS", None)]])
    /\ Go(j, "lookup")
    /\ OthersIdle /\ UNCHANGED <<cacheVars, usage, recorded>>

(* The cache is asked for every transaction not answered yet.              *)
FromCache(hit) == Result(hit.from, hit.ledger, "HIT", hit.id)
MarkHit(j, t, hit) == Cache!Put(j, Hash[t], hit, [hits |-> hit.hits + 1])
Lookup(j) ==
    LET t == job[j].list[job[j].at]
        hit == Cache!Get(j, Hash[t])
        next == [job[j] EXCEPT !.at = @ + 1]
    IN  /\ pc[j] = "lookup" /\ job[j].at <= Len(job[j].list)
        /\ \/ /\ t \in DOMAIN job[j].result
              /\ Hold(j, next)
              /\ UNCHANGED cacheVars
           \/ /\ t \notin DOMAIN job[j].result /\ cacheDirty[j] = None /\ hit = None
              /\ Hold(j, [next EXCEPT !.misses = Append(@, t)])
              /\ Cache!Read(j, Hash[t])
           \/ /\ t \notin DOMAIN job[j].result /\ cacheDirty[j] = None /\ hit # None
              /\ Hold(j, [next EXCEPT
                   !.result = Put(@, t, FromCache(hit)),
                   !.used = @ \cup {Record(j, t, "HIT")}])
              /\ MarkHit(j, t, hit)
        /\ OthersIdle /\ UNCHANGED <<usage, recorded, pc>>

(* Every SELECT first flushes what the session changed.                    *)
FlushCache(j) ==
    /\ Cache!Flush(j)
    /\ OthersIdle /\ UNCHANGED <<usage, recorded, pc, job>>

-----------------------------------------------------------------------------
(* The chain of models, one batch at a time.                               *)
Batch(j) ==
    LET m == job[j].misses
    IN  ToSet(SubSeq(m, job[j].at, IF job[j].at + BatchSize > Len(m) THEN Len(m)
                                   ELSE job[j].at + BatchSize - 1))
Asking(j) == pc[j] = "ask" /\ job[j].at <= Len(job[j].misses)
OnlyJob(j, new) ==
    /\ Hold(j, new)
    /\ OthersIdle /\ UNCHANGED <<cacheVars, usage, recorded, pc>>
NextTier(j) == OnlyJob(j, [job[j] EXCEPT !.tier = @ + 1, !.attempt = 1])
(* The batch is answered: the model's answers, keywords for the rest.      *)
Accept(j, answers) ==
    OnlyJob(j, [job[j] EXCEPT
        !.result = [t \in DOMAIN @ \cup Batch(j) |->
             IF t \notin Batch(j) THEN @[t]
             ELSE IF t \in DOMAIN answers
             THEN Result(Source[job[j].tier], answers[t], "MISS", None)
             ELSE Result("heuristic", Hint[t], "FALLBACK", None)],
        !.at = @ + BatchSize, !.tier = 1, !.attempt = 1])

AllowedIfOneIs(j, answers) ==
    job[j].allowed = {} \/ \E t \in DOMAIN answers : answers[t] \in job[j].allowed \cup {None}
Allowed(j, answers) ==
    job[j].allowed = {} \/ \A t \in DOMAIN answers : answers[t] \in job[j].allowed \cup {None}

(* A failed call is repeated, then the next model is tried.                *)
CallFails(j) ==
    IF job[j].attempt < MaxRetries
    THEN OnlyJob(j, [job[j] EXCEPT !.attempt = @ + 1])
    ELSE NextTier(j)
(* Answers for some of the batch; one ledger outside the list refuses all. *)
Reply(j) ==
    \E S \in SUBSET Batch(j) : \E answers \in [S -> Answer] :
        IF S # {} /\ Allowed(j, answers) THEN Accept(j, answers) ELSE NextTier(j)
Claude(j) ==
    Asking(j) /\ job[j].tier \in Configured \cap {1, 2} /\ (CallFails(j) \/ Reply(j))
Gpt4o(j) ==
    Asking(j) /\ job[j].tier \in Configured \cap {3} /\ (CallFails(j) \/ Reply(j))
ModelMissingIfGpt4o(j) ==
    Asking(j) /\ job[j].tier = 3 /\ job[j].tier \notin Configured /\ NextTier(j)
ModelMissing(j) == Asking(j) /\ job[j].tier \in Tier \ Configured /\ NextTier(j)
Heuristics(j) == Asking(j) /\ job[j].tier \notin Tier /\ Accept(j, << >>)

(* Every fresh answer is cached, a heuristic one too, and recorded.        *)
StoreAnswer(j, t, r) ==
    LET old == Cache!Get(j, Hash[t])
        new == [id |-> j, from |-> r.from, ledger |-> r.ledger, hits |-> 0]
    IN  \/ old # None /\ Cache!Put(j, Hash[t], old, [from |-> r.from, ledger |-> r.ledger])
        \/ old = None /\ Cache!Put(j, Hash[t], new, new)
Store(j) ==
    LET t == job[j].misses[job[j].at]
        r == job[j].result[t]
    IN  /\ pc[j] = "store" /\ job[j].at <= Len(job[j].misses) /\ cacheDirty[j] = None
        /\ StoreAnswer(j, t, r)
        /\ Hold(j, [job[j] EXCEPT !.used = @ \cup {Record(j, t, r.status)}, !.at = @ + 1])
        /\ OthersIdle /\ UNCHANGED <<usage, recorded, pc>>

(* The end of each loop.                                                   *)
NextPhase(j) ==
    LET over(list) == job[j].at > Len(list)
        to(state) == Go(j, state) /\ Hold(j, [job[j] EXCEPT !.at = 1])
    IN  /\ \/ pc[j] = "lookup" /\ over(job[j].list) /\ to("ask")
           \/ pc[j] = "ask" /\ over(job[j].misses) /\ to("store")
           \/ pc[j] = "store" /\ over(job[j].misses) /\ to("apply")
        /\ OthersIdle /\ UNCHANGED <<cacheVars, usage, recorded>>

(* apply_enrichment and the commit: an UPDATE of the columns that changed. *)
Applied(j, t) ==
    LET l == job[j].result[t].ledger
    IN  [row[t] EXCEPT !.rich = TRUE,
           !.suggested = IF l = job[j].seen[t].suggested THEN @ ELSE l]
Complete(j) ==
    /\ pc[j] = "apply"
    /\ Cache!Commit(j)
    /\ usage' = usage \cup job[j].used
    /\ recorded' = recorded \cup job[j].used
    /\ row' = [t \in Tx |-> IF t \in DOMAIN job[j].seen THEN Applied(j, t) ELSE row[t]]
    /\ Go(j, "done")
    /\ UNCHANGED <<mappingVars, deleted, request, item, items, asked, confirms,
                   rules, changes, job>>

-----------------------------------------------------------------------------
FailKeepsFlushed(j) ==
    /\ cache' = [h \in HashKey |-> Cache!View(j, h)]
    /\ Cache!Forget(j)
    /\ Go(j, "failed") /\ Hold(j, Idle)
    /\ OthersIdle /\ UNCHANGED <<usage, recorded>>
(* A failed flush, a worker's death, a failed commit: nothing is kept.     *)
Fail(j) ==
    /\ Cache!Rollback(j)
    /\ Go(j, "failed") /\ Hold(j, Idle)
    /\ OthersIdle /\ UNCHANGED <<usage, recorded>>
WaitsFor(j) ==
    Cache!Blockers(j)
    \cup (IF pc[j] = "loaded" THEN Cache!DeleteBlockers(j, StaleKeys(j)) ELSE {})
    \cup (IF pc[j] = "begin" THEN StatementHolders(j) ELSE {})
Waits == [j \in Job |-> WaitsFor(j)]
Deadlocked(j) == Circular(j, Waits)
FlushFails(j) == Cache!Conflicts(j) /\ Fail(j)
BreakDeadlock(j) == Deadlocked(j) /\ Fail(j)
(* The statement was deleted: the write of its metadata finds no row.      *)
BeginFails(j) == pc[j] = "begin" /\ job[j].statement \in deleted /\ Fail(j)
JobDies(j) == pc[j] \in Busy \cup {"loaded"} /\ Fail(j)

JobStep(j) ==
    \/ DeleteStale(j) \/ Begin(j) \/ BeginFails(j) \/ Lookup(j) \/ FlushCache(j) \/ NextPhase(j)
    \/ Claude(j) \/ Gpt4o(j) \/ ModelMissing(j) \/ Heuristics(j)
    \/ Store(j) \/ Complete(j) \/ FlushFails(j) \/ BreakDeadlock(j)

(* delete_statement: the usage records of the statement go with its rows;  *)
(* the cached answers and their hits stay.  It waits for a job that holds  *)
(* the lock of the statement, whose own records go as well; a deadlock of  *)
(* the two ends the job (JobDies) or the deletion, which then has no step. *)
HeldBy(s) == {j \in Job : job[j].statement = s /\ pc[j] \in Busy \ {"begin"}}
DeleteStatement(s) ==
    /\ SessionsLeft /\ HeldBy(s) = {}
    /\ DeleteRows(s)
    /\ usage' = {u \in usage : job[u.job].statement # s}
    /\ UNCHANGED <<recorded, rules, changes, cacheVars, pc, job>>

JobsIdle == UNCHANGED <<rules, changes, cacheVars, usage, recorded, pc, job>>
RuleStep == CreateRule \/ UpdateRule \/ DeleteRule

Next ==
    \/ \E j \in Job : Load(j) \/ JobStep(j) \/ JobDies(j)
    \/ \E u \in Request : /\ RequestStep(u) /\ JobsIdle
                          /\ request[u] = "new" => CanBegin
    \/ \E s \in Statement : DeleteStatement(s)
    \/ RuleStep

Spec == Init /\ [][Next]_vars

-----------------------------------------------------------------------------
Records == [job : Job, tx : Tx, hash : HashKey, status : Status]
TypeOK ==
    /\ row \in [Tx -> Columns]
    /\ cache \in [HashKey -> Rows \cup {None}]
    /\ usage \subseteq Records /\ deleted \subseteq Statement
    /\ pc \in [Job -> JobState]
    /\ request \in [Request -> {"new", "open", "flush", "done", "error"}]
    /\ changes \in 0..MaxRuleChanges

(* What a job leaves behind is all or nothing: cached answers and usage    *)
(* records come from completed jobs, and a completed job accounts once for *)
(* every transaction that no rule and no recurring mapping answered, until *)
(* its statement is deleted: then it accounts for none.                    *)
JobsAreAtomic ==
    /\ \A h \in HashKey : cache[h] # None => pc[cache[h].id] = "done"
    /\ \A u \in usage : pc[u.job] = "done" /\ job[u.job].statement \notin deleted
    /\ \A j \in Job : pc[j] = "done" /\ job[j].statement \notin deleted =>
         \A t \in ToSet(job[j].list) :
           Cardinality({u \in usage : u.job = j /\ u.tx = t})
             = IF job[j].result[t].from \in {"rule", "recurring"} THEN 0 ELSE 1

(* The hits counted on a cached answer never exceed the HIT records that   *)
(* were committed for its hash (two jobs may lose a count, none invents    *)
(* one).  They may exceed those left in the table: a deleted statement     *)
(* takes its records with it and the hits stay.                            *)
HitsWereRecorded ==
    \A h \in HashKey : cache[h] # None => cache[h].hits <= Cardinality(HitsOf(h, recorded))

(* A ledger named by a model, fresh or cached, was on the list of allowed  *)
(* ledgers of a job that has completed, perhaps another client's: no job   *)
(* caches a name no list allowed.  Only a job whose client has no ledger   *)
(* at all takes any name.                                                  *)
ModelLedgersWereAllowed ==
    \A j \in Job : pc[j] = "done" => \A t \in DOMAIN job[j].result :
        LET r == job[j].result[t]
        IN  r.from \in ToSet(Source) /\ r.ledger # None =>
              \E k \in Job : /\ pc[k] = "done"
                             /\ job[k].allowed = {} \/ r.ledger \in job[k].allowed

(* A forced job never uses an answer that was in the cache when it began.  *)
ForcedIsFresh ==
    \A j \in Job : job[j].force =>
        \A t \in DOMAIN job[j].result : job[j].result[t].by \notin job[j].past

(* A recurring answer names a ledger the client's users chose for a        *)
(* pattern they confirmed at least twice, whatever requests raced.         *)
RecurringWasConfirmed ==
    \A j \in Job : \A t \in DOMAIN job[j].result :
        job[j].result[t].from = "recurring" =>
            \E p \in Pattern :
                LET c == confirms[<<ClientOf[t], p>>]
                IN  c.times >= 2 /\ job[j].result[t].ledger \in c.ledgers

(* No wait is for ever: among any jobs that wait for no one else, and so   *)
(* behind every wait, is one that can go on, whatever locks they hold and  *)
(* however many models are down or not configured; so it is with requests. *)
OpenJobs == {j \in Job : pc[j] \in Busy \cup {"loaded"}}
OpenRequests == {u \in Request : request[u] \in {"open", "flush"}}
CanGoOn(j) ==
    \/ cacheDirty[j] # None /\ Cache!Blockers(j) = {}
    \/ pc[j] = "loaded" /\ Cache!DeleteBlockers(j, StaleKeys(j)) = {}
    \/ pc[j] = "begin" /\ StatementHolders(j) = {}
    \/ pc[j] \in {"lookup", "store", "apply"} /\ cacheDirty[j] = None
    \/ pc[j] = "ask"
    \/ Deadlocked(j)
RequestCanGoOn(u) ==
    \/ request[u] = "open"
    \/ request[u] = "flush" /\ (Mapping!Blockers(u) = {} \/ MappingDeadlock(u))
NoneWaitsForEver ==
    /\ \A j \in OpenJobs : WaitsFor(j) \subseteq OpenJobs
    /\ \A D \in SUBSET OpenJobs : D # {} /\ Closed(D, Waits) => \E j \in D : CanGoOn(j)
    /\ \A u \in OpenRequests : Mapping!Blockers(u) \subseteq OpenRequests
    /\ \A D \in SUBSET OpenRequests :
         D # {} /\ Closed(D, MappingWaits) => \E u \in D : RequestCanGoOn(u)

(* What can go on has a step to take that is not an accident.              *)
NoneIsStuck ==
    /\ NoneWaitsForEver
    /\ \A j \in OpenJobs : CanGoOn(j) => ENABLED JobStep(j)
    /\ \A u \in OpenRequests : RequestCanGoOn(u) => ENABLED RequestStep(u)

(* What a job has left to do: stages, transactions of the stage, models    *)
(* and attempts for a batch, and a change to flush.  Every step on a job's *)
(* state leaves it less, so that no job goes in circles.                   *)
Stage == [new |-> 7, loaded |-> 6, begin |-> 5, lookup |-> 4, ask |-> 3,
          store |-> 2, apply |-> 1, done |-> 0, failed |-> 0]
Until(n, i) == IF i < n THEN n - i ELSE 0
LoopEnd(j) ==
    CASE pc[j] = "lookup" -> Len(job[j].list) + 1
      [] pc[j] \in {"ask", "store"} -> Len(job[j].misses) + 1
      [] OTHER -> 0
Work(j) ==
    <<Stage[pc[j]], Until(LoopEnd(j), job[j].at), Until(Len(Source) + 1, job[j].tier),
      Until(MaxRetries, job[j].attempt), IF cacheDirty[j] = None THEN 0 ELSE 1>>
Less(v, w) ==
    \E i \in DOMAIN w : v[i] < w[i] /\ \A k \in 1..(i - 1) : v[k] = w[k]
EveryStepCounts ==
    [][\A j \in Job : <<pc[j], job[j], cacheDirty[j]>>' # <<pc[j], job[j], cacheDirty[j]>>
                         => Less(Work(j)', Work(j))]_vars

-----------------------------------------------------------------------------
(* The inductive invariant.  First what each variable may hold, and what a *)
(* job that has no transaction open holds.                                 *)
Results == [from : AnswerSource \cup {"rule", "recurring"}, ledger : Ledger \cup {None},
            status : Status, by : Job \cup {None}]
Changed == [hits : Nat] \cup [from : AnswerSource, ledger : Ledger \cup {None}] \cup Rows
JobRecord(list, answered) ==
    [statement : Statement \cup {None}, force : BOOLEAN, list : Seq(Tx),
     seen : [ToSet(list) -> Columns], allowed : SUBSET Ledger,
     result : [answered -> Results],
     used : SUBSET Records, misses : Seq(Tx), at : Nat \ {0}, tier : Nat \ {0},
     attempt : Nat \ {0}, past : SUBSET Job]
Typed(r) == r \in JobRecord(r.list, DOMAIN r.result)
Types ==
    /\ TypeOK
    /\ recorded \subseteq Records /\ IsFiniteSet(recorded)
    /\ rules \in Seq(RuleChoice)
    /\ DOMAIN cacheOwn = Job /\ DOMAIN cacheMem = Job /\ DOMAIN job = Job
    /\ cacheDirty \in [Job -> {None} \cup [key : HashKey, id : Job, cols : Changed]]
    /\ \A j \in Job : /\ Partial(cacheOwn[j], HashKey, Rows \cup {None})
                      /\ Partial(cacheMem[j], HashKey, Rows)
                      /\ Typed(job[j]) /\ IsFiniteSet(job[j].used)
Quiet(j) ==
    /\ pc[j] \notin Busy \ {"begin"} => DOMAIN cacheMem[j] = {} /\ cacheDirty[j] = None
    /\ pc[j] \notin Busy => DOMAIN cacheOwn[j] = {}
    /\ pc[j] \notin {"new", "failed"} => job[j].statement \in Statement
    /\ pc[j] = "begin" => \A h \in DOMAIN cacheOwn[j] : cacheOwn[j][h] = None
    /\ pc[j] \in {"new", "loaded", "begin", "failed"} =>
         /\ DOMAIN job[j].result = {} /\ job[j].used = {} /\ job[j].misses = << >>
         /\ job[j].at = 1

(* A row of the cache is known by the job that inserted it; a job changes  *)
(* only rows whose lock it took, its own or those of completed jobs.       *)
Done == {k \in Job : pc[k] = "done"}
RowsInv ==
    /\ \A h \in HashKey : cache[h] # None => cache[h].id \in Done
    /\ \A j, k \in Job : j # k => DOMAIN cacheOwn[j] \cap DOMAIN cacheOwn[k] = {}
SessionInv(j) ==
    LET own == cacheOwn[j]
        d == cacheDirty[j]
    IN  /\ \A h \in DOMAIN own : own[h] # None =>
             own[h].id = j \/ (cache[h] # None /\ cache[h].id = own[h].id)
        /\ d # None =>
             /\ d.cols \in Rows => d.cols.id = d.id
             /\ d.id # j \/ d.cols \in Rows \/ (d.key \in DOMAIN own /\ own[d.key] # None)

(* HitsWereRecorded, of what a job holds and with what it has recorded.    *)
HitsIn(h, r, records) == r.hits <= Cardinality(HitsOf(h, records))
HitsInv(j) ==
    LET all == recorded \cup job[j].used
        d == cacheDirty[j]
    IN  /\ \A h \in DOMAIN cacheOwn[j] : cacheOwn[j][h] # None => HitsIn(h, cacheOwn[j][h], all)
        /\ \A h \in DOMAIN cacheMem[j] : HitsIn(h, cacheMem[j][h], all)
        /\ d # None /\ "hits" \in DOMAIN d.cols => HitsIn(d.key, d.cols, all)

(* ModelLedgersWereAllowed, by the job that holds the answer or by one     *)
(* that has completed.                                                     *)
Named(jobs) == {l \in Ledger : \E k \in jobs : job[k].allowed = {} \/ l \in job[k].allowed}
AllowedBy(r, ledgers) == r.from \in ToSet(Source) /\ r.ledger # None => r.ledger \in ledgers
AllowedInv(j) ==
    LET ledgers == Named(Done \cup {j})
        d == cacheDirty[j]
    IN  /\ \A h \in DOMAIN cacheOwn[j] :
             cacheOwn[j][h] # None => AllowedBy(cacheOwn[j][h], ledgers)
        /\ \A h \in DOMAIN cacheMem[j] : AllowedBy(cacheMem[j][h], ledgers)
        /\ d # None /\ "from" \in DOMAIN d.cols => AllowedBy(d.cols, ledgers)
        /\ \A t \in DOMAIN job[j].result : AllowedBy(job[j].result[t], ledgers)

(* What a forced job finds in the cache was stored after it began.         *)
FreshInv(j) ==
    /\ job[j].past \subseteq Done
    /\ job[j].force /\ pc[j] \in Busy => \A h \in StaleKeys(j) :
         Cache!View(j, h) # None => Cache!View(j, h).id \notin job[j].past

(* JobsAreAtomic, loop by loop: a transaction is settled when it has its   *)
(* answer and, unless a rule or a recurring mapping gave it, one record.   *)
Recorded(r, t) == {u \in r.used : u.tx = t}
Given(r, t) == t \in DOMAIN r.result /\ r.result[t].from \in {"rule", "recurring"}
Answered(r, t) == t \in DOMAIN r.result /\ r.result[t].from \in AnswerSource
Settled(r, t) ==
    \/ Given(r, t) /\ Recorded(r, t) = {}
    \/ Answered(r, t) /\ \E u \in Records : Recorded(r, t) = {u}
Account(j, state, r) ==
    LET list == r.list
        misses == r.misses
    IN  /\ \A i, k \in DOMAIN list : list[i] = list[k] => i = k
        /\ \A i, k \in DOMAIN misses : misses[i] = misses[k] => i = k
        /\ ToSet(misses) \subseteq ToSet(list) /\ DOMAIN r.result \subseteq ToSet(list)
        /\ \A u \in r.used : u.job = j
        /\ state = "lookup" => \A i \in DOMAIN list :
             \/ i >= r.at /\ list[i] \notin ToSet(misses) /\ Recorded(r, list[i]) = {}
                /\ (list[i] \in DOMAIN r.result => Given(r, list[i]))
             \/ i < r.at /\ list[i] \in ToSet(misses) /\ Recorded(r, list[i]) = {}
             \/ i < r.at /\ list[i] \notin ToSet(misses) /\ Settled(r, list[i])
        /\ state \in {"ask", "store"} => \A t \in ToSet(list) \ ToSet(misses) : Settled(r, t)
        /\ state = "ask" => \A i \in DOMAIN misses :
             Recorded(r, misses[i]) = {} /\ (i < r.at => Answered(r, misses[i]))
        /\ state = "store" => \A i \in DOMAIN misses :
             IF i < r.at THEN Settled(r, misses[i])
             ELSE Recorded(r, misses[i]) = {} /\ Answered(r, misses[i])
        /\ state \in {"apply", "done"} => \A t \in ToSet(list) : Settled(r, t)
AccountInv(j) == Account(j, pc[j], job[j])
UsageInv ==
    /\ \A u \in recorded : u.job \in Done
    /\ \A j \in Done : {u \in recorded : u.job = j} = job[j].used

JobInv(j) ==
    Quiet(j) /\ SessionInv(j) /\ HitsInv(j) /\ AllowedInv(j) /\ FreshInv(j) /\ AccountInv(j)
IInv ==
    /\ MemoryInv /\ Types /\ RowsInv /\ UsageInv
    /\ \A h \in HashKey : cache[h] # None => AllowedBy(cache[h], Named(Done))
    /\ HitsWereRecorded /\ ForcedIsFresh /\ RecurringWasConfirmed
    /\ \A j \in Job : JobInv(j)

(* The table is what was recorded less what deletions took; a job past the *)
(* metadata of its statement keeps it from being deleted.                  *)
TableInv ==
    /\ usage = {u \in recorded : job[u.job].statement \notin deleted}
    /\ \A j \in Job : pc[j] \in Busy \ {"begin"} => job[j].statement \notin deleted
=============================================================================
