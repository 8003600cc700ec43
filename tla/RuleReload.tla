------------------------------ MODULE RuleReload ------------------------------
(***************************************************************************)
(* The rules of an organization: the commands of the API that change them  *)
(* in PostgreSQL, the signal each publishes after its commit, and the      *)
(* worker that reads the active rules page by page and evaluates events    *)
(* with what it read.                                                      *)
(*                                                                         *)
(* A command is one serializable transaction, hence one step; the signal   *)
(* is a step of its own, and so is each page of a load.  A content that is *)
(* not Plain is one that this worker's compiler refuses although the API   *)
(* accepted it (an older worker beside a newer API).                       *)
(***************************************************************************)
EXTENDS Integers, Sequences, SequencesExt, FiniteSets

CONSTANTS
  Api,         \* API processes
  Sigma,       \* Sigma identifiers in rule documents
  Name,        \* rule names, up to case
  Imports,     \* import files: sequences of documents <<identifier, name, type>>
  MaxRules,    \* bound: rows of the table
  MaxChanges,  \* bound: committed changes
  PageSize,    \* rows of a page
  Subscribed,  \* the worker runs a RedisRuleReloadSubscriber
  Faults       \* signals are lost, queries fail and processes die

Type == {"match", "count"}
Id == 1..MaxRules
Builtin == 1
NoRule == 0

VARIABLES
  rules,    \* Id -> row, for the rows that exist
  recency,  \* the identifiers, the latest updated first
  audit,    \* Id -> the actions recorded of it, in order
  api,      \* Api -> what is left of the command
  inbox,    \* signals on the worker's connection, not yet handled
  worker,   \* "down", "loading" or "idle"
  ready,    \* a first load was completed
  load,     \* Type -> the rows read so far and whether they are all
  cache,    \* Type -> Id -> version, of the compiled rules in use
  stale,    \* ghost: since the last load began something was committed, or it failed
  changes   \* committed changes
vars == <<rules, recency, audit, api, inbox, worker, ready, load, cache, stale, changes>>
stored == <<rules, recency, audit, stale, changes>>
working == <<worker, ready, load, cache>>

Existing == DOMAIN rules
Idle == [stage |-> "idle"]
Signal(r) == [stage |-> "signal", rule |-> r]
NothingRead == [t \in Type |-> [rows |-> <<>>, done |-> FALSE]]
NoCache == [t \in Type |-> <<>>]

\* The elements of s that are in S, in their order.
Chosen(s, S) ==
  LET kept[n \in 0..Len(s)] ==
        IF n = 0 THEN <<>> ELSE IF s[n] \in S THEN Append(kept[n-1], s[n]) ELSE kept[n-1]
  IN kept[Len(s)]

-----------------------------------------------------------------------------
(* Commands.                                                               *)

\* Row r becomes row, an update sets updated_at, and action is recorded; all
\* of it commits together.
Commit(r, row, action) ==
  /\ changes < MaxChanges
  /\ changes' = changes + 1
  /\ rules' = [i \in Existing \cup {r} |-> IF i = r THEN row ELSE rules[i]]
  /\ recency' = <<r>> \o Chosen(recency, Existing \ {r})
  /\ audit' = [i \in Existing \cup {r} |->
                 (IF i \in Existing THEN audit[i] ELSE <<>>) \o
                 (IF i = r THEN <<action>> ELSE <<>>)]
  /\ stale' = TRUE

\* No row of the organization, archived ones included, has this identifier or name.
Free(sigma, name) == \A r \in Existing : rules[r].sigma # sigma /\ rules[r].name # name

NewRow(sigma, name, type, plain) ==
  [state |-> "active", sigma |-> sigma, name |-> name, type |-> type, version |-> 1,
   plain |-> plain]

NextId == Cardinality(Existing) + 1

\* CreateRuleUseCase.execute.
CreateRule(p, sigma, name, type, plain) ==
  /\ api[p] = Idle
  /\ Free(sigma, name)
  /\ NextId \in Id
  /\ Commit(NextId, NewRow(sigma, name, type, plain), "rule_create")
  /\ api' = [api EXCEPT ![p] = Signal(NextId)]
  /\ UNCHANGED <<inbox, working>>

\* UpdateRuleUseCase.execute.  The status stays; the type may change.
UpdateRule(p, r, sigma, name, type, plain) ==
  /\ api[p] = Idle
  /\ r # Builtin
  /\ rules[r].state # "archived"
  /\ rules[r].sigma = sigma
  /\ \A s \in Existing : rules[s].name = name => s = r
  /\ Commit(r, [rules[r] EXCEPT !.name = name, !.type = type, !.plain = plain,
                                !.version = @ + 1], "rule_update")
  /\ api' = [api EXCEPT ![p] = Signal(r)]
  /\ UNCHANGED <<inbox, working>>

\* Mutant: an archived rule can be enabled again.
ChangeAnyStatus(p, r, target) ==
  /\ api[p] = Idle
  /\ rules[r].state # target
  /\ Commit(r, [rules[r] EXCEPT !.state = target],
            IF target = "active" THEN "rule_enable" ELSE "rule_disable")
  /\ api' = [api EXCEPT ![p] = Signal(r)]
  /\ UNCHANGED <<inbox, working>>

\* ChangeRuleStatusUseCase.execute.  A rule that has the status already is
\* answered without a change, an audit entry or a signal.
ChangeRuleStatus(p, r, target) ==
  /\ api[p] = Idle
  /\ rules[r].state \notin {"archived", target}
  /\ Commit(r, [rules[r] EXCEPT !.state = target],
            IF target = "active" THEN "rule_enable" ELSE "rule_disable")
  /\ api' = [api EXCEPT ![p] = Signal(r)]
  /\ UNCHANGED <<inbox, working>>

\* ArchiveRuleUseCase.execute.  A rule already archived is answered as such.
ArchiveRule(p, r) ==
  /\ api[p] = Idle
  /\ r # Builtin
  /\ rules[r].state # "archived"
  /\ Commit(r, [rules[r] EXCEPT !.state = "archived"], "rule_delete")
  /\ api' = [api EXCEPT ![p] = Signal(r)]
  /\ UNCHANGED <<inbox, working>>

\* ImportRulesUseCase.execute: one transaction for each document, in order;
\* a duplicate is skipped, and the last rule imported is signalled.
StartImport(p, documents) ==
  /\ api[p] = Idle
  /\ changes < MaxChanges
  /\ api' = [api EXCEPT ![p] = [stage |-> "import", left |-> documents, last |-> NoRule]]
  /\ UNCHANGED <<stored, inbox, working>>

ImportDocument(p) ==
  /\ api[p].stage = "import"
  /\ api[p].left # <<>>
  /\ LET d == Head(api[p].left) IN
       \/ /\ Free(d[1], d[2])
          /\ NextId \in Id
          /\ Commit(NextId, NewRow(d[1], d[2], d[3], TRUE), "rule_import")
          /\ api' = [api EXCEPT ![p].left = Tail(@), ![p].last = NextId]
       \/ /\ ~Free(d[1], d[2])
          /\ api' = [api EXCEPT ![p].left = Tail(@)]
          /\ UNCHANGED stored
  /\ UNCHANGED <<inbox, working>>

\* Any other error ends the import; what was committed stays and is not
\* signalled.  Here too when a bound of the model is met.
ImportAborts(p) ==
  /\ api[p].stage = "import"
  /\ api[p].left # <<>>
  /\ Faults \/ changes = MaxChanges \/ NextId \notin Id
  /\ api' = [api EXCEPT ![p] = Idle]
  /\ UNCHANGED <<stored, inbox, working>>

ImportDone(p) ==
  /\ api[p].stage = "import"
  /\ api[p].left = <<>>
  /\ api' = [api EXCEPT ![p] = IF @.last = NoRule THEN Idle ELSE Signal(@.last)]
  /\ UNCHANGED <<stored, inbox, working>>

\* RedisRuleReloadPublisher.publish: Redis forgets a message that no
\* connection is subscribed to.
Publish(p) ==
  /\ api[p].stage = "signal"
  /\ api' = [api EXCEPT ![p] = Idle]
  /\ inbox' = IF Subscribed /\ worker # "down" THEN inbox + 1 ELSE inbox
  /\ UNCHANGED <<stored, working>>

\* Redis fails (reloadSignaled: false) or the process dies after its commit.
SignalLost(p) ==
  /\ Faults
  /\ api[p].stage = "signal"
  /\ api' = [api EXCEPT ![p] = Idle]
  /\ UNCHANGED <<stored, inbox, working>>

-----------------------------------------------------------------------------
(* The worker.                                                             *)

\* The active rules of type t, and their rows in the order of the query.
Active(t) == {r \in Existing : rules[r].state = "active" /\ rules[r].type = t}
ActiveRows(t) == Chosen(recency, Active(t))
LoadedRow(r) == [id |-> r, version |-> rules[r].version, plain |-> rules[r].plain]

\* performReload begins: both sources are asked for their first page.
BeginLoad ==
  /\ worker' = "loading"
  /\ load' = NothingRead
  /\ stale' = FALSE

\* createOrganizationRuleEngine.
StartWorker ==
  /\ worker = "down"
  /\ BeginLoad
  /\ cache' = NoCache
  /\ ready' = FALSE
  /\ inbox' = 0
  /\ UNCHANGED <<rules, recency, audit, changes, api>>

\* RedisRuleReloadSubscriber.onMessage, reloadRules: a signal that finds a
\* load under way joins it.
HandleSignal ==
  /\ inbox > 0
  /\ worker # "down"
  /\ inbox' = inbox - 1
  /\ IF worker = "idle" THEN BeginLoad ELSE UNCHANGED <<worker, load, stale>>
  /\ UNCHANGED <<rules, recency, audit, changes, api, ready, cache>>

\* Mutant: the row after the page counts as read.
ReadPageShort(t) ==
  LET rows == ActiveRows(t)
      read == load[t].rows
      page == SubSeq(rows, Len(read) + 1, IF Len(rows) < Len(read) + PageSize THEN Len(rows)
                                          ELSE Len(read) + PageSize)
  IN /\ worker = "loading"
     /\ ~load[t].done
     /\ load' = [load EXCEPT ![t] = [rows |-> read \o [k \in DOMAIN page |-> LoadedRow(page[k])],
                                     done |-> Len(rows) <= Len(read) + PageSize + 1]]
     /\ UNCHANGED <<stored, api, inbox, worker, ready, cache>>

\* One page: LIMIT PageSize + 1 OFFSET what was read; every query sees what
\* is committed when it runs.
ReadPage(t) ==
  LET rows == ActiveRows(t)
      read == load[t].rows
      page == SubSeq(rows, Len(read) + 1, IF Len(rows) < Len(read) + PageSize THEN Len(rows)
                                          ELSE Len(read) + PageSize)
  IN /\ worker = "loading"
     /\ ~load[t].done
     /\ load' = [load EXCEPT ![t] = [rows |-> read \o [k \in DOMAIN page |-> LoadedRow(page[k])],
                                     done |-> Len(rows) <= Len(read) + PageSize]]
     /\ UNCHANGED <<stored, api, inbox, worker, ready, cache>>

AllRead == \A t \in Type : load[t].done
Repeats(rows) == \E k, l \in DOMAIN rows : k < l /\ rows[k].id = rows[l].id

\* compile, validateMetadataAgreement: the text is a rule of a known kind and
\* says what the row's columns say.
Agrees(x) == x.plain

\* A rule that does not is replaced by the one in use, if there is one, and
\* left out otherwise.
Kept(t) == {x \in ToSet(load[t].rows) : Agrees(x) \/ x.id \in DOMAIN cache[t]}

\* OrganizationRuleLoader.load and its counterpart for count rules.
Candidate(t) ==
  [i \in {x.id : x \in Kept(t)} |->
     LET x == CHOOSE y \in Kept(t) : y.id = i IN
       IF Agrees(x) THEN x.version ELSE cache[t][i]]

\* Both candidates are complete: the caches are replaced together.
PublishCaches ==
  /\ worker = "loading"
  /\ AllRead
  /\ \A t \in Type : ~Repeats(load[t].rows)
  /\ cache' = [t \in Type |-> Candidate(t)]
  /\ worker' = "idle"
  /\ ready' = TRUE
  /\ load' = NothingRead
  /\ UNCHANGED <<stored, api, inbox>>

\* A query fails, or two pages returned the same rule: what was in use stays;
\* without it the worker does not start.
LoadFails ==
  /\ worker = "loading"
  /\ Faults \/ (AllRead /\ \E t \in Type : Repeats(load[t].rows))
  /\ worker' = IF ready THEN "idle" ELSE "down"
  /\ load' = NothingRead
  /\ stale' = TRUE
  /\ UNCHANGED <<rules, recency, audit, changes, api, inbox, ready, cache>>

WorkerDies ==
  /\ Faults
  /\ worker # "down"
  /\ worker' = "down"
  /\ load' = NothingRead
  /\ cache' = NoCache
  /\ ready' = FALSE
  /\ inbox' = 0
  /\ UNCHANGED <<stored, api>>

-----------------------------------------------------------------------------
Command ==
  \E p \in Api :
    \/ \E s \in Sigma, n \in Name, t \in Type, plain \in BOOLEAN :
         \/ CreateRule(p, s, n, t, plain)
         \/ \E r \in Existing : UpdateRule(p, r, s, n, t, plain)
    \/ \E r \in Existing :
         \/ \E target \in {"active", "disabled"} : ChangeRuleStatus(p, r, target)
         \/ ArchiveRule(p, r)
    \/ \E documents \in Imports : StartImport(p, documents)
    \/ ImportDocument(p) \/ ImportAborts(p) \/ ImportDone(p)

Load == PublishCaches \/ LoadFails \/ \E t \in Type : ReadPage(t)

RulesInit ==
  /\ \E t \in Type : rules =
       [i \in 1..2 |-> NewRow(IF i = Builtin THEN "none" ELSE CHOOSE s \in Sigma : s # "none",
                              IF i = Builtin THEN "builtin" ELSE CHOOSE n \in Name : n # "builtin",
                              IF i = Builtin THEN "match" ELSE t, TRUE)]
  /\ recency = <<2, 1>>
  /\ audit = [i \in 1..2 |-> IF i = Builtin THEN <<>> ELSE <<"rule_create">>]
  /\ api = [p \in Api |-> Idle]
  /\ inbox = 0 /\ worker = "down" /\ ready = FALSE
  /\ load = NothingRead /\ cache = NoCache
  /\ stale = FALSE /\ changes = 0

RulesNext ==
  \/ Command
  \/ \E p \in Api : Publish(p) \/ SignalLost(p)
  \/ StartWorker \/ HandleSignal \/ Load \/ WorkerDies

\* The processes run: a command that committed publishes its signal, the
\* worker is started and its queries return.  Nobody has to change a rule.
RulesFairness ==
  /\ \A p \in Api : WF_vars(Publish(p) \/ ImportDocument(p) \/ ImportAborts(p) \/ ImportDone(p))
  /\ WF_vars(StartWorker)
  /\ WF_vars(HandleSignal)
  /\ WF_vars(Load)
RulesSpec == RulesInit /\ [][RulesNext]_vars /\ RulesFairness

-----------------------------------------------------------------------------
InUse(r) == \E t \in Type : r \in DOMAIN cache[t]

\* Replay of the audit entries of a rule: its status and version, or an entry
\* that contradicts the ones before it.
Step(state, action) ==
  CASE action \in {"rule_create", "rule_import"} /\ state[1] = "absent" -> <<"active", 1>>
    [] action = "rule_update" /\ state[1] \in {"active", "disabled"} -> <<state[1], state[2] + 1>>
    [] action = "rule_enable" /\ state[1] = "disabled" -> <<"active", state[2]>>
    [] action = "rule_disable" /\ state[1] = "active" -> <<"disabled", state[2]>>
    [] action = "rule_delete" /\ state[1] \in {"active", "disabled"} -> <<"archived", state[2]>>
    [] OTHER -> <<"contradiction", 0>>

Replay(first, actions) ==
  LET state[n \in 0..Len(actions)] == IF n = 0 THEN first ELSE Step(state[n-1], actions[n])
  IN state[Len(actions)]

\* The audit trail tells the history of each rule: replaying it from the start
\* gives the status and the version the table has, whatever interleaving of
\* commands of several processes produced it; and the identities and names of
\* the rows, archived ones included, are distinct.
RulesAudited ==
  /\ \A r \in Existing :
       Replay(IF r = Builtin THEN <<"active", 1>> ELSE <<"absent", 0>>, audit[r])
         = <<rules[r].state, rules[r].version>>
  /\ \A r, s \in Existing : r # s => rules[r].sigma # rules[s].sigma /\ rules[r].name # rules[s].name

\* A load during which nothing was committed leaves the worker with exactly
\* the active rules, each in the version of the table and in the cache of its
\* type, unless this worker cannot compile it: then with an earlier version
\* or without the rule.  The pages neither skip nor repeat a row.
LoadedAsStored ==
  worker = "idle" /\ ready /\ ~stale =>
    \A t \in Type :
      /\ DOMAIN cache[t] \subseteq Active(t)
      /\ \A r \in Active(t) :
           IF rules[r].plain
           THEN r \in DOMAIN cache[t] /\ cache[t][r] = rules[r].version
           ELSE r \in DOMAIN cache[t] => cache[t][r] < rules[r].version

\* A disabled or archived rule is taken out of the running worker.
\* (docs/rule-engine.md, Enable / Disable Rule: "hot-reload removes from engine".)
DisabledRuleLeaves ==
  \A r \in Id : (r \in Existing /\ rules[r].state \in {"disabled", "archived"})
                  ~> (~InUse(r) \/ rules[r].state = "active")
=============================================================================
