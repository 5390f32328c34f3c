# Product Suite: TLA+ models and proofs

This directory specifies the parts of Product Suite in which requests, crashes and
people race for the same rows. The reference is the code under `src/`; every
definition names the lines it stands for in `PROJECT.json` (`map`).

## The system

The program's own logic lives in `apps/platform-api` (TypeScript on Bun and Hono,
Neon Postgres over HTTP). Every SQL call there is its own autocommit transaction,
unless it is part of a `sql.transaction([...])` batch, so a handler is a sequence of
steps with any other request in between, and a crash can fall between any two; statements
that overlap do not see each other's rows ("Abstractions that hold everywhere").

| part | state | operations | hard because |
|---|---|---|---|
| proposals (`proposals/*`, `routes/proposals.ts`) | `proposals`, the rows they create | draft, accept, reject, approve-command, undo, capture | write first, flip last; several deciders; crashes; compensation; value fences |
| command kernel (`commands/*`, `packages/db/src/command-persistence.ts`) | idempotency ledger, audit events | preview, execute (`work-item.create`, `work-item.update`, `proposal.apply`) | retries race first tries; one transaction per command |
| work items (`domain/work-items.ts`) | `work_items`, `activity_events` | create, update | reads before writes; all columns written back; hierarchy rules; UPDATEs overlap |
| dependencies (`routes/dependencies.ts`) | `work_item_dependencies` | add, remove | a walk over a snapshot; statements overlap |
| memories (`domain/memories.ts`) | `memories`, their supersession chains | create, supersede, retract, defer, reactivate | two-row changes, status races |
| conversations (`collaboration/*`, `routes/conversations.ts`) | an append-only log of messages, edits, tombstones, memberships | post, edit, delete, reply, add and remove members, backfill | order of appends, rules checked by reads |
| meeting ingest (`meeting/*`) | promotion ledger, runs, proposals | ingest, triage of candidates | exactly once while ingests overlap and die and the records are rewritten under it |
| agent core (`services/agent-core`) | a plan's steps, the calls of its tools | execute a plan, cancel | timeouts against late answers, retries, a cancellation that is polled |
| agent runtime, retrieval, curator (`agent/*`, `curator/*`) | threads, runs, knowledge base | chat, reflect, retrieve | mostly calls to a model; ranking |
| Hocuspocus server (`services/hocuspocus`) | connections to documents | connect, load, store | authorisation at connect time |
| platform web (`apps/platform-web`) | lists as last loaded, optimistic state, what is selected | load, mutate, roll back, signal; follow a link, filter, dispose | answers out of order, effects that cancel one another, several hosts of one list |
| meeting web (`apps/meeting-web`) | the recorder | record, pause, resume, stop, send chunks | chunks are sent without waiting for one another |
| meeting API (`apps/meeting-api`) | meetings, segments, chapters, records | record, transcribe, rewrite chapters and records, finalize | chunks late, lost or out of order; what is derived is rewritten at four places |
| roadmap web (`apps/roadmap-web`) | - | - | archived source without a runtime |
| delivery scripts (`scripts`, `packages/db/migrations`) | migration ledger | migrate, check parity | partial migration |

What makes each part correct:

- proposals: a proposal is decided once and executed once; the human's no wins over a
  write that was under way; nobody's later edit is overwritten; an undo reverses its
  accept and nothing else; what was decided is what is in the rows.
- command kernel: a request is carried out at most once however often it is sent, the
  ledger and the write never disagree, and equal requests get equal answers.
- work items: two levels, one team per family, a status of the own team, no cycle.
- dependencies: no cycle, in the table and on the canvas.
- memories: one version of a decision is in force; chains neither fork nor lose a link;
  what was superseded or retracted stays so.
- conversations: sequences without gaps; one chain per message; a cursor misses nothing;
  a membership changes only with its event; the backfill can be repeated.
- meeting API and ingest: chapters cover what was said, an utterance is one record, and
  a record is proposed once; a run that says it completed left nothing out.
- agent core: a step runs after its dependencies and alone, is tried again only after
  its call was rejected, and a late result changes nothing; every execution ends.
- web clients: what the reviewer asked to see, and nothing else, is under the Accept
  button; a proposal that is gone leaves the lists for good; an edit that failed is not
  shown, and what is shown is what was saved.

Inside `platform-api` parts call each other directly and share only the database. There
are no queues: the things that race are HTTP requests. The meeting API is a process of
its own with tables in the same database, which the ingest reads. A browser is one
thread: what races there are the answers it waits for.

## Modules

| module | models | how it corresponds to the code |
|---|---|---|
| `ProposalDecision` | what a proposal promises: it is pending, decided once, and then executed once if it was approved | abstract specification; `ProposalLifecycle` implements it (`ImplementsDecision`) |
| `ProposalLifecycle` | drafting, accept, reject, approve-command, `proposal.apply`, undo, a person's PATCH | a request is a process with a step `pc` per SQL call; what it read stays in `cur`, `pay`, `persist`, `loaded`, `pre`, `fence`, `patch` while others run; `dead` requests stopped part way |
| `MessageBoard` | what a conversation promises about messages: posted, edited while they stand, deleted once | abstract specification; `ConversationLog` implements it (`ImplementsBoard`) |
| `ConversationLog` | appends, membership changes, disabling of actors, polls of one conversation | an append or a membership change locks the conversation row first, so it is one action; a poll authorizes and reads in two statements, `PollAuthorize` and `PollRead` |
| `ThreadBackfill` | the runs of a chat thread, its backfill and what people do afterwards; extends `ConversationLog` | `BackfillLoad` is the read; its one write statement takes its snapshot in `BackfillBegin` and commits in `BackfillApply`, as the INSERT of a run does in `MintRun` and `StartRun`; `batch` is what the read returned and the statement sees |
| `MemoryChain` | the memory commands by people and by accepts, with the flip and the compensation | every command is one guarded statement, so one action; an accept is the command and then the flip |
| `WorkItemTree` | the parent, team and status rules of create and update | every check is a read of its own (`CheckTeam`, `CheckKids`, `CheckParent`); the guarded UPDATE is `Guard`, where it takes its snapshot and walks from the parent, and `Update`, where it commits |
| `CommandLedger` | tries of commands under idempotency keys | `findReplay`, the checks, the read of the row and the transaction are a step each |
| `MeetingIngest` | calls of the ingest route on records that change under them | minting the run, the two reads, each candidate's transaction and the end of the run are a step each; a call that dies takes no further step |
| `MeetingChapters` | operators: from the segments of a transcript to chapters and records | `Turn` is one turn of the loop of `_build_chapter_summaries` and `Loop` where it stands after a number of them; a record is the pair of its chapter's index and its utterance, as its id is |
| `MeetingPipeline` | a meeting from its recorder to the review queue; extends both | `BeginTranscription` and `StoreSegments` are the two sides of the one `await` of `transcribe_audio`; `Materialize` is what every rewrite does |
| `TaskContract` | what executing a plan promises whoever approved it | abstract specification; `TaskExecution` implements it (`ImplementsContract`) |
| `TaskExecution` | `executeTaskPlan`: the loop, retries, the deadline, the polled cancellation, tools that answer late or never | a step is what runs between two macrotasks; `pc` is what the loop awaits, `calls` the promises the tools still owe |
| `ReviewInbox` | `useProposals`, `useProposalActions`, the signal between them, and the effects of `InboxScreen` | `Commit` is a render with the effects whose dependencies changed (`due`); `loads`, `lookup` and `op` are the requests under way |
| `DependencyGraph` | the dependency edges, the requests to add and remove them | an INSERT is `BeginEdge`, where it takes its snapshot, and `InsertEdge`, where it meets the unique index and commits |
| `GraphView` | the edges as the clients' hooks hold and their canvases draw them; extends `DependencyGraph` | `adding` and `removals` are the requests under way; an aborted one goes on at the server |
| `Workboard` | the tree, the dependencies and the clients together | deleting an item is a step of the tree and of the graph, its edges go with it |
| `BoardHistory` | the workboard and what each client has drawn so far | models no code: `drawn` is a history variable, for `NothingVanishes` |

`MC_*` modules give the constants their values for TLC. `*Proofs` modules hold the
theorems. `ThreadBackfill` is composed with `ConversationLog`, `MeetingPipeline` with
`MeetingIngest` and `MeetingChapters`, `GraphView` with `DependencyGraph`, and `Workboard` with
both and `WorkItemTree`: there one part steps between the steps of the
other. The other parts share rows and not control: an accept reappears in `MemoryChain`
and `CommandLedger` with the detail that matters there.

Abstractions that hold everywhere:

- A statement, or a `sql.transaction([...])` batch, is atomic, with three exceptions. At
  READ COMMITTED two statements that overlap miss what the other one writes to rows it does
  not lock, as the comment at `routes/dependencies.ts:131-138` says of dependency edges.
  Where a rule rests on such rows, the statement is a step that takes its snapshot and a
  step that commits: the INSERT of an edge, the UPDATE of a work item with its guard, and
  the INSERT of a run against the statement of the backfill. Elsewhere a statement is one
  step: it meets the others on a row, which it locks and looks at again, or on a unique index,
  and what it reads of further rows it reads at that step.
- A crash is a request that stops; a request that stops looks to the database like one
  that met an unexpected error and answered 500.
- A uuid is not given out twice. A payload is one value; a payload the validation
  refuses is `Bad`.
- The assertion `cast('COMMAND_VERSION_CONFLICT' as integer)` inside a CASE
  (`work-items.ts:577`, `commands/dependencies.ts:152`) is read as the code means it: it
  aborts the transaction if and only if nothing was updated. PostgreSQL converts literals
  when it parses a statement, so this deserves a test against a real server.

Abstractions of one module:

- `ProposalLifecycle`: an update patches one field, and the item's other fields stand for
  the columns that are written back. `memory:supersede`, `retract` and `defer` are in
  `MemoryChain`.
- `ConversationLog`: the sequence stands for the event's id too. `ensureActor` is folded
  into the set of actors.
- `ThreadBackfill`: one backfill at a time; `provisionActors` is folded into the load; `next_sequence`
  is updated twice by one statement, and which update takes effect is left open. What people
  post and what the statement inserts meet on the unique indexes when it commits.
- `MemoryChain`: reading the id and the guarded statement are one action, because the
  guard repeats everything the read found out.
- `WorkItemTree`: a status stands for its team. Fields without a part in the rules are
  left out, as is the delete of statuses and teams, which no route offers.
- `MeetingChapters`: what is said is one value per utterance, with its own text and its
  own times; the extraction is the predicate `Actionable`. The two drafts of one
  utterance cite the same segment, so deduplication is by utterance.
- `MeetingPipeline`: one meeting. A handler gives way only at an `await`, so the API's
  commits between two awaits are one step, and the failure between the commit of the
  segments and the rewrite is a choice of `StoreSegments`. Inactivity is one flag.
- `TaskExecution`: `maxExecutionTimeMs` is the flag `late`; `delay` lasts any time.
- `ReviewInbox`: one list stands for those of all mounted hooks, since each of them loads
  on the same signal; `isRefetching`, banners and undo are left out; a click comes only
  once the effects have settled, as React runs them before it handles the next one.
- `DependencyGraph`: one organisation, since every query names it; the kind of a dependency
  is data, and all kinds count for the walk, as in the code.
- `GraphView`: nothing can be edited before the first load, and a list is loaded again only
  after a load has failed, so its read and its answer are one step. Edges to items that a
  filter hides stay in the list.
- `CommandLedger`: the hash of a request is the request; the capability check, the preview
  hash and the audit row's content are functions of one request. `proposal.apply` of a
  create is in `ProposalLifecycle`.

## What the runs check

All runs are exhaustive over their bounds. `CHECK_DEADLOCK FALSE` stands in every
configuration because the pools of requests, keys and ids are finite: when they are used
up, the model stops, as a server without requests does.

| run | bounds | what it shows |
|---|---|---|
| `Proposal_creates` | two work-item creates, one without a team, and a memory create; two accepts, one of which may die anywhere; one command; an edit that is good and one that is not | an applied create has its row, the row of a declined one is owned by an accept that will delete it and in the end is gone unless that accept died, no memory without an applied proposal, and the whole is a `ProposalDecision` |
| `Proposal_updates` | one update; two accepts, a command, an undo, a person who edits | an agent overwrites only the value it was written against; an undo reverses only what the accept wrote |
| `Log_conversation` | two actors, three keys, three events, page size 1, one reader; demote, remove and admit | sequences without gaps, one chain per message, replay of exact retries, cursors that miss nothing, audited membership changes, and the whole is a `MessageBoard` |
| `Backfill_repeated` | two runs of two messages, three actors, two keys of people | imported messages are the completed turns in order, every run of a mapped thread is linked unless its INSERT overlapped the backfill, membership rows change only with an event |
| `Memory_versions` | four proposals, one per operation, two of which come up; two accepts; three memories | one head per chain, chains intact, history kept, supersessions and retractions take effect once |
| `Workboard_races` | three items, two requests that nest and move them; three requests for edges, or two and one client with two removals; the tree is busy only while no dependency is asked for | a cycle of parents has two items whose UPDATEs overlapped, and no depth is stale; a cycle of dependencies has two edges whose INSERTs overlapped; an edge that the server has and a client has drawn stays drawn unless that client is removing it |
| `Ledger_retries` | three tries, eight requests under two keys per command, three request ids, four versions | a write is committed once and exactly if the ledger says so, a success is about the caller's own request, equal answers for creates and updates, one application per proposal |
| `Meeting_pipeline` | a meeting of ten minutes: five utterances, one across the end of the first chapter, three that overlap at the end of the second; three chunks; two ingests | chapters cover the transcript, an utterance is one record, a record one proposal, and an utterance one proposal as long as segments arrive in order; completion means that nothing was left |
| `Task_execution` | all plans of three steps with at most two dependencies each (themselves and unknown ones included), three orders, some steps already decided; one retry | one call at a time, no repetition of what may have taken effect, the whole is a `TaskContract`, and it ends |
| `Inbox_review` | two proposals of two sources, one of them also on a card; one facet; three clicks; any number of answers, failures and decisions of others | nothing but what was asked for is under the Accept button unless the facet has hidden that; what left the list does not return, and what a mounted host was told is gone leaves it |

Why the bounds are enough to be worth having: every hazard listed in `PROJECT.json` needs
two actors on one row and a third party at most, and the smallest cycle, fork, reordered
pair or lost update fits. Two accepts give a loser for every flip; three items give a
tree that is too deep; three memories give a chain with a middle; three tries give a
first, a racing and a late one. The theorems below remove the bounds for most of these
properties. A meeting of two
chapters and a rest has a boundary inside an utterance, a silent window when a chunk is
late, and a renumbered chapter; three clicks give a link, a disposal and a reload. Every
property has a mutant, a plausible bug in one of the definitions, on
which TLC finds it violated.

`TwoProposals` and `FourVersionsToApply` are bounds of the MC modules, written as
constraints; `NoMove`, `Flat` and `Watched` bound `MC_Workboard` in its next-state relation.
`NoMove` lets only a request that is alone move items between teams; `Flat` has one request
at a time make top-level items where dependencies are asked for, all of them before a third
edge; `Watched` leaves a client two items, two edges and two removals.
`drawn` in `BoardHistory`, `late` and `raced` in `WorkItemTree` and `raced` in
`ThreadBackfill` are history variables: no guard reads them.

### Fairness

- `Proposal_creates` (`RejectionWins`): weak fairness of `AcceptStep(a)` for every accept
  that may not die. A handler that was started runs on to its answer, which is what the
  runtime does with a request unless the process dies. With a death in between the row does
  stay: the property says that the row goes, or belongs to a dead accept. Nothing is assumed
  about anybody sending a request.
- `Task_execution` (`Terminates`): weak fairness of the executor's steps and of time. The
  event loop runs callbacks that are due and the clock goes on. Nothing is assumed of the
  tools: they may never answer.
- `Inbox_review` (`ToldDisposalsLeave`) and `Inbox_unanswered`: weak fairness of rendering
  and of the answers. React runs its effects, and every request ends with an answer or its
  timeout (`AbortSignal.timeout`, network-repository.ts:102). Which answer comes first, and
  whether it is an error, is left open. Clicks are finitely many and never owed.

## What the code does not keep

Two statements are refuted by a run of their own (`expect: violation`, listed as findings
in `PROJECT.json`):

- `OtherFieldsSurvive` (`Proposal_lost_update`, domain/work-items.ts:476): apply.ts:403-405 says a drifted target is declined 'instead of applying last-writer-wins over somebody's later edit'. The fence covers only the fields of target_snapshot, and updateWorkItem writes every column back from the row it read (work-items.ts:476 and 519-543), so an edit of any other field that lands between that read and the UPDATE is lost.
- `LinkIsAnswered` (`Inbox_unanswered`, boards/inbox/InboxScreen.tsx:218): InboxScreen.tsx:225-226 says of a linked proposal that is not in the list: 'hold the pane EMPTY and ask what became of it, so the reviewer is told "already accepted" rather than shown a stranger'. When the list is loaded again while that question is under way, the effect's cleanup drops the answer and its next run returns at line 218, because the id has been applied already: the pane stays empty and no notice says why. Loading the list is what every disposal anywhere on the page does.

The following ones are refuted in the same way. They have no run of their own: put the
property in the place of the properties of the named configuration, and TLC prints the
behaviour.

- `Repeatable` (`Backfill_repeated`, collaboration/backfill.ts:211): docs/work/2026-08-07-collaboration-authority-contract/plan.md:94 says 'The backfill is repeatable'. The sequence of an imported message is its position in the transcripts of this load, so once an earlier-created run completes late, or someone has posted, a repeat computes a sequence that another event holds: on conflict covers the idempotency key only, and the statement aborts on the sequence's unique index, at every later repeat too.
- `EveryRunIsLinked` (`Backfill_repeated`, agent/runtime.ts:213): docs/work/2026-08-07-collaboration-authority-contract/plan.md:95 says that 'agent chat links new runs through `conversation_id`'. A run's INSERT looks for the conversation in its own snapshot and the backfill's statement updates the runs of its own. When the two overlap, each misses the other's row, and a run that is minted while its thread is backfilled stays without a conversation until the backfill is repeated.
- `Acyclic` (`Workboard_races`, domain/work-items.ts:554): work-items.ts:480-481 says 'The WHERE NOT EXISTS reachability guard closes the check-then-write gap where a concurrent request commits a reaching path'. It sees what was committed before its statement began and locks no row but the one it updates: of two top-level items, one request nests the first in the second and another the second in the first, both UPDATEs take their snapshot before either commits, and the two are each other's parent.
- `DepthCapped` (`Workboard_races`, domain/work-items.ts:470): packages/db/src/schema.ts:434-436 says 'Native creation is depth-capped at 1 (a parent must itself be top-level, and an item that already has children cannot itself be nested)'. Both checks are reads before the write, and the guard in the UPDATE looks for cycles only: when a is nested in b while b is nested in c, both pass and a is two levels deep, stored with depth 1.
- `DrawnAsDag` (`Workboard_races`, also if no two requests for an edge overlap, data/work-items/use-work-items.ts:310): WorkboardGraph.tsx:78-82 says that connections are validated 'against the FULL `dependencies` prop' so that 'a cycle can never be closed'. While a removal is under way its edge is not in that prop; if the DELETE was served and its answer lost, the rollback shows the edge again, beside an opposite one that was connected, and accepted by the server, in the meantime.
- `RetryIsNotRefused` (`Ledger_retries`, commands/registry.ts:165): docs/work/2026-08-12-agent-native-control-plane/plan.md:191 says 'Duplicate retries return the original terminal result'. A retry that overlaps its first try is past findReplay when that commits; it then finds the version already advanced, in normalize (registry.ts:165) or in the transaction's assertion (work-items.ts:577), which comes before the ledger insert, and is told of a version conflict for an update that was carried out.
- `ProposedOnce` (`Meeting_pipeline`, services/chapter_summary.py:108): ingest.ts:105-106 says a candidate becomes a pending proposal 'exactly once, ever', and 0015_meeting_promotions.sql:5 calls the record's id 'CONTENT-DERIVED'. The id also contains the index of the chapter, and chapters are numbered over the windows somebody spoke in. A chunk that is transcribed late fills a window that was silent, later chapters are renumbered, and their records are proposed again under new ids.
- `LinkIsHonoured` (`Inbox_review`, boards/inbox/InboxScreen.tsx:293): lines 205-208 promise never to substitute another proposal for the one a link asks for. If a facet that hides it was set before, the facet's effect selects the first visible row instead, with a live Accept button.
- `NoticeIsTrue` (`Inbox_review`, boards/inbox/InboxScreen.tsx:234): a proposal that was drafted after the list was loaded is not in the list; the look at it finds it pending, and the notice (lines 92-95) says it is 'no longer pending' and 'was already handled (pending)'.
- `PaneStays` (`Inbox_review`, boards/inbox/InboxScreen.tsx:309): lines 309-311 say the pane 'can't be yanked to a different proposal mid-mutation'. Rows are guarded by isMutating; a link and a facet are not, and the outcome's banner is lost with the pane.
- `UndoneIsNotReapplied` (`Proposal_updates`, proposals/apply.ts:414): apply.ts:413-415 says of concurrent accepts that 'only one flip matches `pending` (the rest -> `not_pending`, harmless - the write deduped to one row)'. For an update nothing dedupes: the fence compares values only, so once an undo has restored the authored value the losing accept's UPDATE matches again, the undone change is back on the item, and its proposal still carries undone_at.
- `DriftIsSomeoneElses` (`Proposal_updates`, proposals/apply.ts:247): apply.ts:247 tells the reviewer 'someone changed <field> since this was proposed', and apply.ts:258-259 says the proposal 'stays `pending` and a re-accept re-drives idempotently'. After a crash between the UPDATE and the flip the item holds the proposal's own value, which differs from target_snapshot: every re-accept is declined as stale.
- `ApprovedIsNotExecuted` (`Proposal_creates`, proposals/repository.ts:198): repository.ts:198 says approveProposalForCommand stores 'a human approval decision without executing the proposal'. When it wins against an accept that already inserted the row, the losing accept compensates only for 'rejected' and 'failed' (apply.ts:615), so the row stays, and the later proposal.apply fails on the unique applied_from_proposal_id.
- `AppliedRowIsTheDecision` (`Proposal_creates`, proposals/apply.ts:412): apply.ts:446-447 calls the payload 'actually applied: this call's human edit', and apply.ts:411-412 says the flip stamps it as the decision's. If another drive inserted the row from a different payload first, the insert returns that row unchanged (work-items.ts:306-320), and the flip still stores this call's edit in edited_payload.
- `UndoneMemoryIsRetracted` (`Proposal_updates`, proposals/undo.ts:305): undo.ts:293-294 says of the captured memory 'Leaving it active would inject a now-false decision into retrieval, which is worse than having captured nothing'. The capture runs after the flip in a separate statement (apply.ts:651-659), so an undo that runs in between retracts nothing and the memory is created active afterwards.
- `EditedAcceptIsCaptured` (`Proposal_creates` with `Rationale = {}`, proposals/capture.ts:59): capture.ts:49-50 says 'An edit counts even when unexplained'. shouldCapture looks at edited_payload of the proposal as loaded before the flip (apply.ts:652), which is null while a proposal is pending: the edit of this accept never counts.
- `RepliesAreToLiveMessages` (`Log_conversation` with four keys and `MaxSeq = 4`, collaboration/repository.ts:271): docs/work/2026-08-07-collaboration-authority-contract/plan.md:137 says of replies, edits and tombstones that 'already-deleted, or wrong-kind targets fail without mutation'. The reply check (repository.ts:267-277) looks for a tombstone on that very version only, so once a message was edited and the edit deleted, a reply to the original version is still accepted.
- `NextIsFresh` (`Backfill_repeated`, collaboration/backfill.ts:171): docs/work/2026-08-07-collaboration-authority-contract/plan.md:54 requires a 'monotonic `next_sequence`' ahead of the events. sequence_advance updates conversations in the same statement that inserts the row, so it does not see it: next_sequence stays 1 while the imported events hold sequences 1 to n, and every append allocates a sequence the unique index refuses, until the backfill is run again.
- `HistoryIsComplete` (`Backfill_repeated`, agent/threads-repository.ts:195): threads-repository.ts:179 says a thread's history is 'its COMPLETED runs' deltas'. Once the thread is mapped to a conversation only conversation_events are read, and the runtime writes transcripts to agent_runs only, so a turn that completes after the backfill is missing from the history.
- `DefersOnce` (`Memory_versions`, proposals/apply.ts:372): apply.ts:413-415 says of concurrent accepts that 'only one flip matches `pending` (the rest -> `not_pending`, harmless - the write deduped to one row)'. A deferral has nothing that dedupes it: after a person reactivates the memory, the losing accept parks it again and answers not_pending.
- `CompensationIsScoped` (`Memory_versions`, proposals/apply.ts:621): apply.ts:617-619 says of the compensating delete that it 'is precisely scoped and cannot touch anything else'. memories are visible and can be superseded as soon as the accept has written them; the delete then nulls supersedes_id of the successor (0010_memory_brain.sql:76, on delete set null), and its root_id names a row that is gone.
- `SameTeam` (`Workboard_races` without its bound `NoMove`, domain/work-items.ts:412): work-items.ts:402-403 says 'A Task and its parent must share a team, so an item in a hierarchy cannot change team on its own'. The check for sub-items is a read before the write, so a sub-item that arrives in between is stranded in the old team.
- `StatusOfTeam` (`Workboard_races`, domain/work-items.ts:425): packages/db/src/schema.ts:426 calls status_id 'The workflow state (mandatory), one of the owning team's `statuses`'. updateWorkItem checks a status only if the patch names one: a patch of team_id alone moves the item to the new team with a status of the old one.
- `ApplyAnswersAlike` (`Ledger_retries`, domain/work-items.ts:516): docs/work/2026-08-12-agent-native-control-plane/decisions.md:32-33 says 'same-input replay returns the original terminal result'. The ledger stores the version after the one updateWorkItem read (work-items.ts:516), while an applied proposal without target_version is fenced by values only and increments whatever version is there, so a replay answers another version than the first answer did.

## What is proved

The proofs are checked for all values of the constants, under the named assumptions of
the modules (sets of requests that do not overlap, `None` outside the data, bounds that
are natural numbers). None of them bounds the number of requests, proposals, items,
memories or events.

- **Proposals.** `ProposalLifecycleProofs` proves `TypeOK` together with *RequestsKnow*
  (what a request holds in its registers fits its step: an accept past its load has a
  proposal, one that writes an update has a snapshot). `TypeOK` alone is not inductive,
  because `UpdateRow` reads `cur` and `pay`. Its second part strengthens it by
  *PastWriteKnows* and *RowIsOwned*: an accept past its write knows that the row exists
  unless a decline removed it, and a row of a declined create has an owner. From these
  follow `AppliedCreateHasRow`, `DeclinedRowIsOwned`, `OneWinner`, `MemoryOnlyIfApplied`;
  the two action properties follow from the fences of the two UPDATEs. Its last part maps
  every step to a step of `ProposalDecision` or a stutter (`DecisionRefined`).
- **Conversation log.** The counter is ahead of every event and every smaller sequence is
  taken: from this come `Sequenced`, and `OneChain` with the target check. The page of a
  poll is a prefix of the events after the cursor, for any page size, which gives
  `CursorMissesNothing`. A key names one event (`Sequenced`), which gives `Replayable`.
  `BoardIsImplemented` maps every step to a step of `MessageBoard` or a stutter. The mapping
  sends an event to the root of its chain, a recursive function over the log: `RootIs` shows
  that it exists, because every target is smaller than its event, and `RootStays` that an
  event which comes last leaves the other roots alone. With *Linked* (every edit and tombstone
  has a target) and `OneChain` the chain of a message is a line (`ChainIsLine`) with one last
  event (`OneLast`), whose text is the message's; a new event joins one line at its end
  (`VersionsGrow`), which on the board is a post, an edit or a deletion (`BoardGrows`).
- **Backfill.** *ThreadInv* says that an imported message has the place its run has among the
  imported runs, and that what a backfill has read contains these. The step that matters is a
  repeat: if none of its sequences is in use, all runs it adds come after all that were
  imported (`NoneIsLate`), since the first missing run would otherwise take the place of the
  imported run that follows it. Hence `ImportedInOrder` and `ImportsAreCompletedTurns`, for
  any number of runs. `RunsAreLinked` follows from the stronger fact that once there is a
  conversation every run whose INSERT has begun is linked or in `raced`; it exempts a run only
  if that INSERT overlapped the statement that committed last.
- **Memory chains.** Every step changes the rows in one of five ways (a create, a
  supersession, a restatement, a compensating delete, nothing), and each invariant is kept
  by each way. That needs four facts beside the types: ids are minted once and roots with
  them (*Minted*), the row of a created proposal has no predecessor (*Sourced*), an accept
  under way has a proposal that was drafted (*Underway*), and that proposal a target
  (*Targeted*). `TakesEffectOnce` needs *Spent* as well: once a supersession or a retraction
  has landed, its target is out of the states the command accepts, for good, so a second
  accept finds it stale.
- **Tree of work items.** `ParentCyclesAreRaced` says that on every cycle of parents lie two
  items whose rows were written by UPDATEs that overlapped. The guard refuses a parent among
  whose ancestors the item is, in its snapshot. *Guarded* keeps what it found until the
  UPDATE commits: there is a set without the item that holds the parent of the new parent and
  of each of its members, except of those whose rows were written since (`late`). A new
  cycle passes through a row in `late`, and that pair is raced, or stays in the set and never
  comes back to the item, so an older cycle lies in it (`GuardBreaksCycles`). That an item is
  not its own parent comes from `CheckKids`; the guard does not refuse it.
  `DepthIsTrue` needs no guard: one statement writes parent and depth.
- **Dependencies.** `CyclesAreRaced`: take a cycle with the new edge. If its INSERT saw all
  the others, the walk it refused by gives a set of items that is closed under them and
  lacks the edge's source; the edges that start there go on for ever without the new one,
  so an older cycle lies in them. If it missed one, that edge's INSERT, which committed
  before, cannot have seen the new edge, and the two overlapped. It needs that a snapshot
  holds committed edges only, each from the one request with its id (*Committed*).
  `NothingVanishes`, for any number of clients and removals, needs two facts more. Ids are
  used once, so an edge that was added and deleted does not come back by an insertion that is
  still under way (*DrawnWereAdded*, `AddedOnce`); and a removal that found its edge has
  deleted it for good (*FoundAreGone*), so a success hides only what the server lacks.
- **Command ledger.** The invariant adds that an applied proposal says so (*Closed*), that
  the item is past the version of every update in the ledger (*Passed*), that a version a
  try has read lies between the one it names and the item's (*Reading*), and that a
  successful answer is the one stored for its own request (*Backed*). *Reading* is why the
  stored and the returned version of an update agree; a `proposal.apply` has no version to
  be pinned by, and `ApplyAnswersAlike` fails.
- **Meeting ingest.** *NothingForgotten* adds to the ledger's exactness what every call
  still owes: all it read is in the ledger or in its `todo`. The rewriting of the records by
  the meeting API is an arbitrary step (`Rematerialize`), and `PipelineImplementsIngest` shows
  that every step of the meeting is such a rewriting, so the theorems hold of the pipeline.
- **Chapters.** For any transcript whose utterances take time. Where the loop stands after
  `n` turns is a recursive function (`IterationExists`), and an induction is the statement
  that a set of naturals which has 0 and all successors is `Nat` (`SuccessorsReachAll`).
  `LoopEnds`: each turn but the last takes the loop at least a shortest chapter further. *LoopInv*
  says that the chapters built so far are numbered, lie before `from`, and that every utterance
  that begins before `from` is in one of them; with `LoopEnds` this gives
  `ChaptersCoverTheTranscript`, and with the deduplication of the records
  `OneRecordPerUtterance`, both for every transcript and without regard to how it came about.
- **In order, proposed once.** `ProposedOnceInOrder` compares two rewritings. *Paired* runs
  the loop over a transcript and over a longer one whose other utterances begin and end no
  earlier, turn by turn: both cut the same chapters until the shorter one has nothing left
  (`PairedTurn`), so an utterance that has a record in both has the same one (`SameRecord`).
  *InOrderInv* says that as long as nothing came out of order, all records met so far were
  generated from transcripts that are beginnings of one another and of the present one.
  That utterances must also *begin* in order came out of the proof: one that is stored later,
  begins in a silent window and ends last gives that window a chapter, and renumbers the ones
  after it.
- **Agent core.** `Inv` says which call is awaited in each phase of the loop and that a call
  which runs unawaited belongs to the step that ended the plan (*NoStrayCall*): hence no
  two calls overlap, and what may still take effect is not repeated. `PlanKeepsItsContract`
  maps every step to a step of `TaskContract` or a stutter, for any dependencies, cyclic
  ones included.

- **Review inbox.** *SelectionInv*: nothing can be selected before a load has succeeded
  (*NothingBeforeTheList*); the link effect is due whenever the link has not been applied
  (*LinkIsWatched*); what was asked for is selected, or the pane is empty and held by that
  link or waiting for it, or the link is about to be applied (*AskedIsServed*). From it
  follows `OnlyAsked`, which exempts a proposal that the facet has hidden (`hidden`): the
  screen's effect then selects the first visible row, as `LinkIsHonoured` shows. *ListInv* says that one load counts at a time, that what it read is
  newer than the list, and that whatever it lacks of the list has been decided, which gives
  `NothingReturns`.

`BoardHasTreeAndGraph` carries the theorems of the tree and of the dependencies over to the
composition: each step of the workboard is a step of the tree and one of the graph, or leaves
it alone.

Theorems that no run repeats: `OneWinner`, `OneCommandPerVersion`, `LedgerMatchesProposals`,
`ResultsAreOfCompletedSteps`, `LoopEnds` and the type invariants.

Only model-checked: the liveness properties `RejectionWins`, `Terminates` and
`ToldDisposalsLeave`, since fairness and ENABLED are out of the prover's reach. Every other
property of a passing run is a theorem. `RecordsAreGenerated` (`MeetingPipeline`) only says
that the constant `Records` is large enough for the ids that a rewriting generates.

## Plan

Done, in this order: proposals (core), conversation log, backfill, memories, tree of work
items, command ledger, meeting ingest and pipeline, agent core, review inbox,
dependency graph and its drawing, and the workboard that composes it with the tree. Left:

- Optimistic edits of a row of the workboard (use-work-items.ts:224-271). Two edits of a row
  may overlap, as its cells stay editable: the first to settle removes the saving cue of
  both, and a rollback shows the whole row as it was before its own edit.

Seen in the code on the way, and not stated as properties: meeting-web ends a recording with
"completed" (App.jsx:679) while the API finalizes on "stopped" only (server.py:1994), so a
finished meeting is rewritten by a later chunk at most; an error after the segments are
committed answers 500 and the client does not send the chunk again; a tool that throws
"Execution cancelled" is taken for a cancellation; a retry looks at neither the deadline nor
the cancellation before it calls the tool; a card that is unmounted before its answer does
not signal the disposal (use-proposal-actions.ts:99).

## Not modelled

Ranking and embeddings (order is a score), the curator (pure scoring; its only effect is a
proposal), token verification, checks, projects, teams, statuses and owners (one guarded
statement per request), contracts and SDK (types and wrappers), the Hocuspocus server
(configuration of a library), rendering and transcription, the other hooks of the web
(they load again after every request, or disable their control while one is under way; the
edits of a row are in the plan), the archived roadmap web, and delivery scripts. `PROJECT.json` names the reason for each.
