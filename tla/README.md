# Verification of the Ovrlap backend

Ovrlap tells two sales people which accounts they share. Its backend is a
NestJS server over Postgres (Prisma), with Twilio for texts and a mail
provider. This directory holds TLA+ models of it, the TLC configurations that
check them and theorems proved with TLAPS. Paths below are relative to the
repository.

Two facts about the code shape every model:

* **Each awaited Prisma call is one statement, and a handler is a script of
  them.** The deletion of an account, each write of consent with its log, and the
  rows of one batch of notifications are transactions and one step each; there are
  no locks. What a handler has read
  may be stale when it writes, so in the models a request in flight carries what
  it has read, and one statement is one step. Steps of any two requests
  interleave.
* **The process may stop between two statements.** Rows stay and requests are
  gone. A `Restart` action does this where something is left behind; where a
  request holds no resource, a request that never moves again is the same thing.

## Inventory

| Part | State | Operations | Hard behaviour | What makes it correct |
|---|---|---|---|---|
| Account activation (`auth`, `users`, JWT guard) | `users`: email, number, `phoneVerified`, `pendingSignupSince`, code | signup, reclaim of abandoned signups, set number, request code, verify, login, change of profile, deletion | look up, then delete or write by id; two verify paths, three paths that set a number | an account that activated before the look-up is not reclaimed; the marker tracks activation; a code is for the stored number; a verified number was proved; one account per number |
| Phone codes (`auth`, `users`) | code, expiry, attempts, window, last sent | send, resend, change of number, verify | text first, store afterwards; attempts read and counted in two statements | bounded guesses for each code; screen and check agree; no lockout |
| SMS consent (`sms`) | `smsConsent`, `smsOptedOut`, `sms_consent_events` | grant, grant if missing, withdraw, STOP, START, gate of each send | the gate, the number and the text are apart; consent is for a number, flags are for an account | no text without a grant for that number; STOP is undone only by START; STOP is never a dead end |
| Password reset (`auth`) | reset code, expiry, attempts, last sent | request, reset | store, then text, then burn; the password and the burn are two writes | bounded guesses; a spent code is spent; a forgotten password can be reset |
| Connections (`connections`) | `connections`: status, mutes, last observed count | request, accept, delete, mute, unmute, list | two rows for one pair; baselines computed from a stale reading | both sides agreed; a mute ends only by an increase or by its owner |
| Invitations (`invites`) | `invites`: status, expiry | send, validate, accept, revoke | connection and mark in two writes; daily limit by count then insert | accepting connects; a link never spends itself for nothing |
| Account lists (`account-lists`) | `account_lists`, `accounts` | upload, update, publish, delete | archive then activate; delete then create; a status read before the accounts change; background re-map | the list published last is the one served; races leave a bounded mess that the next publication clears; every change of what is served is counted |
| Match decisions (`matching`) | `account_match_decisions` | decide, resolve for the current accounts | ids change with every update, names are all that is left; each user resolves with sides swapped | both users read a decision as being about the same accounts; it follows its names |
| New overlaps (`matching`, `account-lists`) | observed count, `observed_overlap_notifications` | all matches, decide, re-map, announce | reads of several tables, then compare-and-set on the count, claims by a unique index | told by one discovery at most; nothing discovered goes unclaimed; the count catches up |
| Matching of names (`common/utils`) | none | `findMatchedAccounts` | greedy in four passes, depends on who asks | each account matched once; nothing left over; decisions respected; a decision moves the count by one at most |
| Notifications, email, gateway, health, configuration, parsing | a log of rows; none | push, send | -- | -- |

They interact through the rows. Signup records consent and texts through the
consent gate and the throttle; STOP and START write flags of accounts that hold
a number; accepting an invitation creates a connection; a connection relates two
active lists, and publishing a list re-maps every connection of its owner in the
background; a look, a re-map and a decision announce new overlaps with the same
code (it exists twice, in `matching.controller.ts` and
`account-lists.service.ts`); muting writes the count that those compare.

## The modules

One module models one group of columns and every writer of them.

| Module | Models | State |
|---|---|---|
| `AccountActivation` | signup to deletion, all accounts | `row` is the `users` table; `session` the users for whom a token was ever signed; `req`; `woke` a history: who activated between the look-up and the delete of which signup |
| `PhoneCode` | the code of one account and its throttles, in ticks | `acct` the columns (times as ages); `guesses` a history |
| `SmsConsent` | flags, log and gate of every path that texts | `acct`, and of the log the latest event of each number and the latest grant of each user (all that is ever queried); `granted` (what the search of the whole log finds); `halted`, `overtaken` histories: which consent a STOP or a withdrawal ended, and which requests one of these found past the flags |
| `PasswordReset` | the reset code of one account | `acct`; `texted`, `guesses`, `resets` histories |
| `Invites` | connections and invitations | `conn`, `invite` the two tables; `offered`, `taken`, `met` histories |
| `OverlapNotifications` | one accepted connection: lists, decisions, mutes, observed count, claims, notifications | `list`, `decision`, `row`, `claimed`, `told` (how often); `hushed` (discoveries that ended a mute), `owed` (discovered and still to be claimed) histories |
| `AccountLists` | uploads, updates, publications and deletions of one user's lists | `status`, `newer` (which active list was updated after which), `rows` (batches of accounts); `published`, `unserved`, `unwritten`, `stale`, `missed` histories |
| `MatchDecisions` | the decisions of one connection, and which accounts they are found to be about | `accounts`, `version` (with a position, an id), `rows`, and the row a request is about to write |
| `AccountMatching` | `findMatchedAccounts`, run by both users for the same lists and decisions | `level` (what comparing each pair of names says), `decisions`, and `pass`, `at`, `result` of each user's computation; `before`, `last` histories |
| `SharedAccounts` | puts the last three side by side | `flow` says which one runs |
| `TextedCodes` | puts `PhoneCode`, `PasswordReset` and `SmsConsent` side by side | `flow` likewise |
| `Recovery` | composes `PhoneCode`, `PasswordReset`, `SmsConsent`, `Invites`, `OverlapNotifications`, and states what trying again repairs | `flow` likewise |
| `OneTimeCode` | abstract: what a texted code promises | `code`, `misses`, `crashes` |
| `TellOnce` | abstract: what the notifications of new overlaps promise | `claimed`, `told` |
| `..._proofs` | theorems about the module of that name; those of `TextedCodes_proofs` are about `PhoneCode` and, carried over from their proofs, `PasswordReset` and `SmsConsent`; those of `SharedAccounts_proofs` about `AccountLists` and `MatchDecisions` | |
| `MCMatching` | the greedy assignment as one operator, which gives `OverlapNotifications` its parameter `Matching` in the runs | |
| `MC...` | constants, bounds and symmetry of the instances | |

Three modules are there to put others side by side, not to make them interact. Each of
their parts writes its own columns, what one part takes from another is a free choice in
it (any answer of the consent gate, any served accounts, any resolved decisions), and so
one part runs in each behaviour and the others stay as they started. Where the code of
two parts does interleave on the same rows, the parts are one module: connections and
invitations in `Invites`; lists, decisions, mutes, count and claims of a connection in
`OverlapNotifications`; signup, activation, profile and deletion in `AccountActivation`.

Actions carry the names of the handlers. `req[r]` is a handler in flight: where
it is (`pc`, or `todo`, the statements left) and what it holds in local
variables. A guard that throws ends the request. A handler that is a line of
statements is given by `Script` (in `SmsConsent`, `OverlapNotifications`), the
statements shared between handlers being one action each.

What the models leave out on purpose:

* `AccountActivation` keeps no passwords or onboarding answers, and no email
  links of the older flow. Emails are compared as the code stores them,
  lowercased before they reach the model. The pending marker is `none`, `fresh`
  or `stale` (older than the time to live), and time makes fresh ones stale.
* `SmsConsent` and `Invites` keep their users: deleting an account deletes its
  rows by cascade, and is modelled in `AccountActivation`. The webhook's text is
  already a keyword.
* `OverlapNotifications` takes an overlap to be what the code does: a pair of accounts
  that the viewer's matching resolves. What `findMatchedAccounts` returns is the
  parameter `Matching`, one result for each viewer, pair of lists and decisions, of
  which the module assumes only that it pairs listed accounts and none of them twice
  (`OneToOne`, proved of `AccountMatching`). So the two users' counts may differ. Several
  accounts may have one normalized name; claims know names only, while a notification is
  created for every pair whose names were won. The claim of a pair that was accepted
  has the names its decision stored, in the code, and those of its accounts in this
  model: which accounts a decision is about, and under which names it would be announced,
  is `MatchDecisions`. A handler reads the lists and the decisions one after the other;
  the code sends these queries together, and of the orders in which they may be
  served the model takes one for each path.
* `AccountLists` keeps of accounts only the batch of the `createMany` that wrote them,
  which may also be given none (nothing in the upload or the update forbids an empty
  array) or fail.
  `updatedAt` is an order; two activations in one millisecond are not told apart.
* `MatchDecisions` takes names as the code normalizes them and `Score` as the
  similarity of two of them. `setMatchDecision` has one slot, since requests of
  several users meet in one upsert only. The code resolves decisions in two copies
  (`matching.controller.ts`, `account-lists.service.ts`) that are alike and are
  modelled once.
* `AccountMatching` is given what each comparison says as a level of confidence that
  does not depend on who asks. `jaroWinkler` pairs letters greedily and might say slightly
  different things of (a, b) and of (b, a) in rare cases, which are outside the model. Pairs
  of accounts with equal names compare alike (`Consistent`).
* Twilio's answer, the consent gate in `PasswordReset` and `Invites`' clock are
  free choices. The mail functions answer a boolean nobody acts upon, so mail is
  not there.

## The runs

| Run | Instance | Shows |
|---|---|---|
| `activation` | 3 accounts (1 legacy), 2 emails, 2 numbers, 2 requests | `MarkerTracksActivation`, `CodeMatchesNumber`, `ReclaimTargetsAbandoned` |
| `texted_codes` | 2 requests, 3 codes, 2 attempts, 2 sends in a window of 3 ticks, 1 crash, for each kind of code; consent: 1 user, 2 numbers, 1 request, 1 crash | `GuessesPerCodeBounded`, `OutstandingIsAccepted`, `ReplaysOnlyInFlight`; both kinds implement `OneTimeCode`; `TextsAreBackedByGrant` |
| `invites` | 2 users, 3 connection ids, 3 invitations, limit 1, 1 crash | `BothSidesAgreed`, `AcceptedInviteHasConnected`, `DailyLimitBounded` |
| `shared_accounts` | lists: 3 lists, 2 requests, any crashes; decisions: 3 names against 1, 2 accounts against 1, 2 rows, 2 replaced lists; matching: 2 accounts on each side, every table of 5 levels, 2 rows of decisions | see below |
| `overlaps` | 2 accounts of one name against lists of 2 of that name, or of 1 and a similar one; 2 requests, 2 changes, failures or crashes | `ToldAtMostOnce` (implements `TellOnce`), `DiscoveredIsClaimed` |
| `recovery` | each flow with one request at a time and a crash; overlaps with two requests, and lists that the two users count differently | `NumberCanBeVerified`, `PasswordCanBeReset`, `ConsentCanBeGivenAgain`, `InvitationCompletes`, `ObservedCountCatchesUp` |
| `duplicate_numbers`, `reclaimed_activated`, `unproved_number`, `stop_undone`, `accepting_connects`, `muted_told` | as above | see Findings |

Each passing run also checks the module's `TypeOK`. `shared_accounts` checks

* of the lists: `LastPublishedIsServed`, `RacesStayBounded`,
  `UpdatesNeverEmptyAList`, `ChangesAreCounted`;
* of the decisions: `MirroredViews`, `DecisionFollowsItsNames`,
  `SameFileChangesNothing`;
* of the matches: `OneToOne`, `NothingLeftOver`, `DecisionsBind`,
  `ViewsDifferBoundedly`, `AcceptingASuggestionAdds`, `RejectingShiftsByOne`.

Why the bounds are enough to be interesting:

* *Two requests* are the races of the code: every hazard listed is one handler
  acting between two statements of another. A third adds contenders for the
  same write, not a new kind.
* *Three accounts* are the holder of an email, the holder of a number and the
  newcomer that reclaims both. Two numbers and two emails make a change possible.
* *Three codes* are the stored one and one in flight for each request. A name is
  free again when nothing holds it, so any number of sends is covered. Real
  limits (5 attempts, 60 seconds, 10 minutes, an hour) become 2 attempts and 1, 2
  and 3 ticks: their order is kept, cooldown < expiry < window.
* *`MaxLatency`* is longer than the window, so a slow text is stored after
  everything has expired.
* *Three ids of connections and invitations* are two alive and one that a
  request still names; ids are reused when nothing names them.
* *One request about consent* at a time: STOP and changes of number interleave with its
  statements as actions of their own, and START, withdrawal and agreeing again come
  between requests. Two such requests of one user are 1.6 million
  states without a new kind of step, and `TextsTheorem` covers any number of them.
* *Two changes* in `overlaps` publish a list without an overlap and with it again,
  or mute and publish. Looks and openings of the connections page are unbounded.
  At first each user has one of the lists that hold accounts (`MCInit`), and a crash or
  a failed statement counts as one of the changes. Two accounts of one name on both
  sides are two pairs for one claim of each user.
* *The overlaps of `recovery`* start from any lists, published or not; the other flows
  leave them empty. In the instance the sender's first account takes the
  partner that was left for the second, and the sender counts 1; the receiver's first
  account takes another, and the receiver counts 2.
  One request makes the change there is, the other only looks (`OnlyLooks`);
  decisions are about the pair that only one of the users matches (`OnePair`); and
  claims are made in one order and without interruption (`ClaimsInOrder`): no count
  depends on them.
* *Three lists* are the one served and one for each of two publications. *Three
  names* on one side give an exact name, a similar one and a less similar one.
  Two lists replaced are one before and one after a decision is written.
* *Two accounts on each side* with five levels (nothing, suggested, two automatic ones, equal) are
  enough for an account to be taken by a worse partner, for the two users to count 1
  and 2 -- this needs both automatic levels; with one, their counts agree on lists of this
  size -- and for a rejection to set off another match. Of tables
  that differ only in which automatic levels they use, one is taken
  (`NoLevelSkipped`). The theorems cover every size.

The sets under `SYMMETRY` are of interchangeable values: no property or action names
one of them, and no `CHOOSE` ranges over them. `recovery` checks liveness and uses no symmetry; the
temporal properties of the others are safety (`[][A]_v`, and implications of a
specification without fairness).

Deadlock is checked everywhere: somebody can always start a request.

## Liveness and fairness

`Recovery` assumes for each flow what the code's scheduling and a person justify:

* weak fairness of each step of the server (`Serve`): Node finishes what it
  started, between crashes, which are finitely many;
* weak fairness of time (`Tick`);
* strong fairness of the user's own action: somebody who is again and again able
  to ask for a code, to enter the right one, to reply START, to agree, to follow
  the link or to look, again and again does. Strong, because a cooldown or a
  request already in flight disables it in between;
* strong fairness of the outcomes `TextDelivered` and `AssertMaySend` in the
  password reset: Twilio does not fail, and consent is not missing, for ever.
  Without them no reset can be promised.

The first four flows have one request in flight at a time: the question is whether
trying again helps, and an opponent who requests codes for ever in parallel can keep any
throttle closed. Two sends, or a burn and a send, that overlap are in `texted_codes`,
which is about safety.

The overlaps have two requests, so that the count a look stores races with that of another
look, a mute, a decision, a re-map or a deletion. `ObservedCountCatchesUp` asks both
users to keep looking and lets nobody see the count when both muted the connection or one
has no list: this is what `getAllMatches` does. It promises that the stored count comes to be
a count of one of the two users and stays so. It does not promise that it settles: where
the two count differently each look stores its own count, for ever.

## What holds and why it is not obvious

* `MarkerTracksActivation`: the profile's verification does not clear the marker
  that the activation's clears; the invariant shows it is never reached by an
  account that still has one.
* `CodeMatchesNumber`: three paths store a number and two store a code late; a
  code is stored together with its number, so that the row is right even when the
  handset holds another code.
* `ReclaimTargetsAbandoned`: what a signup is about to delete was abandoned when this
  very signup looked it up, whatever other signups, number changes and verifications
  came before. The one exception, kept in `woke`, is an owner who activates between
  the look-up and the deletion by id; `ReclaimSparesActivated` has no
  exception and fails (see Findings).
* `GuessesPerCodeBounded`: the limit of attempts is soft, and by how much is
  exactly the number of concurrent requests and crashes.
* `ReplaysOnlyInFlight`: `updatePassword` clears the code in the write that
  changes the password, so a crash before the burn leaves nothing to use.
* `PhoneCodeIsOneTime`, `ResetIsOneTime`: the two flows store, count and clear in
  different orders and share one abstract code. What races with a guess -- a late
  store, a late burn, a late count -- never gives a code more guesses than the
  limit, plus what the requests in flight had read before.
* `TextsAreBackedByGrant`: the account has agreed to the number that is texted and no
  STOP or withdrawal has ended that, START or not, on each of the five paths: signup, the
  activation screen, the profile, `POST auth/phone-verification/send` of a session, and
  the reset. The last two write no consent of their own and do not ask
  `isNumberStopped` either: the gate's two reads, the flags and the latest grant, have to be
  enough, although STOP clears the flags of the accounts that hold the number then and of
  no others. The exception, `overtaken`, is a STOP that comes after the flags were read. It
  says nothing of a number that replied STOP while nobody held it: such a STOP is in the
  log only, and the session's path, the activation code and the reset do not look there.
* `ToldAtMostOnce`: claims are inserted one at a time under the unique index and a
  request tells only what it won itself. A request that crashes leaves its claims
  untold for ever, which `TellOnce` allows: it promises at most once. Where names
  occur twice in both lists, the one batch that tells of a pair of names holds a
  notification for each pair of accounts of these names (`Copies`): the claims are deduped, and
  the candidates that are delivered are not.
* `DiscoveredIsClaimed`: an increase that is stored puts all current overlaps without a
  claim into `owed`, for both users, muted or not; when the requests are done nothing is left
  there, but for what a crash or a failed statement cut short. It speaks of increases because
  the code does: an overlap that replaces another at an equal count, or that a mute or the
  baseline of a first decision counted, is not discovered and so not announced, unless a
  later increase takes it along. Nothing in the repository promises otherwise.
* `LastPublishedIsServed`: readers take the active list updated last, so that even
  two publications that both end up active serve the later one. The exceptions
  are in `unserved`: the list was deleted, or a publication broke off between archiving
  the others and activating its own. After a race the list that lost stays active
  underneath and is served again when the winner is deleted.
* `RacesStayBounded`, `UpdatesNeverEmptyAList`: two updates may leave the accounts of
  both in a list, never of none: each deletes before it creates. A list without accounts
  is one whose last `createMany` was given an empty array, failed, or did not run because
  the process stopped (`unwritten`); that the delete of another update emptied it is
  excluded.
* `ChangesAreCounted`: an update that had read its list as a draft does not count
  again though the list was published since; the publication's own count may come
  before the accounts do. That is the exception `missed`.
* `DecisionFollowsItsNames`, `MirroredViews`: ids are taken only when both accounts
  still exist and names only when not, for both sides together. A decision whose
  names are gone moves to the most similar names, alike for both users.
  `SameFileChangesNothing` needs lists without duplicate names: with them, a decision on the
  second of two accounts of one name moves to the first when the file is uploaded again.
* `NothingLeftOver`, `ViewsDifferBoundedly`: the passes end maximal, not
  maximum; two maximal matchings of the same pairs differ by a factor of two at
  most, and the bound is reached.
* `DecisionsBind`: a rejection does not undo an acceptance of the same names made
  before the accounts were replaced, which is why it exempts accepted pairs.
* `RejectingShiftsByOne`: what a rejection sets free may pass along a chain of
  accounts, and the count still moves by one.

## Findings

Six runs check what a comment or a test of the repository says and find a
behaviour of the code that is otherwise; each counterexample is short.

* `duplicate_numbers`: the profile stores a number without looking up its holder;
  two accounts verify the same one (`auth.service.ts:95-96`).
* `reclaimed_activated`: a signup finds an account abandoned, its owner enters the code and
  is signed in, and the signup deletes the account by its id
  (`auth.service.ts:163-166`).
* `unproved_number`: `setPhoneVerified` writes by id after the check of the code;
  a change of number in between, a code texted to another number included, leaves the new
  number verified though nobody entered a code that was sent to it
  (`auth.service.ts:548-550`).
* `stop_undone`: a signup with a number that replied STOP records consent over it
  (`users.service.stop-guard.spec.ts:14-15`).
* `accepting_connects`: accepting an invitation while a request between the two is
  pending leaves it pending (`invites.service.ts:222`).
* `muted_told`: the connections page ends a mute without claiming the overlap that
  ended it; the re-map that follows tells the user of it
  (`matching.controller.spec.ts:272-274`).

## Theorems

`AccountActivation_proofs` proves for every number of accounts, emails, numbers and
concurrent requests, from `ConstantsAssumption` alone (the two null values are
outside their sets; the legacy rows are the first ones):

* `TypeCorrect`: `Spec => []TypeOK`;
* `MarkerTheorem`, `CodeTheorem`, `ReclaimTheorem`: `Spec => []` of the three
  invariants of the run.

None of the three is inductive. The inductive invariant `IInv` adds

* `TypeInv`: a request past its look-up names an account;
* `UnbornHasNoSession`, `OnlyLiveVerified`: a row that does not exist yet, or no
  more, holds nothing -- creation would otherwise meet an old session;
* `ProfileHoldsSession`: who is in the profile's paths has a session, which is why
  the profile's verification may leave the marker alone;
* `PathOfStep`, `ReclaimTargetsBorn`: what a request about to delete has looked up.

`RowEffects` and `RequestEffects` say what any step may do to a row and to a request: an
account stops being abandoned only by being deleted or by an activation, which puts the
signups that wait to delete it into `woke`.

`InitTyped` and `StepTyped` prove the types. The preservation of each other
conjunct is a lemma with a case for each action. The lemmas on `Write`, `Begin`,
`Goto` and `End` say once what the four ways to move do. The induction is the last
step of each theorem, by PTL.

`Invites_proofs` proves, for every number of users, rows, invitations and concurrent
requests, from `InvitesAssumption` (the null values are outside their sets, the bounds
are numbers, invitations and requests are finitely many):

* `InvitesTyped`: `Spec => []TypeOK`;
* `AgreementTheorem`: `Spec => []BothSidesAgreed`;
* `AcceptanceTheorem`: `Spec => []AcceptedInviteHasConnected`;
* `DailyLimitTheorem`: `Spec => []DailyLimitBounded`.

Its inductive invariant says where each row and each request in flight comes from:

* `NamesRows`: the ids a request holds were read from rows, and rows of invitations are
  never removed;
* `Offering`: requests, invitations and connections between two users come from an
  offer of the first to the second, and nobody makes an offer to themselves -- without
  which accepting one's own request would count as agreement;
* `Agreeing`: a request that accepts acts for the users of its invitation, or of the row
  its receiver accepted. The row may be deleted meanwhile, but its id is not used for
  another: this is what `Insert` demands of the ids the database hands out (they are
  unique for ever), and it is what makes approving by id safe;
* `Meeting`: a row, and a request about to mark its invitation, connect two who met.

The lemmas `StepTyped`, `StepNames`, `StepOffered`, `StepAgreed` and `StepMet` have a
case for each action.

The daily limit needs `Limited`: for each user, the recent invitations and the
requests that have counted and not yet created one are together at most the limit
and all requests but one. Counting is refused at the limit, so a request that
starts finds less than the limit and waits with at most all the others; creating a row
is one request less.

`AccountMatching_proofs` proves for lists of every length, every table of
similarities and any number of decisions, from `MatchingAssumption` (no empty lists,
the numbers are numbers): `MatchingTyped` (`TypeOK`), `MatchesOneToOne`
(`OneToOne`), `MatchesMaximal` (`NothingLeftOver`), `DecisionsTheorem`
(`DecisionsBind`) and `ViewsTheorem` (`ViewsDifferBoundedly`). Its invariant adds

* `SuggestedLast`, `NamesMatch`: what a match of each type says of its pair;
* `TriedAreTaken`: what a pass has gone past is matched -- `NothingLeftOver` in the
  middle of a computation, where `Tried` says how far it is;
* `ReceiverWaits`, `AcceptedFirst`, `FromRows`, `SenderRows`, `ReceiverFollows`: the
  receiver's accepted pass takes exactly what the sender's took, row by row, since a
  row that the sender left out shares an account with one taken before.

`ViewsTheorem` follows from the others: every resolved pair of one user meets one of the
other's, and a pair has two accounts, each of them matched once.

`AcceptingTheorem` (`AcceptingASuggestionAdds`) and `RejectingTheorem`
(`RejectingShiftsByOne`) compare two whole computations, over the decisions before and
after the last one, so that the invariant has to remember what a computation did and
not only what it found. `Explained` adds

* `Greedy`: every position of the first three passes that was gone past took the best
  free one of the pairs its row offered (`TakesAt`), and `FoundBehind`: nothing else
  was taken;
* `SuggestionsFree`: what is suggested has both its accounts free of a match that counts;
* `BeforeExplained`: what both users had found before the last decision is a
  computation (`Complete`) over rows that this decision made into today's.

From there on the argument is about two results and no longer about steps. `Upwards` is
induction on the positions of a pass; `Lockstep` says that a relation between the pairs
taken so far which any two steps at the same position preserve relates the two results.
For an acceptance the relation is "the same, or the same and the pair accepted"
(`AcceptingStep`). For a rejection it is `Close`: the pairs that only one computation
has taken form one path, so that the accounts only one of them has matched are two at
most, the ends of the path; a pair taken by one alone moves an end (`RejectingStep`, with
`SameTaken`, `OneTaken` and `OtherTaken` for what the two steps take), and a path of
pairs that alternate counts one more for one side at most (`CloseCounts`).

`SharedAccounts_proofs` proves, from `PartsAssumption`, for any lists and finitely many
requests, what the run checks of `AccountLists`: `PublishedTheorem`, `RacesTheorem`,
`RefilledTheorem` and `CountedTheorem`. Three of the four are about requests at rest;
the invariant `ListsInv` says what they are in between:

* `Scripted`: what a request has left to do is the end of a script, and which
  ends these are depends on whether it counts the matches;
* `PublishedIsNewest`: the list published last is the newest active one, but while a
  publication is about to activate another, and but for the exceptions of `unserved`;
* `FewActive`: the active lists and those about to be activated are no more than the
  requests: only a publication that has archived all others adds one;
* `FewRows`: the batches in a list and the requests about to add one are no more than
  the requests, likewise;
* `Refilled`: a list without accounts has a request about to write them, or is one of
  `unwritten`;
* `Recounted`: a change not counted yet has a request that will count it.

`PartsTyped` proves the types of lists and decisions. Of `MatchDecisions` it proves
`MirroredTheorem`, `FollowsTheorem` and `SameFileTheorem` (an action property), for
lists of any length, rows and replacements. The invariant `DecisionsInv` says that a row
in the table, or about to be written, is `Backed`: an id of the current version of a
list is the id of an account of the name the row stores, and no id is of a version to
come. Without it a row could be found to be about another account that got its id. The
mirror image of a resolution, and the resolution in lists without duplicate names, are
lemmas about the operators.

`OverlapNotifications_proofs` proves from `OverlapAssumption` `OverlapsTyped` and
`ToldOnce`: the module implements `TellOnce`, for any lists, names and matchings of the two
users, and any number of requests. The invariant says of what a request has won: it
is claimed, told to nobody, and won by no other (`WonIsClaimed`, `WonIsUntold`,
`WonOnce`), what was told is claimed, and what a request announces is one matching
(`Matched`), from which `CopiesBound` bounds the notifications of one batch. Most
statements leave all that alone; the lemmas `Quiet...` say so, and
`ClaimSteps`, `Telling`, `Failing`, `Restarting` and `Emptying` treat the rest.

`DiscoveredTheorem` (`DiscoveredIsClaimed`) needs two more conjuncts. `AnnouncedInOrder`:
in what is left of every script, storing the count is followed by finding the candidates
and that by claiming them. `OwedIsDue`: whatever is owed is still to be claimed by some
request (`Due`), which is about to look for it or has it pending.

`SmsConsent_proofs` proves, with `ConsentAssumption` as a premise, `ConsentTyped` and
`TextsTheorem` (`TextsAreBackedByGrant`), for any users, numbers and requests. The
invariant is about the scripts and the flags: in each script a text comes right after the
query of the latest grant and that after the flags (`Gated`), however scripts are put
together; the number of a latest grant was granted (`GrantsAreLogged`); whoever stopped the
number of the latest grant has not consented since (`HaltedFlags`), which is what
makes the two reads of the gate enough; and `Backed` carries it from the flags to the text.

`TextedCodes_proofs` proves of `PhoneCode`, from `ThrottleAssumption`, `PhoneCodeTyped`,
`OneTimeTheorem` (the module implements `OneTimeCode`), `GuessesTheorem` and
`OutstandingTheorem`. The
invariant counts: attempts and misses on their way to be counted stay below the limit
and all requests but one (`AttemptsBounded`); each guess is among them or was lost in
a crash (`GuessesCounted`); a code on its way to the row is new (`NewInFlight`).

`PasswordReset_proofs` proves, with `ResetAssumption` as a premise, that the types hold,
that the module implements `OneTimeCode` (`ResetCodeTheorem`) and `ReplaysOnlyInFlight`.
It counts likewise, and also the resets: a code that counts
has changed no password (`CurrentUnspent`), and the resets of a code with those about
to happen are no more than the requests (`ResetsCounted`). `TextedCodes_proofs` carries
these three, and those of `SmsConsent`, to the specification that is run, where
`ResetAssumption` and `ConsentAssumption` are assumed and evaluated: `ResetTyped`,
`ResetIsOneTimeTheorem`, `ReplaysTheorem`, `ConsentTypedTheorem` and `BackedTheorem`. Its
lemmas `Same...` say that the two instances of a module are the same actions on the same
variables.

Every invariant and action property of the passing runs is proved. Only the liveness of
`Recovery` stays with TLC, since fairness and ENABLED are beyond the prover, and so do
the six runs that find a violation. The bounds of the runs (limits, times,
numbers of crashes, changes and replacements) are constants, and the theorems hold for
every value of them.

## Not modelled

* *Scores of similarity* and the normalization of names: floating point over
  strings. What is done with a score is modelled.
* *In-app notifications* (`notifications`): one insert for each notification, two
  updates that set `isRead`, and a push to the sockets that are open then. No handler
  of the server reads a notification back, and a push that nobody receives is not
  repeated: there is no state to get wrong. Whether a notification is created, and
  how often, is `OverlapNotifications`.
* *Email*: templates and a call; every function answers a boolean nobody acts upon.
* *Twilio's signature, test mode, credentials; health, configuration, parsing of
  files and of the webhook's text*: input and output without state.
* *The layout of answers* in `matching.service.ts` and the controllers.
* *Administration* beyond the deletion of a user: plain reads.
* Passwords, onboarding answers, and the email links of accounts older than the
  activation by phone.
* Effects between parts that are modelled as free choices: that the consent gate of a
  reset and of a code reads the flags of `SmsConsent`; that a deletion of an account
  removes its rows elsewhere by cascade.

## Plan

What the plan of this project named is done: activation, codes, consent, resets,
invitations and connections, lists, decisions, matching, overlaps, recovery, the two
abstract specifications with their refinements, and theorems of the safety properties
of all runs. What could follow:

1. `OverlapNotifications` with `AccountMatching` itself for `Matching`, and with the names that
   decisions store for claims, as `MatchDecisions` has them. The product is too large for
   TLC; the module's theorems hold for every matching, and `ViewsTheorem`,
   `AcceptingTheorem` and `RejectingTheorem` bound what the two users' counts do.
2. The hazards without a property, for which no line of the repository says what should
   happen: a signup refused after it deleted an abandoned account, a status of an invitation
   that is overwritten, a START from a number nobody holds, overlaps counted and never
   announced, and two decisions that come to be about one pair.
