# A TLA+ development of mailkey

`mailkey` is a Go library for MKDP1: a mail domain publishes a signed manifest of its
encryption key over HTTPS, and a sender that knows the key encrypts to it. The library decides
*which* manifest to trust. It fetches from the authority, compares the signer with a pinned
identity, remembers that a domain has ever spoken the protocol (the *capability latch*), and
holds mail rather than sending it in the clear when the latch is set and no key can be had.

This directory models the part of the library that keeps state: the peer store, the resolution
procedure that many goroutines run over it, what is observed about a domain and the queue that
pursues it, the resolver's sharing of fetches, the admission of untrusted observations, the
delivery of manifests and identity histories from the publisher through a shared cache to the
walk of the client, the issue log, and the views an operator sees. The modules are checked with
TLC on small instances; every safety property of the passing runs is also proved with TLAPS, for
all instances.

Line references (`service.go:634`) are to `src/peer/` unless a directory is given.

## 1. Inventory

| component | state it keeps | operations | models |
|---|---|---|---|
| peer transition rules (`peer/state.go`) | none: pure functions on a `Peer` | `Install`, `Observe`, `Reconcile`, `Fail`, `Forget`, `Usable`, `NeedsRefresh`, `Prunable` | `PeerState`; `Prunable` in `PeerHealth` |
| identity matrix (`peer/identity.go`) | none | `DecideIdentity`, `checkReplay`, `ApplyIdentity`, `ObserveDNSFingerprint` | `PeerState` |
| peer store (`peer/memstore.go`, `stored.go`) | records, latches, one mutex | one method per mutation, each under the mutex | `PeerState` (what a mutation does), `PeerService` (when) |
| outbound resolution (`peer/service.go`) | none of its own: locals of each call, across store and network calls | `ResolveForEncryption`, `ResolveAcceptingUnpinned`, `AddPeer`, `Refresh`, `Forget`, `ObserveDNS`, `ObserveHeader`; `resolve`, `followRotation`, `policyFailure`, `raise` | `PeerService`, `TrustAnchor` |
| background queue (`service.go` 98-176) | `pending` map under a mutex, a buffered channel, a `done` channel, a wait group | `schedule`, `worker`, `Close` | `BackgroundQueue`, `Discovery` |
| observation (`service.go` 178-299, `discovery/discovery.go`) | the rows of `Peer.Observations`, `Identity.DNSFingerprint` | `ObserveDNS`, `ObserveHeader`, `observe`, `scheduleIfBehind`; `ParseDNS` | `Discovery` (parsing of one record left out) |
| observation admission (`admission.go`) | `seen` map and token bucket under a mutex | `allowObservation`, `allowNewPeer`, `forget`, `sweepLocked` | `Admission` |
| resolver scheduling (`resolver/resolver.go`) | `inflight` map under a mutex, `sem` channel | `Resolve`, `ResolveIdentityChain` | `Resolver` |
| identity chain verification (`identity/rotation_verify.go`) | none: a loop over a document | `VerifyStatement`, `WalkChain` | `IdentityChain` |
| issue log (`issues.go`) | `Peer.Issues` | `CoalesceIssue`, `ClearIssue`, `raise` | `IssueLog` |
| publisher (`wellknown/wellknown.go`) | one snapshot per request, from the host | `ServeHTTP`, `serveIdentity`, `cacheSeconds`, `miss` | `Delivery` |
| proofs and documents (`identity/proof.go`, `rotation.go`, `resource.go`) | none | `WriteProof`, `Check`; encodings, signatures | `Delivery`, `IdentityChain`, by what they say |
| response validation, cache lifetime (`resolver/resolver.go`) | none | `fetch`, `ResolveIdentityChain`, `cacheUntil` | `Delivery`; by its range, `PeerService` |
| peer health (`peer/health.go`), self-check (`identity/selfcheck.go`) | none: views | `Assess`, `SelfCheck` | `PeerHealth` |
| address policy (`resolver/dial.go`), manifest codec (`manifest/`), parsing (`discovery/`), envelope and message (`envelope/`, `message/`), beans (`component/`) | none | parsing, encoding, cryptography, I/O | section 8 |

**How they interact.** A send calls `ResolveForEncryption`. It reads the record, returns a
fresh cached manifest, or runs `resolve`: read, choose a route (`authorityHint`), fetch through
the `Resolver`, read again, decide (`DecideIdentity`), and then write the latch, the identity
and the manifest, or refuse, as separate store calls. A change of signer makes `followRotation` fetch
the identity document and walk it (`WalkChain`). Conditions go on the record through `raise`.
Observations (DNS records, headers of inbound mail) pass `Admission`, are stored, and may be
`schedule`d for the workers, who run the same `resolve`. An administrator adds, refreshes,
forgets peers and sets policies at any time. At the other end a publisher renews, withdraws and
re-signs its manifest and announces successors, each request sees one snapshot of it, and HTTP
caches between the two keep manifest and identity document for as long as each response allows.

**What is hard.** Nothing orders these callers. The store is atomic for one call only, and
`resolve` makes seven or more with a slow network exchange between them, so two sends, a worker,
an observer and an administrator interleave at every store call; any store call may fail; the
authority may replay, reorder and withhold; contexts end while others wait on the same fetch;
the queue drops work when full and stops in the middle; and what must not go wrong is a matter
of several variables at different moments: the latch written before the pin, the cached
manifest signed by the pin, an error that a caller reads as leave to send plaintext.

**What makes each component right.**

- *Resolution*: a domain behind the latch, or under `require`, never yields an error the queue
  reads as permission for plaintext; a pin implies the latch; a pin moves along signed
  statements only; a pinned domain caches nothing its pin did not sign; neither the replay
  watermark nor the effective manifest goes back; a first contact is made directly.
- *Observation and queue*: what an observation leaves due is pursued until somebody has looked or
  said that nobody will; marks and queued work agree; Close leaves no worker; among disagreeing
  records none wins.
- *Delivery*: a body is never paired with a proof of another; what was replaced falls due for its
  refresh, and what has expired, was missing or is announced is seen as such, within known ages.
- *Admission*: its memory is bounded, it refuses only repeats, and records for strangers appear
  at a bounded rate.
- *Resolver*: one fetch for a key, the slots conserved, nobody given another's answer, everybody
  returns.
- *Chain walk*: only authorized moves, never an end on a withdrawn key, no dependence on order.
- *Issue log*: one row and one first occurrence for each condition until it is cleared.

`PROJECT.json` lists the hazards, each at its line, with the properties aimed at it.

## 2. Modules

| module | what it is |
|---|---|
| `PeerState` | operators only: records, the store's mutations, the identity matrix |
| `PeerService` | the specification of outbound resolution for one domain over that store |
| `TrustAnchor` | abstract: what the pin and the latch may do at all |
| `MCPeerService` | manifests, keys, succession and sightings for TLC |
| `PeerServiceProofs` | lemmas on the operators of `PeerState`; the inductive invariant of `PeerService`; what `PeerHealth` says of `PeerState`'s decisions |
| `PeerTrustProofs` | pin, watermark, route and cache of `PeerService`; its refinement of `TrustAnchor` |
| `BackgroundQueue` | `schedule`, `worker`, `Close` |
| `Discovery`, `MCDiscovery`, `DiscoveryProofs` | observers and workers over records, composed with `BackgroundQueue`; the proofs about both |
| `Delivery`, `MCDelivery`, `DeliveryProofs` | publisher, shared cache, resolver and walk, composed with `IdentityChain` |
| `PeerHealth` | operators only: health, pruning, self-check |
| `Resolver`, `MCResolver`, `ResolverProofs` | single flight, slots, contexts |
| `Admission`, `MCAdmission`, `AdmissionProofs` | repeats, token bucket, sweep |
| `IdentityChain`, `IdentityChainProofs` | the walk, and the pin over many walks |
| `IssueLog`, `MCIssueLog`, `IssueLogProofs` | coalescing, clearing, eviction, alerts |

`PROJECT.json` `map` gives the source lines of every definition. An operator that ends in a
description of a fault (`LeadUnchecked`, `EvictLate`) and is marked `Mutant` is the form a
plausible bug would give the definition after it; it is used by no specification and serves to
show that the property named for it in `PROJECT.json` can fail.

### PeerState and PeerService

A manifest is its id, so its issue time and expiry are functions of it; an identity key is its
fingerprint; time is a natural number. A record keeps `signer` beside each cached manifest: the
code does not store it, and it is there to say what a pinned domain caches. `intact` says whether
stored bytes still parse. `until` is auxiliary too: the cache expiry of what is stored. The code uses
it once, for `refresh_at`, and keeps the signed expiry.

`PeerService` models **one domain**: the store's mutex and map make domains independent, and
`service.go` holds no lock across domains. `call[c]` is the stack frame of one goroutine: a `pc`
named for what comes next and the locals the code carries (the policy of the first read, the
fallback, the route, the response, the peer read before the decision, the verdict). There is one
action for each store call, with its error branch as a disjunct, in the order of the code:

    lookup -> (cached) | check/route -> fetch -> decide -> latch -> identity
           -> install -> clear                                 accepted
           -> chain -> move -> move-install -> move-clear      followed a rotation
           -> refuse -> refuse-issue -> answer                 refused
    any error of a send -> policy -> done

The walk of the identity chain is the constant `Succession` (transitively closed) and
`Withdrawn`; `IdentityChain` models the walk itself. The authority and the network answer
anything in `Answers` or fail; single flight in the resolver only makes two answers equal,
so its behaviours are among these. The loop that clears issues is one step with at most one
failure. Left out: alert texts, `PinnedAt`, the wording of `Contested`, `EverHTTPSValidated`
and the read that ends `Refresh`.
Two matrix rows that differ only in a label (`pin-established`, with or without DNS
corroboration) share one reason.

`owed[c]` is auxiliary: what held when a send began (latch, `require`). An administrator who
loosens a policy in the middle frees the send from it. `torn` is auxiliary: the record was last
forgotten while a call was in progress; a Forget with nothing under way resets it. An answer may be
issued up to `MaxClockSkew` in the future, as `Validate` allows.

`TrustAnchor` is the abstract specification: the latch is set by a validated answer, a pin is
made only behind it, moves only along `Succession`, and both go only by an administrator's act: an
administrator's Forget drops the pin, except of a record that is kept for its policy (`managed`).
The run `serial` checks `PeerService => TrustAnchor` under the mapping in `PeerService`.

### BackgroundQueue

The mark under the mutex, the non-blocking send, the unmarking of a shed domain, the worker's
receive, unmarking and resolution, `Close`'s `once` and wait are separate steps. `unanswered` is
auxiliary: triggers since the last resolution of the domain began.

### Discovery

An observer writes the row, reads the record back and triggers, in three steps; a worker reads the
record as due or not, and a fetch ends with a manifest, a refusal or a failure. The queue's
actions are those of `BackgroundQueue`, conjoined with what they mean for the records, so the
composition has no second description of the queue. A sighting is a sequence of parsed TXT
records (or one header) with the values `NeedsRefresh` and `singleID` look at. `owed` is
auxiliary: domains an observation left due, until somebody looked or a drop was reported.
`heard` is auxiliary: the records a DNS row was made of. Left out: the clock (manifests do not
age here, so a fetch happens because of what was heard), Forget, and the steps inside a
resolution, which are `PeerService`.

### Delivery

The publisher (the host behind `mailkey.Publisher`) is external: it issues, withdraws, announces,
signs as a successor or stops signing. The handler answers from one snapshot. The cache is any
that keeps to RFC 9111: it answers alone from what is fresh, revalidates with the ETag it holds,
and lets a 304 update the stored header. Both sides of an exchange are separate steps, so two
clients overlap. A client's manifest becomes `got`, with the moment its refresh falls due
(`RefreshAt` of what `cacheUntil` yields: `RefreshBefore` ahead, or half-way if that is past);
its identity document starts the walk of `IdentityChain`. With a hostile server the exchange is left out and any document arrives.
A tag is the hash of a body, so equal tags are equal bodies; a proof names its signer and the
manifest it was made over.

### PeerHealth

`Assess`, `Prunable` and `SelfCheck` change nothing, so there is nothing to run: they are operators
over a record, and what is worth saying relates them to the decisions of `PeerState`. That is what
the last part of `PeerServiceProofs` does. Findings are sets because only membership is asked of them.

### Resolver

A request is one call. `inflight[key]` names the leader of the call in the table, and a waiting
request remembers whom it joined. Taking a slot, giving up on it, ending a transfer, deleting
the table entry and closing the `done` channel are steps; a context may end at any point.

### Admission

Each inbound message reads the clock when it arrives and keeps the reading, so readings come out
of order between callers, as in the code. A token is `RefillEach` units, and one tick earns one
unit. `AdminForgets` is `adm.forget`, followed by the store call of `AddPeer` or `Forget`; any
store call may fail. `ObserveMalformed` is the branch of `ObserveDNS` that goes straight to the
store; it takes no token, so the records it makes are not among those `RowsAreBounded` counts.

### IdentityChain

One step of `Follow`, `Break` or `Arrive` is one iteration of the loop in `WalkChain`; `trail`
is `used`, `step` and `Applied` at once. Between walks the server may present anything, the
pin may be adopted (`followRotation`) and the clock moves. `Again` presents the same statements
in another order, with the former result kept in `last`.

### IssueLog

`CoalesceIssue` and `ClearIssue` as they are, on a sequence. `raised`, `latest`, `told` and
`evicted` are auxiliary and record what happened since the condition was last cleared.

## 3. Runs that pass

| run | question | instance |
|---|---|---|
| `faults` | Does one failing store call anywhere let plaintext through the latch, or leave a pin without it? | two sends, a fault of any kind |
| `serial` | With one resolution at a time, observers, administrator and clock between its steps, does the watermark, the manifest or a `require` policy give way, does a sighting route a first contact, does Forget or a withdrawn identity leave a cache the pin did not sign, or take a step `TrustAnchor` does not allow? | sends and refreshes, three manifests, one of them not to be cached and two that expire within the run, a rotation from an identity that is withdrawn, a DNS record that names a delegate, Forget and `require` at any moment |
| `pair` | Do two concurrent callers on a pinned domain keep the pin and its cache? | two callers, one fault, every kind of proof |
| `queue` | Is what an observation left due pursued, do marks and work agree, is a returned Close quiet, does no record win, is every trigger answered, does Close return? | two observers, a worker, two closers, one slot; a domain whose records change and disagree, a domain that never answers |
| `resolver` | Are table, slots and answers right under contexts that end anywhere, and does every request return? | three requests, two routes, one slot |
| `admission` | Is the table bounded, are only repeats refused, is the rate of new records bounded over every stretch of time? | two messages at once, two domains over a table of one, two fingerprints, an administrator, any store faults |
| `identity_chain` | Hostile: is the walk authorized, never ending on a withdrawn key, and independent of order where no key has two statements? Honest: do proof, body, age, absence and announced successors reach the client as the handler means them to? | seven statements, documents of up to four, from every pin; two clients on one cache, two manifests, one rotation, three ticks |
| `issue_log` | One row and one first occurrence per condition? Is what is evicted the least recent? | three conditions, two rows, a count that wraps |

**Bounds.** `MaxCalls`, `MaxFaults`, `MaxTime`, `MaxRaises`, `MaxClears` are guards of the
actions that would exceed them. Two callers are enough for every race the code has on one
domain: each store call touches one record, and a stale value is one read by one caller before a
write by another. In `PeerService` a single fault is what the code's error branches are written for;
a second one meets the same branches (`Admission` does not bound them). Three manifests (an
older, a newer, another signer's) are what the matrix tells apart. In `serial` they live two and three
ticks and `MaxTime` is two, so a manifest expires between any two steps; a skew of one admits an answer from
the next tick. A table of one is full with
one decision, so the sweep meets lapsed entries and fresh ones of the age of its own cutoff;
one tick is an interval, a token and a stale reading at once. Documents one entry longer than `MaxChainEntries`
meet its check; a document is taken not to list a statement twice. In `Delivery`, `MaxAge` is two
ticks, the first manifest lives four and the second two, so within `MaxTime` a copy can be fresh, stale, aged in the cache
and aged again at the client, and a max-age can be cut short by an expiry; `RefreshBefore` is one, so a
refresh falls due ahead of the bound, or half-way; two manifests are what
"replaced" needs; the second client overlaps the first in every way two requests can. Named
bounds there: an exchange ends within a tick (its timeout is seconds, an age is an hour); nothing
else moves during an honest walk, which reads only the document it was given; the other client
fetches the document only before anything is announced, to leave the cache an older copy; a
domain that stops signing has announced no successor. In `Discovery` one slot and a domain whose
authority never answers fill the queue; records for the other hold a manifest id each way, two
fingerprints, and an authority in one record only.

**Deadlock** is not checked (`CHECK_DEADLOCK FALSE`) where a state with nothing to do is one the
system really has or the bound makes: an idle service at the end of its calls and its clock, requests that have
all returned, a clock at its bound.

**Symmetry** is used for sets of interchangeable requests, callers and domains, in safety runs.

**Fairness.** *Queue and Discovery*: weak fairness for each goroutine, because the Go scheduler runs what can
run; strong fairness for a worker's exit, because `select` picks at random among ready branches
(`service.go:135`), so a worker that keeps finding both ready does not take work for ever. A
resolution ends because the worker gives it a 30 s timeout. *Resolver*: weak fairness for each
request: transfers are bounded by `Options.Timeout`, and a blocked send on a channel is served
first come, first served. Contexts need not end: no fairness is asked of callers.

## 4. What the code does differently from what it says

Four disagreements are runs that TLC refutes; `PROJECT.json` quotes the statement.

| run | what happens |
|---|---|
| `stale_install` | two resolutions of one domain; the one that decided first installs last, and an older manifest replaces a newer one |
| `read_fault_pin` | the error of the second `GetPeer` is dropped; a pinned domain looks like first contact and its pin is overwritten |
| `revoked` | a withdrawn identity is put on record, and the send is answered with its cached manifest |
| `past_cache` | a send finds its manifest past the cache expiry and takes it as usable: `Usable` (`state.go:243`) compares with the signed expiry, which is what `Install` stores, and `state.go:235` says that it is not usable then. The cache bound only schedules the refresh; while refreshes fail or are refused, the copy is used until it expires |

Others follow from the same models and are kept as notes:

- A resolution writes back the whole identity it read: a pin that another call moved along a
  rotation returns to the former key, and a DNS fingerprint stored in between is erased
  (`service.go:634`, `652`).
- The first `GetPeer` of a send fails and the `require` policy is lost with it; the error returned
  permits plaintext if the domain never validated (`service.go:503`). So `RequireNeverPlaintext` is
  checked where reads work.
- The identity is written, the install fails, and the cache still holds a manifest from before
  the pin (`service.go:720`); after a rotation the same leaves the manifest of the former key
  (`service.go:818`), also when the domain is disabled between the two writes.
- The route is chosen under a pin that is forgotten before the decision: a first contact through
  the delegate (`service.go:608`). `FirstContactIsDirect` is stated until that happens (`torn`).
- The fallback may even expire during the send, and is returned (`service.go:529`).
- A withheld pin is an accepted verdict, so its issue is cleared and never raised (`service.go:727`).
- Forget between the identity write and the install lets even a single resolution install what
  a forgotten watermark would have refused (`NewerManifestKept`, again until `torn`); the clearing loop recreates a record forgotten before it.
- A header that names an old manifest keeps `NeedsRefresh` true for as long as it is the last sighting.
- `ForgetPeer` keeps the identity of a record whose policy is the empty string.
- `max-age=0` makes a fresh answer read as expired by the replay rule; `AuthorityUnstable` is
  hardly reachable behind the watermark.
- Records that disagree on ids leave no id behind, so with a fresh cache nothing is due and nothing
  is fetched; `ParseDNS` and `service.go:212` say the inconsistency is resolved over HTTPS. A record
  that changes only its fingerprint never schedules anything.
- The read between write and trigger fails: the trigger is lost, the caller is told, and admission
  refuses the repeat that would make up for it (`service.go:291`).
- A manifest that was signed and is now published unsigned: the 304 carries no proof field, so a
  cache keeps the former one, and clients see the old signer for as long as they revalidate
  (`wellknown.go:132` says that body and proof of different responses never meet). `ReplacedFallsDue`
  excepts it.
- `cacheUntil` counts max-age from the client's fetch and ignores `Age`, so what was replaced may fall due
  only a wait after `MaxCacheAge` (`wellknown.go` calls that age the bound). `ReplacedFallsDue` says when
  the refresh falls due, `MaxAge + LongestWait` at the latest, and not when the copy is last used
  (`past_cache`). A max-age beyond 2^33 seconds overflows
  `time.Duration`.
- A rotation that lapses (its `expires_at`) before a sender comes back locks that sender out: its pin has
  no statement in effect any more. Every status of the identity document that is not 200 reads as
  an absent document.
- `Prunable` does not ask for the pin: one failed install leaves a pinned record without a manifest,
  and it may be dropped although "only peers that never learned a key" may (`state.go`).
- `Assess` calls a disabled peer with a fresh key "encrypting". `mail-held` is a finding and an issue
  code, and nothing under `src/` raises it.
- `selfcheck.go` says a missing DNS record is "the difference between a sender pinning on first contact
  and merely encrypting"; `DecideIdentity` pins when DNS says nothing (`UnblockedIsAccepted`).
- One domain is fetched twice at once over two routes; the code gives a reason
  (`resolver/resolver.go:205`), the specification says MUST coalesce. A leader's ended context
  fails every request that joined it.
- Admission's memory holds one decision for a domain, so alternating evidence is written every
  time; an observation admitted between the two steps of Forget leaves a decision that outlives
  the record; a dropped sighting is remembered for the whole interval, far longer than a token
  takes; unusable DNS records create a peer record without asking admission.
- With two statements of one key in effect, the order in the document decides the result of the
  walk (`identity/rotation_verify.go:190`). `SameUnlessForked` is what remains of the claim.
- Nine codes are in use and eight rows kept (`issues.go:158`): the ninth evicts a condition that
  still holds and will alert as new.

## 5. What is proved

For any values of the constants that satisfy the named assumptions. Where the table says *if*, the
theorem has that hypothesis.

| theorem | statement |
|---|---|
| `PeerServiceProofs!TypeCorrect` | every record, latch and local is of its type, and a caller past the fetch or the verdict holds what the code dereferences there |
| `PinNeedsLatch` | a pin implies the latch, whichever store calls fail |
| `NoPlaintextBehindLatch` | a send begun behind the latch never ends in an error that permits plaintext |
| `NoPlaintextUnderRequire` | nor one begun under `require`, *if* reads work |
| `HealthyIsAnchored` | a peer shown as ok is pinned and corroborated, and its next signed manifest is accepted without a remark |
| `EncryptingIsUsable`, `DiagnosticsHoldNothing` | "encrypting" is what a send would find, and no diagnostic changes it |
| `PruningLosesNoKey` | a dropped record had no usable key and routed nothing, unless pinned |
| `UnblockedIsAccepted`, `DNSHasNoVeto` | an unblocked self-check predicts the verdict of a first contact; DNS blocks nothing |
| `PeerTrustProofs!OneCallerKeepsPin`, `OneCallerImplementsAnchor` | the pin is neither lost nor moved but along signed statements, and every step is one of `TrustAnchor`, *if* reads work and callers come one at a time |
| `OneCallerKeepsWatermark` | the issue time verified under one identity does not go back, *if* the same |
| `OneCallerContactsDirectly` | a first contact is made with the domain itself, until the record is forgotten under a call, *if* the same |
| `OneCallerCachesSigned` | the cache of a pinned domain is signed by its pin, *if* also each accepted manifest is installed (no write fails, nobody disables the domain) |
| `OneCallerKeepsNewer` | an older manifest replaces a newer one only across a rotation, until the record is forgotten under a call, *if* all of these |
| `EstablishedKeepsPin`, `EstablishedCachesSigned` | pin and cache of a domain already pinned, for **any number of callers** and failed writes, *if* reads work, nobody forgets it and there is no rotation to follow |
| `DiscoveryProofs!CoalescingIsExact`, `CloseIsQuiet` | marks and work agree; a returned Close means that every worker has exited |
| `ImplementsQueue` | every step of the composition is a step of `BackgroundQueue` or none |
| `DiscoveryCoalesces`, `DiscoveryCloseIsQuiet` | so the first two hold of the composition |
| `NothingBehindIsLost` | what an observation left due is pursued, dropped aloud or stopped by Close |
| `DiscoveryTyped`, `OneRecordNeverWins` | the types; no record wins over another, whatever is heard and installed |
| `ResolverProofs!TypeCorrect`, `SlotsHeld` | slots in use are transfers in progress, at most `MaxConcurrent` |
| `TableExact`, `AnswerIsOwn` | the table is exact; an answer is for one's own domain and route |
| `AdmissionProofs!AdmissionTyped`, `TableStaysBounded` | the types; the memory never outgrows its cap |
| `RowsStayBounded`, `RefusalsAreRepeats` | new domains are let in at the rate of burst and refill over every stretch; only repeats are refused |
| `IdentityChainProofs!WalkIsAuthorized`, `WalkStopsAtRevocation` | each move is signed for; no walk ends on a withdrawn key |
| `WalkIgnoresOrder` | any order of the same statements gives the same end, unless a key has two in effect |
| `DeliveryProofs!DeliveryTyped`, `DeliveredMovesAreAuthorized`, `DeliveredRevocationStands`, `DeliveredOrderIsIgnored` | the types; the three above for documents as they are delivered |
| `ProofsFit`, `AbsenceIsTrue`, `CachedIsValid`, `ReplacedCopiesFallDue` | no proof of another body; a reported absence was one; no cache serves what expired; a copy of what was replaced, unless published unsigned, falls due for its refresh less than `MaxAge + LongestWait` after that |
| `AnnouncementsAreFollowed` | an announced successor has reached every walk after `MaxAge`, *if* the domain never returns to a key it left |
| `IssueLogProofs!HistoryStaysBounded`, `RowsCountEverything` | the history keeps its limit; one row for each condition, counting every occurrence |
| `ToldOnce`, `EvictionTakesTheOldest` | first once between two clears; what is evicted is the least recent |

**Assumptions.** Each is named where the constants are declared, and TLC evaluates it on every run.
`ManifestAssumption` and the others of `PeerState` give the constants types: times are positive (0
is Go's zero time), limits are natural numbers. `RecordAssumption`, `ReasonAssumption`,
`ViewAssumption`, `NilAssumption` and `NothingAssumption` say that nil is not one of the values it
stands beside: Go's nil pointer is no record and its empty reason no reason, which TLA+ has to be
told. `SuccessionAssumption`: signed descent is transitive. `ResolverAssumption`: finitely many
requests, at least one domain and one slot. `SightingAssumption`: DNS yields a sequence of records,
each of which parses or not; a header that does not parse is no observation (`service.go:236`).
`DeliveryAssumption`: we are one of the clients, an unreadable document is no key, the domain's
lineage is a sequence of statements no longer than a chain may be, and every manifest lives for a
positive time. Nothing is assumed of who signed the lineage: the document may be any.

**The hypotheses are the findings.** Each *if* in `PeerTrustProofs` is where the code does not keep
the property, and section 4 has the behaviour without it. A failed read makes a known domain look
new (`read_fault_pin`; the lost `require` policy). A second caller writes what it decided on an older record
(`stale_install`; the pin that returns to a former key). A failed install leaves the cache of
before the pin. A domain forgotten in the middle loses the watermark and the pin its route relied
on, which is why those two properties hold until `torn`. Every hypothesis is met by a passing run
(`serial`, `pair`), so none is empty.

### The arguments

**PeerService.** A pin implies the latch only because `MarkValidated` precedes `SetIdentity`,
so the invariant has to speak of callers between the two: `Inv` is type correctness, the
property itself, `OwedHolds` (a promise to a send is kept by the latch or freed), and
`Good(call[c], cap, owed[c])` for every caller: at `identity` and after, the latch is set if
what will be written is pinned; at `policy` the policy carried is the one read; at `done` a bare
error owes nothing. The lemmas on the rules say what each store mutation and each row of the matrix
preserves, so that the step lemmas cite them by name. `NoPlaintextBehindLatch` needs the latch to
be monotone but for an administrator's downgrade, which is where `owed` is freed. `require` is
carried by the policy read at the start, so it holds as far as that read does.

**Trust.** A caller decides on the record it read (`prev`) and writes several store calls later.
`Bound` says what must hold in that gap for the write to be right: if the record is pinned now, then
`prev` was pinned to the same key; the verdict is the one the matrix gives on `prev`; a walk in
progress left the pinned key, and one that arrived is in `Succession`; and once the identity is
written, the manifest about to be installed is signed by the pin. `TrustSteps` reduces the actions
to the few things a step can do to the pin, the watermark and the cache, and `Bound` is shown
inductive in the two settings in which no other step touches the pin during a gap: one caller, or a pin
that can neither move nor go. On top of it, one invariant for each property: `Aged` (the
watermark is no later than that of the snapshot decided on, so a response judged newer is newer),
`Routed` (a delegate was read off a pinned record, and the pin is still there when the verdict is
written, unless the record was forgotten meanwhile), `Signed` (the cache is signed by the pin except between the two writes) and `Newest` (the
watermark covers what is installed and what is about to be, except across a rotation and while
`torn`). Only Forget changes `torn` (`TornStays`), and one that resets it finds no call that could still
write. The refinement maps each step to `TrustAnchor`'s: the latch set, a pin made behind it, a move along
`Succession`, an administrator's removal, or nothing.

**BackgroundQueue.** `MarksMatchWork` says where a marked domain is. It is inductive with: an
observer that found the queue full still has its offer, a worker that took a domain holds it, and
nothing runs after a Close that returned.

**Discovery.** The refinement needs only that a task names a domain, so that a trigger is one of the queue's
own. `BehindIsPursued` then follows from the queue's invariant: a domain leaves `pending` only into a
worker's hands (`Unmark`) or with a reported drop (`Shed`), and it leaves a worker's hands by being
looked at. `NoRecordWins` is inductive once said of one record and one set of records (`Faithful`):
`CombineMeans` shows that what a new row says all its records say, from finite cardinalities, and
`ClassifyMeans` that telling anew how a row stands changes nothing it says.

**PeerHealth.** No induction: the findings are taken apart and the matching row of the matrix is
expanded.

**Resolver.** `TableIsExact` is inductive on its own. `AnswersItsQuestion` needs that a waiting
request has joined one that leads or led a call *for the same key*, and that an answer's fetcher
asked for the key of whoever holds it; the question of a request does not change after it
began. `SlotsAreHeld` counts a finite set that grows or shrinks by the acting request.

**Admission.** Readings are not in order, so the rate is counted on the bucket's own clock, which
only advances. `Covered` says of each admitted record that those from it onwards, with the tokens left, are
paid for by a full bucket and what was earned since; the bound of `RowsAreBounded` between any two
records is the difference. The table stays within its cap because a sweep of lapsed entries that
leaves it full is followed by one whose cutoff is later than the oldest entry (`LeastOfNats` gives
one), so at least one entry goes. A refusal reads a decision, and `Remembered` says every decision in the table is
an admission of that evidence at that time.

**IdentityChain.** `Stands` describes a walk whatever led to it: each statement applied was in
effect and signed by the key the ones before it establish, only the last may withdraw, and the
place says what is open at the end (`arrived`: nothing; `broken`: something unsigned; `revoked`: the
last one). The safety properties read it off. It mentions no order, so a finished walk still
*stands* when the document is permuted (`OrderIsReversible`, `ReplayStands`); where no key has two
statements in effect the next statement is determined, so the second walk is a beginning of the
first (`Replayed`), and two that ended are the same. That a walk longer than its document is
impossible is a pigeonhole argument (`LongTrailIsFull`).

**Delivery.** The invariant follows an answer. What the handler serves is true now; what a cache
holds was true when its freshness began, `now + fresh - MaxAge`; what a client is handed was true
less than `MaxAge` ago (at `now - MaxAge + 1` or later). `RefreshAtBounds` adds the wait: a copy falls due
at most `LongestWait` after its fetch. `Lasts` says this of a manifest and its signer, `Heard` of an identity document. A
tick moves the clock and the freshness together, so neither changes; a publication ends what lasts
at this moment only. `OneBody` (an id is published with one expiry) makes a proof fit whatever entry its tag
revalidates. `AnnouncementsAreFollowed` adds `Onward`: an honest walk goes up the lineage, so one that
arrived short of the end was given a document that lacked the rest. That needs a lineage without
a way back, which is the hypothesis. The theorems on the walk cite those of `IdentityChainProofs`,
every step of the composition being one of the walk or none.

**IssueLog.** The list is a sequence only for ties; the lemmas (`RemovedRows`, `AppendedRows`,
`ClearedRows`, `CountedRows`, `FirstRows`) say what each operation makes of the *set* of rows, and
the invariant what a row means (`RowsMean`) and what its absence means (`AbsenceMeans`). The row just
added is never the one evicted, because a tie goes to the first in the list; without that the condition
being raised could vanish at once. The count wraps by `WrappedCount`.

**On recursion.** The loop of `ClearIssue` is a recursive function. Its existence and what it computes are
proved by taking the least place where they fail, since the library's induction theorems are out of
the provers' reach.

**Only model-checked.** `EveryTriggerAnswered`, `CloseReturns` and `EveryRequestReturns`: liveness
under fairness, and with it `ENABLED`, is outside the prover. The four runs that expect a violation show
behaviours, which need no proof. Every other property of every run is proved.

## 6. Plan

Done, in this order: `PeerState` and `PeerService` with their invariants; `TrustAnchor`;
`BackgroundQueue` and `Resolver` with liveness; `Admission`, `IdentityChain`, `IssueLog`;
`Discovery`; `Delivery`; `PeerHealth`; the proofs of every safety property the runs check.

Left, in the order of importance:

1. `PeerService` for several callers and a pin that moves: what does hold there, stated as a weaker
   `TrustAnchor` in which a pin may return to a key it left.
2. The hazards without a property, each with its reason in `PROJECT.json`: those where the code does not
   keep what one would state (`service.go:608`, `727`, `768`, `818`) wait for a weaker statement that holds.
3. An action property of the identity matrix over sequences of observations, and the safety steps
   behind the liveness properties (what a trigger waits for, what a request waits for) as invariants.

## 7. Running

    tlc -config PeerServiceFaults.cfg MCPeerService
    tlapm PeerServiceProofs.tla

Each run's module and configuration are in `PROJECT.json`; the longest takes between two and four minutes.

## 8. What is not modelled

- Parsing, canonical encoding and normalizing (one record of `discovery/`, `manifest/`, `identity/resource.go`,
  `message/`): functions of one input, with tests and fuzzing of their own. The models start from what they yield.
- Cryptography (`envelope/`, signatures in `identity/`): a proof is present, absent or wrong, and names a key.
- Dialling (`resolver/dial.go`) and the classes of transport errors: I/O is a nondeterministic answer.
  Content type and size checks of `fetch` all end in one refusal.
- `wellknown/`: the choice among the domains a host may serve, HEAD, other methods, malformed headers.
- `component/`: delegation.
- A persistent store: the repository ships the in-memory one. Another implementation of `Store` is covered as far as its calls are atomic and may fail.
