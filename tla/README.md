# authcore: a verification project in TLA+

authcore is a Go library with five packages that a web application calls to
authenticate people: image and token captchas, passkeys, a SAML service
provider, an OpenID Connect client, and IP geolocation. It has no server of its
own. What makes it hard to test is that one value of each of its types is shared
by all request handlers of a process, so every method may interleave with every
other, with the clock, and with files and services that change underneath it.

The modules here model that state and those methods, TLC checks them on small
instances, and TLAPS proves every safety property of the passing runs for every
value of the constants. `PROJECT.json` lists the runs, the source lines each definition
stands for, and the hazards the properties are aimed at.

## The system and its parts

| part | state | operations | what is hard | what makes it correct |
|---|---|---|---|---|
| `captcha.MemoryStore` | map id -> entry, list of ids, mutex | Set, Get, Verify | two structures that must agree; purge that stops early; the cap | single use; list = map; cap; no expired entry kept |
| `captcha.ImageGenerator` | none (uses the store) | Generate, Verify | | single use |
| `captcha.TokenVerifier` | none | Verify | two waits, a deadline, lost answers, retry | fails closed; ends |
| `passkey.MemoryStore` | as the captcha store | Put, Take | clock read before the mutex | single use; cap; list = map |
| `passkey.MemoryCredentialStore` | map id -> credential | FindByID, FindByUserHandle, Save, UpdateSignCount | load, verify and write back are separate calls | owner never changes; counters |
| `passkey.Service` | none (uses the two stores) | New, three Begin, three Finish | Finish calls race; credentials deleted meanwhile; user verification resolved at Begin, enforced at Finish | one success per session; the right account; verification where it was required |
| `geoip.Watcher` | settings, open reader, stamp, RWMutex | Lookup, Refresh, SetPath, SetEnabled, Close | config, stat, comparison and reopening under different locks; unmapping | no use after unmap; no leak; current file in the end |
| `geoip.Reader` | an open database | Lookup, Close, record mapping | two schemas, values of any type, names visited in random order | coordinates in pairs; names that agree; the same answer again |
| `saml.Provider` | none (uses the cache) | ValidateResponse..., NewAuthnRequest | three clock reads; crewjam's own clock rule; scanners that see tokens, not the tree; byte limits; attributes merged under two names | each assertion accepted once; verdict as the document's tree demands; attributes as sent |
| `saml.MemoryReplayCache` | map id -> expiry, mutex | SeenOrAdd | capacity, sweep with an old clock reading | live records kept; cap |
| `oidc.Provider` | immutable after New | New, Begin, Complete | Provider rebuilt while flows are under way; lost answers | assertion belongs to its flow and its terms |

Interactions: `ImageGenerator` calls its store; `Service` calls a session store
and a credential store; `saml.Provider.validate` calls crewjam and then the
replay cache; `Watcher` opens and closes `Reader`s; `oidc.Provider.Complete`
calls the issuer's token endpoint and its keys. The application owns the rest:
it deletes credentials, keeps OIDC States and sees to it that each is used once,
replaces database files.

## Modules

| module | models | notes |
|---|---|---|
| `OneTimeStore` | the promise of a single-use store | abstract; no mechanism |
| `TTLList` | the map-and-list structure both stores have | operators on a record `[items, order]`; list nodes have an identity, so a forgotten or wrong node shows |
| `CaptchaStore` | `captcha/store.go` | each method is one step (one mutex) |
| `SessionStore` | `passkey/session_store.go` | `Put` is two steps: `PutStamp` reads the clock, `PutInsert` holds the mutex |
| `PasskeyService` | `passkey.go`, `registration.go`, `authentication.go`, `discoverable.go`, `credential_store.go` | composes `OneTimeStore` (as the session store) with the credential store; a Finish is `Take`, `Verify...`, `Save` or `UpdateSignCount` |
| `SamlChecks` | the structural checks of `validate` | over a record of what a response is; shared by the next two |
| `SamlScan` | `saml/rawxml.go`, `saml/identity_shape.go` | one operator per kind of token, from a scanner's locals to its locals |
| `SamlAttributes` | the loop of `assertionFromCrewjam` | a slice is its values and its backing array |
| `SamlValidate` | `saml/validate.go` before the replay cache, `saml/inflate.go` | `Receive` decodes under the limits; `StartElement`, `EndElement`, `SyntaxError`, `EndOfFile` are tokens; `ParseXMLResponse` is validate's verdict and crewjam; `Convert` is an attribute |
| `SamlReplay` | `saml/validate.go`, `saml/replay.go` | a handler is `Parse` (crewjam's clock read), `ComputeExpiry`, `ReadNow`, `SeenOrAdd...` |
| `Watcher` | `geoip/watcher.go` | `refresh` is `Begin`, `StatFile`, `CheckFast`, `Reopen`; a `Lookup` holds the read lock from `LookupRead` to `LookupDone` |
| `GeoRecord` | `geoip/geoip.go` | `Lookup` of one record, twice; what ranges over a Go map has a set of results |
| `OidcFlow` | `oidc/provider.go`, `oidc/http.go` | `Complete` is `Call`, then `Exchange`, `ExchangeFails` or `Redirected`, then `Return` or `Reject`; it consumes nothing, so a State may be used again |
| `TokenVerifier` | `captcha/token.go` | `Verify` waits for a header and for a body |
| `MC...` | | values for the constants |
| `TTLListProofs` | | lemmas about `TTLList`, used by the two stores' proofs |
| `SessionStoreProofs`, `PasskeyServiceProofs`, `SamlReplayProofs`, `SamlValidateProofs`, `OidcFlowProofs` | | each component's inductive invariant and theorems |
| `CaptchaProofs`, `GeoipProofs` | | the same for the two components of a package: `CaptchaStore` and `TokenVerifier`, `Watcher` and `GeoRecord`; `VerifierSpec` and `LookupSpec` have names of their own for that |

Random ids, nonces and verifiers are taken to be new and are numbered in the
order they are drawn. A definition whose name has a suffix after an underscore
(`AfterSet_KeepsNode`) is the code with a seeded fault; no specification uses it.
Replacing the plain definition by it makes TLC find the property violated that
`PROJECT.json` pairs it with.

What is external is modelled from how the code uses it: go-webauthn (a ceremony
verifies only for the session's user, for an allowed credential, looks at the
user-verified flag only if the session requires it, and applies the counter rule of
`authentication_test.go`), crewjam's `ParseXMLResponse` (accepts
nothing untrusted, and nothing after the last deadline plus its clock skew),
`encoding/xml` (a forest of matched tags, or an error at any token), Go's maps and
`append`, the
OIDC issuer (a code works once, at its own endpoint; checking the verifier is a
constant; it may redirect a token request), siteverify (a solved token is accepted once), the file system
(replacement by rename). Of the application nothing is assumed that the package leaves
to it: it may pass a State to `Complete` as often as it likes, delete a credential at any
time, and register the id of a deleted credential again, for the same user or another.

## Runs

| run | shows | bounds |
|---|---|---|
| `captcha_store` | map and list agree, cap, expiry order, one guess per captcha, the purge misses nothing, only the oldest is evicted, implements `OneTimeStore` | ids `""`, a, b; cap 2; ttl 2; clock to 4; 4 Sets |
| `session_store` | the same for two concurrent `Put`s, with an expiry order that is only approximate | cap 3; ttl 2; a `Put` late by up to 2; clock to 6; 5 Puts |
| `saml_validate` | `validate` admits a document exactly if its tree is as the checks demand, where only the first root states a Destination; sizes cut off exactly; both attribute maps hold what was sent and share no array | documents of 6 elements, 4 deep; 16 configurations; 3 attributes over 2 names; sizes around limits of 1 to 4 |
| `saml_second_root` | *violation*: the Destination of a second root counts for the first | documents of 4 elements |
| `geo_record` | coordinates as a usable pair or not at all, names that agree, the same answer again | 2677 records of both schemas, 2 lookups; largest radius 3 km |
| `saml_replay` | one acceptance per assertion, live records kept, capacity | 2 handlers, 2 assertions and 14 documents, capacity 1, clock to 8 |
| `watcher` | no use after unmap, no leaked mapping, no older file than seen, the current file in the end | 2 threads, 2 paths, 3 edits; every version has its own stamp |
| `watcher_setpath` | *violation*: a concurrent `SetPath` is undone | 1 thread |
| `passkey` | one success per session and no second attempt on it, the right account, no resurrection, owners fixed, user verification where it was required, clones flagged by a login that nobody overtook | 2 Finish calls at a time, 2 users, 1 credential id, 3 Begins, counters to 2, 2 Configs and 3 lists of options; symmetric in users and calls |
| `passkey_race` | *violation*: clones are not flagged when logins overlap | 1 user |
| `oidc_flow` | assertions belong to their flow and terms, verifiers go home in spite of redirects, every call ends; all of it for States used once, again or twice at a time | 2 calls, 2 flows, 2 codes, 3 Providers that differ in endpoint, method or algorithms, issuer ignores PKCE |
| `token_verifier` | one success per token, every call ends | 2 calls at a time, 3 in all, 5 tokens |

Why the bounds are enough to reach the cases. Two ids with a cap of two make a
Set replace, evict and purge, and one more Set than the cap makes it do two of
these at once. Two Puts are what it takes to swap clock reads and mutex order; a
third entry lies behind a swapped pair. A replay cache of capacity one is full
after one acceptance, so the second assertion sweeps or is refused, and the clock
runs past both records' lifetimes. Two Watcher threads give one that is stale in
any of its three locals while the other reloads; three edits allow replace,
SetPath and replace back. One credential id is what all races are about; two
users tell owners apart. Two codes for two flows give each its own, the other's, or one
flow two good codes; a State used twice takes one call after another or two at once. Five elements make the smallest good document; the sixth is a
second assertion, a repeated, foreign or misplaced namesake, or a second root, at
each place it could stand. Three attributes give one that collides with two others.
The names of a place take three locales to have two that are not English.

No run lists a type invariant where the module has proofs: types are part of what is
proved (`TypeOK` of `CaptchaStore` and `SamlReplay`, `StoreSound` of `SessionStore`,
`Shape`, `VerifierShape`, `TreeShape`, `Shapes`, `Identities` and `Outs` in the proof
modules).

`CHECK_DEADLOCK FALSE` is set where the bounds on the number of calls let the
system stop; `Watcher` has no such bound on calls and is checked for deadlock.

### Disagreements between code and documentation

- `watcher_setpath`: `refresh` writes back the path it read before it locked, so a
  concurrent `SetPath` is undone for good.
- `passkey_race`: two overlapping logins with one counter value are both accepted
  without a clone warning.
- `saml_second_root`: `scanResponseShape` keeps the Destination of the last root that
  states one, and `validate` judges that. A Response with no Destination, or a wrong one,
  and with the assertion in it is handed to crewjam when an empty second `Response` follows
  that states the ACS URL. `provider.go` says that such a Response is rejected. Crewjam
  makes its own checks of what it is handed; they are external here. `VerdictFollowsTree`
  leaves out documents in which a later root states a Destination, and judges all others
  by the first root's own.

Others were met and have no run of their own:

- `SetEnabled(false)` on a Watcher that has loaded its file does not make `Lookup` return
  an empty Location, as `watcher.go:51-52` says: `refresh` returns early and leaves the
  reader alone (line 190), and `Lookup` answers from it. In `Watcher`, a `Lookup` that
  found the Watcher disabled in `Begin` goes on to `LookupRead`. One thread is enough.
- `passkey.MemoryStore.Put` reads the clock before it locks, so its list is not
  expiry-ordered as the comment on `purgeExpiredLocked` says. The effect is bounded:
  an expired session outlives a purge by at most the time a Put waits for the mutex
  (`ExpiryAlmostOrdered`, `PurgeMissesLittle`), and `Take` checks expiry by itself.
- A credential may be deleted, and its id registered anew, while a login with the old one
  is under way. `UpdateSignCount` is keyed by the id alone: it reports success for the old
  owner, and the login's copy of the credential replaces the new one under the new owner.
  `LoginForOwner` leaves out logins whose credential was deleted meanwhile; without that it
  is false, and TLC shows it.
- `TokenVerifier.Verify` returns `ErrDecodeResponse` when its deadline fires while the
  body is read, where the comment speaks of `ErrNetwork` (`DecodeFails`).
- `localizedName` "only needs to be stable", but a place with several names of which
  none is English is shown under any of them (`StableUnlessForeign`).
- `InflateLimited` with a maximum of the largest int64 adds one to it, the sum wraps
  round, nothing is read, and the message is refused as malformed
  (`WholeOrRefused` leaves that maximum out).
- `mapRecord` takes the country's name of the flat schema as it is, where every other
  string is trimmed (`CountryOf`).
- `SpentForSuccess` lets a token pass for which the service reports no hostname,
  although pinning is on: the comment in `Verify` says so, the one on
  `Result.Success` does not.
- `FastPathSound` needs stamps that tell file versions apart: after `SetPath` to a file
  with the modification time and size of the old one the old database stays in use.

## Fairness

Only the liveness properties (`EventuallyCurrent`, `CallsEnd`, `VerifyEnds`) need any.

- `Watcher`: lookups keep coming and started calls go on (weak fairness), and a
  thread waiting for the write lock gets it in spite of readers (strong fairness
  of `Reopen`): Go's `sync.RWMutex` keeps new readers out once a writer waits.
  Edits are not fair; `EventuallyCurrent` speaks of what follows the last one,
  which the bound on edits makes certain to come.
- `OidcFlow`, `TokenVerifier`: a call's context deadline fires, and local work
  goes on. The issuer and the service need never answer.

## Proofs

Every theorem holds for all values of the constants that satisfy the modules'
`ASSUME`s: any number of goroutines, ids, users, files, tokens and calls, every
capacity and ttl. The bounds of the runs (`MaxTime`, `MaxBegins`, ...) are constants
of the theorems too, of any size. A component has one inductive invariant
(`...Invariant`; `IInv` in its module, if no other name is given), shown to hold
initially and to survive every action, and the theorems about single properties follow
from it. TLC checked these invariants on the components' runs before they were proved,
except `MapsInv`: it speaks of all strings, which TLC cannot enumerate.

- `TTLListProofs`: what each list operation preserves and establishes
  (`DeleteFacts`, `PurgeFacts`, `MakeRoomFacts`, `PushBackFacts`): shape,
  coherence, order within a slack, and cardinality; what is evicted is older than
  what stays (`MakeRoomEvicts`); what each means for the set of entries that the
  abstract store holds (`ContentsGrow`, `ContentsDelete`). The slack is a parameter,
  so that the lemmas serve both stores. `LeastNat` makes the `CHOOSE` in
  `PurgeRounds` and `EvictRounds` well defined.
- `CaptchaProofs`, the store. The invariant is
  the conjunction of the type, coherence, the cap, expiry order, expiries no later
  than `clock + TTL`, and "an answer still stored has not been guessed at". The
  last is what makes `OneGuess` inductive; expiries bounded by the clock are what
  makes appending keep the order; the order is what makes an early stop of the
  purge complete (`CaptchaSetPurgesAll`). `CaptchaImplementsOneTimeStore` maps the
  store to the set of its entries: a `Set` is an issue together with the losses it
  causes, a clearing read of a live entry is a redemption.
- `SessionStoreProofs`: the same with slack `MaxStall`. A `Put` appends with a clock
  reading that may be old; that the list stays almost ordered needs that a waiting
  `Put`'s reading is at most `MaxStall` behind the clock and that nothing
  stored expires later than `clock + TTL`. The theorem holds for every `MaxStall`,
  so `PurgeMissesLittle` says how much a late `Put` can cost, whatever it is.
- `SamlReplayProofs`. `AtMostOnce` is not
  inductive by itself: the invariant adds that an accepted assertion either has a
  record that outlives crewjam's own deadline for it, or is past that deadline;
  and that a handler's clock readings are in order and within `MaxStall` of the
  clock. From this, a handler that finds no live record for an accepted assertion
  would have parsed it after the deadline. The assumption is
  `StallWithinMargin`: a handler takes less time from crewjam's clock read to
  `SeenOrAdd` than `ReplayExpiryMargin`.
- `GeoipProofs`, the Watcher. That a reading `Lookup` reads the current reader's mapping
  (`ReadsCurrent`) gives `NoUseAfterClose`, and it is kept because `Reopen` and
  `Close` wait until nobody reads (`CanLock`). `NeverOlderThanSeen` and `FastPathSound` have the
  hypothesis `StampsTell`, that two versions of a file differ in modification time
  or size: without it they are false, and the run has it too. They need an invariant
  on versions: the stamp a thread holds is that of a version which only one path
  ever had (`SawFile`), and the stamp that the Watcher keeps is that of a version of
  the reader's file, no newer than what was mapped (`ReaderStamp`). The file may be
  replaced between stat and open, so the kept version can be older than the mapped
  one; that it is never newer is what the order of the two calls is for.
- `PasskeyServiceProofs`. A session id is held by the store, or taken by one Finish call,
  or used, and never two of these (`HeldUnused`, `TakenUnused`, `NotIssuedUnused`): hence
  one success per session. No session that was redeemed is held, and only issued ones are
  (`TicketsIssued`): hence no second attempt (`NoSecondAttempt`). The credential of a login
  under way belongs to the login's user or was deleted since the login loaded it
  (`LoginOwner`, `DeletedSince`): hence a login that finds it on file, not deleted
  meanwhile, is the owner's. `RevokedStaysRevoked` says that an id which is deleted and not
  registered anew is not in the store: a write-back alone does not bring it back.
  A session for which verification was asked requires it in go-webauthn's
  terms, whichever of Config, defaults and options said so (`LastRequirement`,
  `NewFacts`). Assumed of the constants: Configs and options are made of the
  protocol's requirements (`ConfigsType`, `OptionsType`).
- `OidcFlowProofs`. A call under way runs with the Provider that its flow began with
  (`CallTerms`), because the State names that Provider's configuration and the digest
  tells Providers apart (`BuiltFacts`). The theorems do not depend on how often a State
  is used.
- `CaptchaProofs`, the token verifier (`VInv`). A yes of the service for a token is held by
  one call that has not decoded it yet, and then nobody has had a success or a mismatch
  for that token (`ClaimIsOnly`).
- `SamlValidateProofs`, the scanners (`ScanInv`, theorem `ScannersFollowTree`). The decoder's
  open elements are a path in the tree, from a root to the element opened last
  (`TreeShape`), and after every token each scanner's locals are a function of the tree so
  far: depth and roots, the last stated Destination, the number of assertions, weak
  algorithms, and for the assertion that is open the parts counted so far (`RootsSeen`,
  `DestinationSeen`, `AssertionsSeen`, `WeakSeen`, `IdentitySeen`). An assertion that has
  ended is as it should be, or the scan has failed; and a scan fails only for something
  that no later token can put right (`Spoilt`), which is what makes the verdict on the
  whole document exact in both directions (`SamlVerdict`). The scanner keeps the last
  stated Destination; where only the first root states one, that is the Response's own
  (`DestinationIsFirst`). The scanners know names and
  depths where the tree knows elements: `InAssertionIsInside` is the lemma that the two
  agree.
- `SamlValidateProofs`, decoding. `SamlWholeOrRefused` needs no invariant but the type of the
  payload: reading one byte more than the limit tells a message that fits from one
  that does not (`InflateExact`).
- `SamlValidateProofs`, attributes (`MapsInv`, theorem `ConversionInvariant`). What a map holds
  under a key is the values sent under it so far, a missing key counting as empty,
  and the arrays behind the slices are allocated and apart (`Kept`): hence an `append`
  never writes into another key's values. `ValuesOf` is a recursive function; that
  appending an attribute appends its values (`ValuesOfAppend`) is an induction, done by
  looking at the least list position where it would fail (`LeastNat`), since the
  library's induction rules cannot be used here. Assumed of the constants: attributes
  are strings with sequences of strings (`AttrsType`), limits are machine integers
  (`PayloadsType`), tags are given level by level (`TagsType`).
- `GeoipProofs`, records (`GeoInv`). Every answer is one that `mapRecord` may give. What is
  shown of a place against its names by locale (`PlaceNamed`) is proved for a map of names
  (`BlockNamed`), for a string, and for a region that falls back to the flat field;
  `CoordinatesOf` and `RoundsUp` are about the pair and its radius. Assumed of a record: it
  is one the decoder can yield (`Decodable`): maps are finite, and a finite number has a
  value. Values are otherwise of any type, maps of any size, strings of any kind.

Only model-checked:

- liveness (`EventuallyCurrent`, `CallsEnd`, `VerifyEnds`), which is out of the prover's
  reach;
- the three violations.

## Not modelled

Drawing captcha images; URL and host parsing; the defaults of `newMemoryStore`,
which are assumptions on the constants, and the presence checks of `passkey.New` and
`saml.New`. `saml.NewAuthnRequest` and `MetadataXML`: they build, sign and encode one
document from the Config, without state. Base64 and DEFLATE by their outcome only
(readable or not, and how long). The registration exclusion list: a hint to the
browser that nothing on the server checks. Byte counting, connection pools and
redirects of GET requests of the OIDC HTTP client. The cryptography of all packages; `Len`, `Status`, `Info` and
`Metadata`, which only read. A restart loses all in-memory state, and the code makes no claim about it.

## Plan

In order of importance; what is done is described above.

1. Done: the single-use stores, the replay cache, the Watcher, the passkey
   ceremonies with their user-verification options, the OIDC flow, the token
   verifier, SAML decoding, scanning and attribute conversion, geoip record mapping.
2. Done: proofs of every safety invariant and action property that the passing runs
   check, and of both stores' refinement of `OneTimeStore`.
3. Left: liveness stays with TLC. Of the code, what is under "Not modelled"; the part
   that would be next is how the ids of AuthnRequests, which the application keeps and
   crewjam compares, bind a response to its request.
