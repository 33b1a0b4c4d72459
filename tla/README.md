# Verification of astrodash

TLA+ models of the parts of astrodash that keep state across steps, requests,
threads or processes, the TLC configurations that check them, and TLAPS proofs
about all of them.  Paths are relative to
`src/app/astrodash/` unless they say otherwise.  `PROJECT.json` maps every
definition to the lines it models and lists the runs, the mutants, the hazards
and the theorems.

## The system

astrodash classifies supernova spectra.  A researcher selects a model, gives a
spectrum (an upload, or the name of an object whose public spectra WISeREP
holds), and gets a class, with a redshift where the model takes one.  It is a
Django application run by several gunicorn workers with several threads each,
over one database and one (optional) cache.

| Component | State | Operations | Correct when |
| --- | --- | --- | --- |
| Single-flight registry, `_ResolutionSingleFlight` | dictionary of reference-counted locks, per worker | claim, acquire, time out, release, discard | one holder per designation, no lock forgotten under a waiter, no waiter stuck |
| Candidate set resolution, `SpectrumService` | stored set (database), its copy and the last refusal (cache) | look up, wait, search, refuse, fall back, store | a set served as current is; an outage hides no stored set; refusals expire |
| Spectrum retention, `DjangoSpectrumRepository` | one row per epoch | serve, download, save with an insert race | one identifier per epoch; of a named object no second download and no conflict shown |
| Gated model access, `core/model_access.py` | scope, selection and artifacts in the session; key in the cookie | redeem, grant, end, lapse, revalidate, run | a gated model runs only inside a live scope; no later request shows what a scope produced |
| Classification page, `ui_views.classify`, `ClassifyForm` | form on the page; source key, parameters, provenance, file in the session | submit, fill in, opt out, switch epoch, fail | the redshift used and the one attributed are the right ones |
| WISeREP client, `infrastructure/wiserep/client.py` | time of the last request (cache) | walk pages, wait, retry, download | no partial set is ranked, nothing is asked late, requests are spaced |
| Ranking and parsing, `infrastructure/wiserep/` | none | filter, rank, parse | the earliest eligible spectrum of the one object that is named |
| User model store, `ModelService`, `ModelStorage` | a directory of files and a row per model | upload, clean up, update, delete | a listed model can be loaded unless it is being deleted, no file without cause |
| Batch, `BatchProcessingService` | results by file name | read redshifts, bounded tasks | each result is its spectrum's, with its own redshift |
| Monthly scrape, `src/app/wiserep_scrape/` | spectrum files, `metadata.csv`, `snapshot.json` | search, choose, download, compare, write | nothing is missed, rows have files, no spectrum twice, killed runs do no harm |
| Leaderboard, `infrastructure/ml/leaderboard/` | the month's score file | score, show | one spectrum of an object, the date of the data scored |
| Database threads, `infrastructure/db_threads.py` | connections per thread | run, close | no stale connection |
| Registry, surfaces, classifiers, single-spectrum REST views, twins, container start-up, middleware | none shared, or read-only | | |

How they interact: `classify` asks the gate which model runs, then
`SpectrumService.get_spectrum_data`, which for a name goes through the stores
and the single-flight slot to a candidate set (calling the client and the
ranking when it must search), picks an epoch, and serves or downloads and
retains it.  The spectrum, with WISeREP's redshift on it, returns to
`classify`, which decides the redshift, runs the processing and the
classifier, and writes artifacts and provenance into the session that the gate
later sweeps.  A user model is loaded from the files of the store, by `classify`
and by a batch, while another request may be writing or removing them.  The
scrape and the scoring are commands of an operator; the leaderboard page reads
what they leave.

What is hard here: threads of one worker share the registry and threads of all
workers share the stores, with no transaction around a look-up and the write
that follows it; a search may take two minutes; the cache may fail or forget
at any operation; session rows are loaded whole and written back whole,
minutes apart; deadlines pass and deployments replace the registry between any
two steps; the redshift of a submission depends on session keys that earlier submissions,
some of which failed half-way, have left behind; a model's files and its row
have no transaction in common; pages of a search shift under the walk; and the
scrape starts from whatever a killed run left.

## Modules

| Module | Models | Used by |
| --- | --- | --- |
| `ResolutionSlot` | what the registry promises: slots held by one thread at a time, waiters that may go ahead | implemented by `SingleFlight`, composed into `Resolution` |
| `SingleFlight` | the registry itself, one worker | `SingleFlightProofs` |
| `Resolution` | how a designation's candidate set is come by, several workers | `ResolutionProofs` |
| `RetainedEpochs` | what retention promises, with atomic steps | implemented by `SpectrumRetention` |
| `SpectrumRetention` | what a lookup does with the set | `RetentionProofs` |
| `ModelAccess` | the gate and the views in front of it | `ModelAccessProofs` |
| `ClassifyRedshift` | the redshift of a submission | `RedshiftProofs` |
| `SpectrumRanking` | which spectra a designation means, as operators | `WiserepSearch` |
| `WiserepSearch` | the walk of the export, the ranking and the download, several workers | `WiserepProofs` |
| `UserModels` | upload, update and deletion of user models | `BatchProcessing` |
| `BatchProcessing` | a batch, with a classifier of the store | `UserModelsProofs` |
| `MonthlyScrape` | the monthly scrape and its directory | `Leaderboard` |
| `Leaderboard` | the scoring of that directory, and the page | `ScrapeProofs` |
| `SingleFlightProofs` | theorems about `SingleFlight` | |
| `ResolutionProofs` | theorems about `Resolution` | |
| `RetentionProofs` | theorems about `SpectrumRetention` | |
| `ModelAccessProofs` | theorems about `ModelAccess` | |
| `RedshiftProofs` | theorems about `ClassifyRedshift` | |
| `WiserepProofs` | theorems about `WiserepSearch` and `SpectrumRanking` | |
| `UserModelsProofs` | theorems about the store and the batch, as `BatchProcessing` composes them | |
| `ScrapeProofs` | theorems about `MonthlyScrape` and `Leaderboard` | |
| `MC*` | instances for TLC | |

A lookup by name is `Resolution` followed by `SpectrumRetention`: the set one
ends with is the `records` the other selects from.  They are two modules since
they share no state, and any candidate set may meet any state of the table.
`WiserepSearch` is what `BeginSearch` and the end of the search stand for in
`Resolution`, and what a download is in `SpectrumRetention`.

**SingleFlight.**  `slots` is `_slots`; `pc`, `key`, `mine`, `held` are the
locals of `hold`.  `_claim` and `_discard` run under the guard and are one step
each (`ClaimNew`, `ClaimShared`, `Discard`); acquiring, timing out and
releasing are steps of their own.  A new lock object is one nothing refers to
(`Fresh`), so objects may be reused, as in Python.  `BoundedWait` is whether
`wait_seconds` is positive.

**Resolution.**  `stored`, `cached` and `refusal` are the shared stores, read
and written in one step per access; `pc` is the next access of a thread and
`found` the set it carries.  `CacheHit` to `ClaimSlot` are
`_load_candidate_records`, run before the slot and again inside it; `TakeSlot`
to `BeginSearch` are `_resolve_once`; the rest is
`_resolve_candidate_records`, its aged fallback, and the end of the block.
Every cache write may be lost, every cache read may miss, and `StoreFails`
ends a lookup at any database access.  A set carries the time it was resolved
(`at`, which the code stores) and two history fields.  Time is in ticks; a
search ends within the client's deadline and a free slot is taken at once
(guards of `Tick`), while the stores may be slow without bound.

**SpectrumRetention.**  `table` is `SpectrumRecord`, reduced to the epoch and
to whether `validate_spectrum` accepts the row.  The two statements of a save
are two steps (`ReadLatest`, `Write`), the caught conflict is `WriteConflicts`,
`Reread` and `UpdateWinner`.  A failing save may still have reached the table.
Nothing deletes a row in the application.  An object without an IAU name is
eligible when an internal name matches, and its designation is the empty string:
such an epoch (`Nameless`) is not looked for (`Found`), and its save is the bare
`update_or_create` (`Write`, or `UnkeyedConflicts`: the unique constraint covers
the empty designation too, and nothing catches the conflict).

**ModelAccess.**  One browser with concurrent requests.  A request works on a
copy of the session: it begins with the load and everything decided on it
(`Begin`) and ends with the write-back (`Save`, Django's session store and
middleware, external).  `begin_scope` is `Grant`: a new key, the old row
deleted.  `Lapsed`, `EffectiveModel`, `Swept`, `Gate`, `ToPicker` and
`Revalidated` are the functions of `core/model_access.py`; the actions are the
views.  `Deploy` replaces the registry by another valid one and drops what is
in flight.  `Definition` keeps the three fields the gate reads.  `began` remembers
when a request loaded its session, which is when everything is decided on it:
the deadline is not looked at again when a classification ends, minutes later.

**ClassifyRedshift.**  One researcher, submissions one after the other.
`sourceKey`, `lastParams`, `provenance`, `cachedFile` are the session keys;
`page` is what the next submission can be made of, including the hidden fields
of the epoch and ambiguity forms.  The operators from `FileOf` to
`NeedsRedshift` follow the view line by line; `LookupFails`,
`RefuseWithoutRedshift`, `ClassificationFails` and `Classified` are its ends.
`Used` follows the redshift through `process_spectrum_with_params` to what the
classifiers read.

**WiserepSearch.**  `walk` holds the locals of a worker in
`search_spectra_rows`, `_get_bounded` and `download_spectrum`: `FetchPage`,
`Throttle`, `Throttled` and `Issue` (`_respect_min_request_interval`: read the
shared time, sleep, write it), the answers (`PageArrives`, `FileArrives`), the
retries of the HTTP adapter with the waits the server asks for (`Retry`,
`AskAgain`), redirects that `requests` follows (`RedirectFollowed`), and the
refusals.  Each check of the clock is where the code makes it: between pages,
before a retry's wait, and when a piece of the body comes (`StillArriving`), so
a body whose end is late, an empty one, and the target of a redirect are taken
at any time.  The cache may lose the shared time at any time (`ForgetTime`), and
the next request is then sent at once.  `SpectrumRanking` is `selection.py`, and
the rows are ranked when the walk ends; `Ranking` is the sorted sequence, which
the dates and identifiers of eligible rows determine.  `listing` is the server's
(external), and grows while walks are under way: a publication moves rows down
and never up.

**UserModels.**  A part of a model is `missing`, `torn` or `whole`; a write is
two steps, so that a kill or a reader comes between.  `StartUpload` to
`SaveRow` are `upload_model`, `RemovePart` and `RemoveDir` are
`cleanup_model_files` (one file at a time), reached from a failed upload and
from `delete_model`; `LoadMetadata` to `Resave` are the update.  Every step may
fail (`RequestFails`, `WriteFails`, `RemoveFails`), the row may be saved without
confirmation (`SaveUnconfirmed`), and `Killed` may take any request.  The
history variables name the excuses the property makes: `doomed` models, whose
deletion was begun; `unconfirmed` ones, whose upload saw an error although the
row was saved, so that the clean-up removes the files of a listed model; and
`stranded` files.

**BatchProcessing.**  One batch at a time beside the requests.  `PageBatch` and
`ApiBatch` are the two ways in, with what `parse_batch_redshifts` makes of the
redshift field; `LoadClassifier` reads the store; `ReadSpectra` makes the
entries and refuses redshifts that do not match them (`Mismatched`); `Admit`
lets a task past the semaphore (in order, as asyncio's does) and gives it
parameters of its own; `Classified` and `SpectrumFails` record the result under
the spectrum's name.

**MonthlyScrape.**  A run is `Start`, the pages (`TakePage`, `EndOfPages`,
`TablelessPage`, `MissingColumns`, `SearchFails`), the candidates one by one (`Skip` to `Keep`),
and the two files.
A row stands for its file name, numbered in the order of names.  A page of the
listing is a set of rows, those whose `Place` among the rows asked for falls on
it; `ListedAt` is the server's order, newest first, and `InOrder` the order in
which `collect_candidates` returns what it found.  Rows without a date, an IAU
name or the public flag are passed over (`CanBeTaken`).  An HTML answer with
status 200 and without the table of results, such as an error or a login page,
reads as an empty page and ends the walk as complete; `misled` remembers it.
Two files are copies when their residual is 0 (`IsCopy`), which it never is
between samples that are not all finite (`Incomparable`), not even the same
ones.  The three
identities the code compares (the file, the samples, the samples' owner) are
`files`, `Remote` and `owner`.  `Killed` ends a run before any step, in the middle of a
file too; the next run reads what is there (`ReadDirectory`).  `Leaderboard` adds the score file; `Kept` is the challenge as
it grows row by row in the order of names.

## Runs

| Run | Instance | Checks | Result |
| --- | --- | --- | --- |
| `single_flight` | 3 threads, 2 designations, 3 locks | `OneHolder`, `SlotMatchesClaimants`, refinement `SlotsSpec`, liveness `WaiterProceeds` | hold (6 thousand states) |
| `resolution` | 3 threads on 2 workers, 4 ticks | `ServedSetIsFresh`, `RefusalExpires`, `StoredSetSurvivesOutage`, `SlotSparesSearch`, `CachedIsStored` | hold (1.5 million) |
| `retention` | 3 lookups, 2 named epochs and 1 nameless, 3 identifiers | refinement `RetentionSpec`, `NoConflictEscapes`, `RepeatMakesNoDownload` | hold (0.1 million) |
| `retention_validity` | the same | `ServedStaysServable` | violated |
| `model_access` | 2 tabs, 2 keys, 2 links, 3 registries, 1 tick | `ScopeStaysInItsSession`, `ArtifactsBelongToScope`, `GatedRunsInScope`, `ShownResultsBegunInTime` | hold (0.9 million) |
| `model_access_ended` | the same | `EndedScopeStaysEnded` | violated |
| `classify_redshift` | 2 objects, 2 epochs, 1 upload, 3 redshifts | `LabelledValueIsTheSources`, `TypedValueIsUsed`, `OptOutSticks` | hold (0.8 million) |
| `declined_redshift`, `required_redshift` | the same | one property each | violated |
| `wiserep_search` | 2 workers, 6 spectra of 2 objects, pages of 2, 4 ticks | `WalkIsComplete`, `NamesOneObject`, `NothingBeginsLate`, `RequestsAreSpaced` | hold (0.4 million) |
| `user_models` | 2 requests, 1 model of 3 files, a batch of 4 spectra | `RowsAndFilesAgree`, `ResultsAreTheSpectras` | hold (0.5 million) |
| `monthly_scrape` | 7 rows of 4 objects, 2 runs, 2 windows, then the scores | `SearchIsComplete`, `RowsHaveFiles`, `OneNamePerSpectrum`, `NothingLost`, `EarlierFilesStand`, `ChallengeIsRepresentative`, `StandingsNameTheirCollection` | hold (0.2 million) |

The runs whose properties hold also check `TypeOK` (`BatchTypeOK` in
`user_models`, which contains it and the bound on the tasks).

Bounds, and why they are enough:

- *SingleFlight*: a count goes wrong with a holder, a waiter and a third thread
  that arrives or leaves; the second designation lets a thread return to
  another slot.  A thread refers to one lock, so three locks never run out.
- *Resolution*: two threads of one worker contend for a slot while the third,
  of another worker, changes the shared stores without it.  Four ticks let a
  set age past its lifetime (two) after a search (one) and still be looked at;
  a refusal lives for less than two ticks, so it is met live and expired.
  Refusals and retries come from the three lookups, each of which makes one.
- *SpectrumRetention*: an insert race takes two lookups, and the third observes
  its result; each mints at most one identifier.  `Blueshifted` contains one of
  the two named epochs, so both kinds of row occur; the third epoch has no name,
  so its first save succeeds and the later ones conflict, beside keyed saves.
- *ModelAccess*: two tabs are the least that lets a write-back meet a grant or
  an end.  With two keys one session replaces another once; `Unused` forbids
  reusing a key that a scope was granted under, so behaviours with more grants
  than keys are not explored.  One link lapses at the tick
  and the other does not, so a scope can be replaced by one that outlives it
  and the other way round; what the clock reads otherwise is never looked at.
- *ClassifyRedshift*: two objects, one with a spectrum that records no redshift,
  and three redshifts: one object's, the other's, and one only a researcher
  enters.  Sequences of submissions are not bounded.

- *WiserepSearch*: the five spectra first listed fill the three pages the cap
  allows; with the late one a page shifts, a row repeats, and a walk meets the
  cap.  The rows include one without a date, one of another object that answers
  to an alias, one that is not public, and one that is the earliest without
  being first.  The deadline is two ticks and the interval one, so a wait for the
  interval can straddle the deadline, and a retry may be asked to wait for
  longer than what is left (five ticks).  Two workers, since the throttle is a
  matter of pairs; searches begin at the first tick (`StartBy`), and the clock
  stops at four, past deadline and interval.
- *UserModels* and *BatchProcessing*: two requests meet on the one model in
  every pair of operations, and while the batch reads it; identifiers are never
  given twice, so a second model meets the first in nothing.  Of the four
  spectra two have one name outside an archive, and one is of an unknown type;
  two tasks run at a time, so that one waits.  The API accepts writes
  (`ApiWrites`), which only adds behaviours.  What one model, two requests and
  one limit cannot show, the proofs do.
- *MonthlyScrape*: the two spectra of one object with links of one name and the
  copies under other objects, of finite samples and of others, are what choosing
  and comparing go wrong on; one window has spectra on both sides, one is
  published late, one row has no date and one no name.  Two runs, since what a
  run does depends on the directory it finds only.  Pages hold two rows: the
  whole listing needs a page more than `--max-pages` (three), and what the date
  filter leaves needs fewer.

Symmetry is declared for threads of one worker, lookups, tabs, keys, workers
and requests, which nothing distinguishes; the runs that use it check no
liveness.  `retention`, `wiserep_search` and `monthly_scrape` do not check deadlock, since
the lookups, the searches and the runs come to an end; `Resolution` says when
everything has ended (`Terminated`), so a thread stuck on a slot would be found
as a deadlock.

Fairness is assumed only in `single_flight`: a thread that is woken by the lock
or by its timeout runs, and so does one inside the block or past it.  The
operating system schedules threads, `lock.acquire(timeout)` returns, and a
resolution is bounded by the client's deadlines; nothing obliges a lookup to
start.  Weak fairness of `Acquire(t) \/ TimeOut(t)` is enough as the two
together stay enabled while a thread waits.  With an unbounded wait
(`BoundedWait = FALSE`) it would not be.

## What the runs found

- **A spectrum that is served once and refused ever after** (`retention_validity`).
  A download does not validate the redshift WISeREP records and the retained
  copy's validation does, so an object with a negative redshift is classified
  by the first lookup and refused as "no longer valid" by the rest.
- **A scope that returns after it was ended** (`model_access_ended`).  A
  classification in flight in another tab writes back the session it loaded,
  scope included.  The key is the one the scope was granted under and the
  deadline still applies, so the other properties hold.
- **A declined redshift is used** (`declined_redshift`).  Clearing the box sets
  the parameter to `None`; the spectrum keeps WISeREP's value, which is what
  the classifiers read.
- **A required redshift is missing** (`required_redshift`).  A change of source
  resets the redshift after the form has checked that there is one.

Seen while modelling, without a run:

- A lookup that fails leaves the new source key beside the old provenance, so
  the next, first successful lookup of that name counts as an opt-out
  (`ui_views.py:1217-1219` means it for a declined value).
- A box holding the previous epoch's value is used, unlabelled, for an epoch
  that records none; the epoch form of a result whose redshift was declined
  brings the source's value back.
- An epoch of an object without an IAU name is served to the first lookup only.
  Every later one looks for no copy (`django_repositories.py:177`), downloads it
  again, and is refused as a failure of the spectrum store, since the bare
  insert meets the unique constraint (`UnkeyedConflicts`).  No row accumulates.
  `RepeatMakesNoDownload` and `NoConflictEscapes` are about the epochs with a
  name, and say so.
- A classification that the scope's deadline overtakes shows its result, and
  saves it; the next request sweeps it.  `ShownResultsBegunInTime` is about when
  requests begin.
- An upload whose insert succeeds without a confirmation removes the files of
  the model it listed (`model_service.py:131-137`): the model stays in the list
  and cannot be loaded.
- Two waiters of a slot that time out search together, as the class documents;
  the slower of two workers may overwrite a newer candidate set.
- `search_spectra_rows` says that the walk "cannot exceed" its total deadline
  (`client.py:291-294`), but the budget of a request is counted from after the
  throttle's wait: `NothingBeginsLate` states the bound that holds of what the
  client asks, one interval more.  It is no bound on the end: the clock is read
  when a piece of a body comes and not at its end (`client.py:496-510`), and a
  redirect is followed without a look at it.  Two workers may read the same last
  time and send together, and one whose time the cache has lost sends at once;
  `RequestsAreSpaced` is about each worker while the cache keeps the time.
- An HTML answer without the table of results, such as a login or error page
  with status 200, is a page without rows to the scrape
  (`wiserep_monthly_scrape.py:537-553`), which ends its search as complete
  (`684-685`) though part of the window was not seen.  Rows without a date or a
  name are passed over silently.
- `spectra_residual` says "Residual is 0 iff wavelength and flux samples are
  identical"; with a sample that is not a number, or an infinite flux, it is
  `nan`, and identical files are kept and listed twice.
- A file truncated by a kill in the middle of its write is there for the next
  run, which lists it and never fetches it again without `--overwrite`.
- A walk that reads by pages relies on fewer rows appearing during it than a
  page holds.  With a page's worth, the next page repeats the one before and
  the scrape ends its search as complete (`wiserep_monthly_scrape.py:707-722`);
  the client likewise reads a page without a new row.  `SearchIsComplete`,
  `WalkIsComplete` and `NamesOneObject` say so in their conditions: TLC refutes
  the unconditional `SearchIsComplete` with pages of one row.  The client
  asks for fifty rows a page, the scrape takes the server's default, and a walk
  lasts minutes.
- While a file is being written and compared it may have the samples of another
  that is listed, until the run rejects one; `OneNamePerSpectrum` is about the
  files not in hand.
- The scrape's README says that a re-run "re-downloads nothing unless
  `--overwrite`": the copies that it rejected are downloaded again each time.
- `upload_model` documents a `ModelConflictException` that nothing raises, and
  the API's answer says "uploaded and validated successfully" when the
  validation has failed.
- A metadata update saves the row with `update_or_create`: one that loaded the
  model before a deletion restores the row without the files.
- The leaderboard page falls back to the directory's date when the score file
  has none.

## Proofs

Every invariant and every action property of the passing runs, and both
refinements, is a theorem of its specification for all values of the constants
that meet the named assumptions.  TLC evaluates those on each instance, and has
checked each inductive invariant on the instance of its run before it was
proved.  Each development has the same shape: an invariant `IInv` made of named
parts, `Init => IInv`, a lemma per action (or per part, in `ScrapeProofs`) for
`IInv /\ [Next]_vars => IInv'`, and a short temporal proof for each property.

### The registry

`SingleFlightProofs` proves, for every set of threads (finite), designations
and locks, and with or without a bounded wait:

- `TypeCorrect`, `SlotAccounting`, `MutualExclusion`: `TypeOK`,
  `SlotMatchesClaimants` and `OneHolder` are invariants of `Spec`;
- `Refinement`: `Spec => SlotsSpec`, the registry implements `ResolutionSlot`.
  `Resolution` uses that abstract slot, so what it says of a slot is what the
  dictionary of locks provides.

`OneHolder` is not inductive.  A lock released by somebody who does not hold
it, or a slot forgotten while a thread refers to it (the next claim makes a
second lock), leads from a state with one holder to one with two.  The
inductive invariant `IInv` (theorem `Inductive`) adds that a thread in `hold`
has a designation; that a slot's count is the number of its claimants and they
all refer to its lock; and that a lock is locked exactly if one thread holds
it, with the slots of two designations having different locks.  Each conjunct of
`IInv` has a step lemma (`TypeStep`, `SlotStep`, `LockStep`) with one step per
action.  For the reference count they use that a claim adds one thread to the
finite set of claimants and a discard takes one away (`ClaimAddsOne`,
`DiscardTakesOne`, from the cardinality facts of `FiniteSetTheorems`).  For
the refinement each action maps to an action of `ResolutionSlot` or, for
`Discard`, to a stutter.

Assumptions used: `ThreadsFinite`, `WaitIsFlag`, `NoValues`; TLC evaluates them
on the instance it checks.

### The store of user models

`UserModelsProofs` proves for `BatchProcessing`'s `Spec`, that is for the store
with a batch beside it, for any number of requests, models and files:

- `StoreTyped`: `TypeOK`;
- `Consistent`: `RowsAndFilesAgree`.

`RowsAndFilesAgree` says that a listed model can be loaded unless it is `doomed`
or `unconfirmed`: both exceptions happen in the code, and the theorem is that
nothing else, no kill, failure, update or classifier beside it, is one.  It is
not inductive: a request that is about to save a row
might have lost a file, and one that is removing files might be removing those
of a listed model.  The inductive invariant `IInv` (theorem `StoreInvariant`)
adds why not.  The identifier of an upload is `Private` until its row is saved:
it was given out, it is not announced, and no other request has it in hand.  So
no other request touches its files, and the parts before the current one stay
whole (`UploadInv`); the row is saved with all parts whole, over nothing but a
private model.  A directory is removed only for a model that is doomed,
unconfirmed or still private, and when a deletion comes to the row the directory is gone or known to
be stranded (`RemovalInv`).  An update works on an announced model only and
writes the metadata part only, which a classifier does not need.  `BatchInv`
says that the batch's request stays where it is.  The proof has one lemma per
action (`StartUploadKeeps` to `KilledKeeps`); `LocalStep` and `OthersKeep` reduce
each to the model in the request's hand.

Assumptions used: `PartsAreDistinct` (a model's files have different names, the
metadata is the last), `ApiWritesIsSet`, `NoModelIsNone`.

### The batch

`UserModelsProofs` also proves, for any batch, names, redshifts and limit:

- `BatchTyped`: `BatchTypeOK`, with at most `Limit` spectra in hand;
- `ResultsFaithful`: `ResultsAreTheSpectras`.

The inductive invariant `BInv` (theorem `BatchInvariant`) is `IInv` with the
state of the tasks: a running spectrum has the redshift assigned to its name,
in parameters of its own; an ended one, or one that was left out, has an entry
under its name; each entry is a failure or is made from a spectrum of that name
with that redshift; and no entry of a batch with redshifts by name lacks one,
which is what the refusal of a file that matches none is for.

Assumptions used besides: `SpectraAreFinite` (the count of running spectra),
`LimitIsPositive`.

### Candidate set resolution

`ResolutionProofs` proves, for any threads on any workers and any durations:
`ResolutionTyped`, `OutageSurvived` (`StoredSetSurvivesOutage`), `SearchSpared`
(`SlotSparesSearch`), `CacheFollowsStore` (`CachedIsStored`), and of each step
`ServedFresh` (`ServedSetIsFresh`) and `RefusalsExpire` (`RefusalExpires`).

None is inductive, since a thread acts on what it read some steps ago.  `IInv`
(`ResolutionInvariant`) says of every set, in the database, in the cache or in
a thread's hand, that it was resolved within the deadline of a search that ended by
now (`Stamped`), and that a hand about to store or to copy a set has one
(`FoundInv`).  For the slot it adds that a set which carries the name of a worker
and is not stored yet is in the hands of the slot's holder: so nobody else's
search, under that slot, sees it appear (`SearchInv`).  The slot itself enters as
`ResolutionSlot`, which the registry is proved to implement.

Assumptions used: `WorkerOfCaller`, `Durations`, `NoSuchValues`.

### Retention

`RetentionProofs` proves, for any lookups, epochs and rankings:
`RetentionTyped`, `ConflictsStayInside` (`NoConflictEscapes`),
`NoRepeatedDownload` (`RepeatMakesNoDownload`), and `RetentionIsAtomic`, that
`SpectrumRetention` implements `RetainedEpochs`: a save made of two statements,
which another lookup's may come between and which may fail after the write, is
as good as one step.  Epochs without a name are included: at most one row of
theirs is ever served, since the constraint refuses the second.  The other two
are about keyed lookups, as the code gives no such promise for the rest.

`IInv` (`RetentionInvariant`) has one row at most for an epoch (`OneRowEach`);
an identifier in hand in no row or in that of the epoch selected (`HandInv`),
and two lookups with one identifier on one epoch (`OneEpochEach`), so an update
never turns one epoch's row into another's; and, behind a conflict, the row it
conflicted with, still there (`SeenInv`), which is why the re-read finds it.

Assumptions used: `RankingsOfEpochs`, `NoSuchValues`, `NamelessEpochs`.

### Gated model access

`ModelAccessProofs` proves, for any tabs, keys, links, models and valid
registries: `AccessTyped`, `ScopesStay` (`ScopeStaysInItsSession`),
`ArtifactsStay` (`ArtifactsBelongToScope`), and of each step `GatedRunsStayInScope`
(`GatedRunsInScope`); and `ResultsBegunInTime` (`ShownResultsBegunInTime`).

`ScopesStay` and `ArtifactsStay` are about rows, and a row is replaced by whatever copy a request
has held for minutes.  So `IInv` (`AccessInvariant`) says of the copies what it
says of the rows: artifacts are those of the scope beside them, and the scope is
the one granted under the key.  A handler never adds a scope to its copy
(`Handled`), and `begin_scope` uses a key that no row, cookie or request has.
What a request under way is to show comes from a scope that had not lapsed when
the request began (`BegunInTime`).

Assumptions used: `RegistriesValid`, `LinksNameModels`, `NoModelIsNone`,
`ClockBounded`.

### The redshift of a submission

`RedshiftProofs` proves, for any objects, files, epochs and recorded redshifts:
`RedshiftTyped`, `LabelsAreTrue` (`LabelledValueIsTheSources`), and of each step
`TypedValuesAreUsed` (`TypedValueIsUsed`) and `OptOutsStick` (`OptOutSticks`).

The label is not inductive: a page put together from the session takes its
value from the parameters and its label from the provenance.  `IInv`
(`RedshiftInvariant`) adds that the two are of one spectrum (`Paired`), that what
was declined is still offered for the source in play (`Declining`), and what a
form in flight carried (`Sent`).

Assumptions used: `SourceRecords`, `NoSuchObjects`, `NoSuchRecords`.

### The search

`WiserepProofs` proves, for any export, names, page size, number of workers and
durations: `SearchTyped`, `CompleteWalks` (`WalkIsComplete`), `OneObjectNamed`
(`NamesOneObject`), and of each step `NothingLate` (`NothingBeginsLate`) and
`SpacedRequests` (`RequestsAreSpaced`).

`WalkIsComplete` speaks of the end of a walk.  What holds before it
(`Collecting`): a row only moves down the listing, and by no more than the rows
that appeared, so every known row ahead of the next page has been read, and a row that was read is
at most that much beyond it.  `PublicationShifts` and `OneMore` count what a
publication moves.  A page without a new row, or a short page, then means that
nothing known is left, if fewer rows appeared than a page holds.  The object
and the date follow from the ranking: `RankingSorts` shows that the `CHOOSE` in
`Ranking` has a value, the rows of a finite set numbered by how many come
before each (`PlacesAreFilled`), and that nothing precedes its first.  For the
times, `Punctual` bounds what a request may take from when the wait before it
began, and `Spaced` keeps the cached time no earlier than the worker's own: what
a worker remembers of its last request goes when the cache loses its time.

Assumptions used: `RankableRows`, `SearchBounds`, `ListedRows`.

### The scrape and the leaderboard

`ScrapeProofs` proves of `Leaderboard`'s `Spec`, for any spectra, windows, pages
and number of runs: `ScrapeTyped`, `CompleteSearches` (`SearchIsComplete`),
`ListedHaveFiles` (`RowsHaveFiles`), `OneNameEach` (`OneNamePerSpectrum`),
`CandidatesAreKept` (`NothingLost`), `EarlierFilesKept` (`EarlierFilesStand`),
`ChallengeRepresents` (`ChallengeIsRepresentative`) and `StandingsAreDated`
(`StandingsNameTheirCollection`).

`IInv` (`ScrapeInvariant`) has a part for each: `Walked` as for the client's
search, with the page before it as the one thing a page is compared with; a
file in hand is torn, then whole (`Handled`, `Downloaded`), no other is
torn but by an earlier mishap, and none is missing from the list unless a run
was killed (`Accounted`); each
candidate that is done is listed with its samples, or these are on disk under
another name, be it the one in hand (`Held`, `Kempt`); listed rows have files, except those an overwriting run has taken
away (`Filed`); the run's table of samples names their files, and none in hand
(`Named`); the two files at the end are of one run but between the two writes
(`Stamped`).  `Dated` carries the last to the score file.

The challenge is a recursive function of the rows.  The library's induction
theorems cannot be instantiated by the installed provers, so `KeptIs` and
`KeptRepresent` argue by the least counterexample (`NatMin`): that the function
is what its equation says, and that what is kept of the first `n` rows stands
for all of them.

Assumptions used: `RowsAreNumbers`, `RowsHavePages`, `ListedNewestFirst`,
`WindowsAreDays`, `PositiveSizes`, `FilesAreTold`.

### Assumptions

They say of the constants what the code or the services give: pages and times
are positive numbers, an eligible row has a date and an identifier of its own,
a listing is sorted by date and has no row twice, and a value standing for "none" is
not one of the values it stands beside.  None bounds the number of threads, rows
or runs, but that rows and threads are finite.

### Only model-checked

Liveness (`WaiterProceeds`), which involves fairness and `ENABLED`.  The four
violated properties are not theorems, of course.

## Not modelled, and why

- Numerical code: processing, classifiers, templates, twins' nearest
  neighbours.  Its correctness is about numbers, not about steps.
- Link signing, credential comparison and gate configuration: taken as given.
  A link in `ModelAccess` is one that was minted.
- The `except Exception` branch of `classify` (a database error or a failing
  plot half-way through the artifacts).  The session lives in the same
  database, so an error there mostly loses the write-back as well.
- Pages left behind with the back button, and form fields other than source,
  redshift and epoch.
- Rows retained before source identities existed (they carry none, and by-name
  lookups do not see them), and rows saved through other paths.
- The single-spectrum REST endpoints (stateless, they refuse gated models), the
  explorer bundle, line lists and templates services.
- Column aliases of the export, the decoding of archives and of ASCII spectra:
  a file can be read or it cannot.
- How many redirects a request may follow: one too many is a request that fails.
- The scores themselves, and the choice of the month on the leaderboard page.
- Two scrapes at once, and a scrape during the scoring: an operator runs them
  one after the other.
- Database threads: Django's connection objects.  The shell start-up with its
  lock file and downloads.  Middleware and settings.

## Plan

Done: the slot and its registry, resolution, retention, the gate, the redshift
of a submission, the search with its ranking, the user model store, the batch,
the scrape and the leaderboard; every safety property of the passing runs and
both refinements proved.

Next: what the violated properties should be replaced by once the code is
decided on (what a retained copy's validation may assume, whether an ended
scope may be written back), and their proofs; a theorem that composes
`SingleFlight` with `Resolution`, beyond the refinement that each has a part
in.  Then, to model: the start-up lock and its downloads; two scrapes over one
directory, if operators come to run them so.
