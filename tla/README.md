# Verification of linuxmuster-squid

TLA+ models of the parts of linuxmuster-squid where steps of several actors,
failures or time decide what comes out; TLC runs that check them on small
instances; and proofs, checked by TLAPS, for every value of the constants.
Paths are relative to the repository; `controlplane/lmnsquid/` is left out of
the names of Python files.

## 1. The system

    admin -- cli.py --> api.py --+-> reconciler.py --> store.py   (yaml files, .prev notes)
                                 |        |  ^
                                 +-> updater.py
                                 |        v
                                 +-> docker_service.py --> Docker Engine --> containers
                                 +-> blocklist.py --> blocklists_dir/<name>/*.domains
                                                             |  (read-only mount)
    editor, blocklist-refresh.sh ----------------------------+
                                                             v
    client --> squid <-- /run/lmnsquid/lists <-- lists-sync.sh (entrypoint.sh, reload)
                 +--> Kerberos / LDAP group helper --> Samba AD

| Component | State | Operations | What makes it correct |
|---|---|---|---|
| `docker_service.py` | containers under three names (`lmnsquid-x`, `.new`, `.old`), volumes | `ensure_running` (create, stop, rename twice, start, wait, remove; and back), `remove`, `start`/`stop`/`restart`, `reload` | a replacement takes effect whole or not at all; nothing is left half done; a matching container is left alone |
| `store.py` | one yaml file per instance; a git repository of them | `list`, `get`, `put`, `delete`, each with its commit | agrees with the container that runs; reads back what was written; a change is recorded or an error logged |
| `reconciler.py` | none | `apply` = put, then ensure; `remove`; `reconcile_all` | one instance failing does not stop the others; a completed reconcile restores everything |
| `updater.py` | `.prev` note | `update` with undo and a health gate of its own, `update_all`, `rollback` | a failed update pins store and container back; the note names an image that worked |
| `api.py` | none | `def` handlers in a threadpool, `async def` handlers on the event loop, no lock | requests end; their interleavings do no harm |
| `blocklist.py` | two list files per instance | `ensure`, `add`, `remove`, `delete`: read, then replace | an answered change stays; squid can load what is written |
| `lists-sync.sh`, `entrypoint.sh` | copies of the lists on a tmpfs | filter, drop covered entries, move into place; parse; exec squid | squid never reads a list it cannot load or a list half written |
| `squid.conf.template`, `sni-sent.sh` | group answers with an age, tunnels | `http_access`, external ACLs with ttl and background refresh, `ssl_bump` | the blocklist wins; no ticket, no access but to listed domains; group changes take effect in time |
| `blocklist-refresh.sh` | the list file | download, cover, size floor, replace | a truncated download replaces nothing |
| `main.py`, the service unit | the process | start, restart on failure; nothing is re-applied at start | a later reconcile repairs what a crash left |
| `cli.py` | none | one request per command, an exit code | exit 0 of create, edit, rollback, update and reconcile means that what is stored is in service, of rm that definition and container are gone, of update-all that its image is stored everywhere |
| `models.py` | none | accept, rewrite, name, merge a patch, the settings of a container | a definition is the same in the request, the file and the container; names find their files |
| `config.py`, `security.py` | none | settings, token | input checks |
| `debian/*` | package, enable link, mask, record, process, instances' images | install, upgrade, reconfigure, remove, purge | an admin's `disable` survives; the new code runs; instances are lifted to the new image, or apt says that they are not |
| `packaging/*`, CI, deployment | none at run time | build | |
| `scripts/provision-keytab.sh`, `discover-ad-facts.sh` | SPN, keytab | run once by an admin | nothing changes before the conflict checks |

Hard behaviours, with their lines, are the `hazards` of `PROJECT.json`.  In
short: two requests replacing one container at the same time; an Engine call that
fails, a crash or a reboot between two renames; two health gates; a batch over
a snapshot; a check-then-write on the list files; two list syncs with one
temporary file; a reload that must not be answered with older lists; group
answers that are served stale while they are refreshed; rules whose order
decides; a tunnel judged twice, by its CONNECT and by its ClientHello; git
commands that meet at one lock; a client or a daemon killed while the other
waits; an upgrade during which the admin acts or the power fails.

## 2. Modules and the code

| Module | Models |
|---|---|
| `Engine` | the Docker Engine as `docker_service.py` uses it (external): `cont` maps ids to containers, a container's name is a slot (`main`, `new`, `old`) of its instance, names are unique and can be re-bound; `vols`; probes, exits, the restart policy, a host going down |
| `Store` | `store.py` and the `.prev` note: `yaml`, `prev`. `write_text` truncates before it writes, so `put` is two steps with an unreadable file (`Torn`) between |
| `DockerService` | `ensure_running`, `_wait_healthy`, `remove`, `start`/`stop`/`restart`: one action per Engine call, `task[w]` holds the locals of worker `w`'s request, `Handler` the except clauses |
| `ControlPlane` | the API handlers, `Reconciler`, `Updater` as callers: requests, the note, `put`, the loops of the batches, the undo, the second gate; `Crash` and `Reboot`; composes the three modules above |
| `Replacement`, `ControlPlaneRefinement` | the promise of a replacement in one step, and the mapping that shows `ControlPlane` implements it (an extension of `ControlPlane`, so that runs and proofs use the same one) |
| `DomainNames` | the pure rules on entries: `normalize_noauth_domain`, the filter of `lists-sync.sh`, `uncovered`, what squid matches and what it refuses to load |
| `DomainLists` | the two lists of one instance from the request to squid: API edits, `ensure`, editors, `blocklist-refresh.sh`, `lists-sync.sh` as open / fill / move of a named temporary file, reload, start and stop of the container |
| `AccessChain` | `squid.conf.template`: `Rules` are the `http_access` lines in their order, `Hit`/`Miss`/`Answer`/`HelperFails` the external ACLs and squid's cache of their answers, `Terminates` the `ssl_bump` lines |
| `Commands` | `cli.py`: every command as the client of a request of `ControlPlane`, `client` its exit code; `_emit`, `_fail_if`; a client killed, a daemon that dies under it or is down |
| `Definitions` | `models.py` and what `store.py` and `spec_for` make of a definition: the validators that rewrite or bound a field, `name`, `merge`, `put` and `get`, the restore of a backup (`docs/operations.md`) |
| `ChangeLog` | the git change log of `store.py` and the git steps of `debian/postinst`: working tree, index, last commit and `index.lock`, one action per git command |
| `PackageService` | `debian/preinst`, `postinst`, `prerm`, `postrm` with debhelper's parts, under dpkg: the enable link, mask and record, the process, the lift of the instances; the admin and the power at every step |
| `MC...` | the constants of the runs |
| `ControlPlaneProofs` | theorems about `ControlPlane` that need no tidy past: the types, requests on different instances (`Serial`), what a reconcile restores |
| `ControlPlaneReplacementProofs` | theorems about replacements that no crash cuts off: nothing left over, the refinement of `Replacement`, updates, deletes, service |
| `DomainListsProofs`, `AccessChainProofs`, `DefinitionsProofs`, `ChangeLogProofs`, `PackageServiceProofs`, `CommandsProofs` | theorems, each about the module it is named after |

What is abstracted: a definition is an image and a port, and the label of a
container is the definition itself (the fingerprint is taken as injective); an
image is characterised by what its health check may report; a domain name is a
sequence of labels of which only the kind matters (digits, `0x`, digits and
hyphens, other); a site in `AccessChain` stands for a domain with its
subdomains, since `DomainNames` has the matching.  Lists in `ControlPlane` are
only absent, empty or filled; their content is in `DomainLists`, which models
one instance that exists (its `delete` is in `ControlPlane`).  The pull before a
replacement is left out: a failing one is ignored and a slow one only waits.

A step is one Engine call or one file access.  A handler's first action
includes the read of the store its first lines make.  Three kinds of failing
call are distinguished, because the code treats them differently: a call whose
object is gone or renamed (always possible, the guard of the call), an
`APIError` inside a `try` (`Refuse`, hazard `fault`), and any exception that no
clause catches (`Abort`, hazard `abort`): a lost connection at any call, and an
`APIError` where none is handled, in an except clause itself
(`docker_service.py:248`, `265`, `268`), at the removal of the old container
(`260`) or in the `status` that answers (`214`, `261`).
`accepted`, `promised`, `told`, `since`, `changed`, `reloaded`, `choice`, `noted`,
`warned`, `touched` and `met` are history: no guard reads them, only properties
do.  Definitions that begin with
the name of another one and a comment `Mutant:` are that definition with a bug;
no specification uses them.

`Definitions` makes a request one step, since `ControlPlane` has its parts.  A
school or role is a sequence of words joined by hyphens; a list in a string is
its parts and whether it is *tidy*, written as the validator writes it; the image
stands for the fields that are tested and kept.  `up` says that the container of
a request came up, which `ControlPlane` decides.

Three things are simpler than in the code.  The `.prev` note is written in one
step, although `write_text` (`updater.py:53`) truncates it first as it does a
definition: a crash in between leaves an empty note, and a rollback to it stores
an image that reads back as no definition.  A batch compares container images in
`PackageService` (`Batch`), where `updater.py:102` compares the stored ones; the
difference is in section 6.  In `PackageService` an admin may mask the unit
before and after every script step but the restart.

`ChangeLog` leaves out the one warning when there is no repository, the
`.gitignore` and configuration commands of the first configure, files owned by
another user, and a kill between the two writes (reference, index) of one git
command.  A configure that overlaps a `put` can commit a definition half
written; the next `put` commits the whole one, and no property is about the
state between.  `git ls-files` fails in a repository git cannot read, of which the
commands around it warn; that it fails alone is the hazard `unlisted`
(`debian/postinst:91`), which the run and the theorem about `ConfigureRecords`
exclude, since its error goes to `/dev/null` (section 6).

`PackageService` knows versions by what changed: the mount of the lists, the
record of the enable state, the pinned image.  The versions up to 7.3.6 are the
state they leave behind (`Init`).  `PowerLoss` and `Boot` happen between any two
script steps; a host that is not `up` is also one whose package is worked on in a
chroot.  Left out: a downgrade to a version without the record, an upgrade of a
package that was unpacked and never configured, instances created during an
upgrade, and a `mask` in the milliseconds between two lines of the postinst.

## 3. Runs

TLC, two workers, each run below five minutes.  Deadlock is checked in every
run: no request ever leaves the system without a step.

| Run | Asks | Bounds |
|---|---|---|
| `CP_updates` | what update-all and reconcile leave behind when replacements fail and the daemon refuses calls, an admin stopping an instance meanwhile: no `.new`/`.old` (`NoLeftovers`), only a healthy container replaces an accepted one (`OnlyHealthyReplaces`), a matching one is not touched (`MatchingLeftAlone`), the note names an image that worked (`NotesKnownGood`), `ControlPlane` implements `Replacement` (`AtomicReplacement`); liveness: every request is answered (`EveryRequestEnds`), a batch reaches the instances after a failing one (`BatchReachesEvery`) | 2 instances with their own ports, a good and a bad image, 1 thread and the event loop; refused calls, no client killed. `update` is what update-all runs for each instance |
| `CP_requests` | every command on one existing instance, `start`/`restart` on the event loop beside the thread: the previous container is back in service (`RestInService`), a delete leaves nothing (`DeleteLeavesNothing`), an update ends with the new definition stored and healthy, or the old one stored and in service unless bringing it back failed too (`UpdateSettles`), and edits, rollbacks and deletes implement `Replacement` too (`AtomicReplacement`) | 1 instance, 3 images, two of them interchangeable (symmetry), 1 thread and the event loop, no refused calls |
| `CP_recovery` | every command that changes an instance, with refused calls, lost connections, crashes, reboots and killed clients at every step: a reconcile that completes restores every stored instance (`ReconcileRestores`; one whose file is torn reads as not stored); exit 0 is only given for what is so (`ExitZeroIsTrue`); no container of an instance runs over a deleted list directory (`MountsNeverDangle`), none serves that no definition stands for (`NothingServesUndefined`), none is started under its `.new` name (`SpareNeverServes`) | 1 instance, 1 thread, a good image and one without a HEALTHCHECK, which passes the gate of a create and fails that of an update; the view leaves out how the last command ended, which no step reads |
| `DL_lists` | both lists, edits and reloads overlapping as they come: squid can load what it finds (`NothingBungled`), a reload with no other sync beside it brings squid to what the files say (`ReloadTakesEffect`), the noauth list holds names of domains (`NoauthNamesDomains`), an answered add is lost to an `ensure` that found no list only (`OnlyEnsureLosesAdds`) | both lists, 1 thread, the event loop, the entrypoint; 6 names |
| `AC_policy` | requests with and without ticket, for listed, blocked, both, neither and an address: `TicketOrListed`, `BlocklistWins`, `NoauthTunnelKeepsName`; in time: `RemovalTakesEffect`, `JoiningTakesEffect`; liveness: `EveryRequestAnswered` | 1 connection, 1 user, 2 sites, 1 address with a PTR record, role ttl 2 ticks, internet ttl 1, a reload of the blocklist |
| `PS_service` | every sequence of package operations with the admin and the power between any two steps: the admin's word is kept (`DecisionKept`), no old code runs on after a configure (`NewCodeRuns`), a service kept off is not started (`OffStaysOff`), instances left behind are told of (`LiftedOrTold`) | 4 versions, 2 instances, services that fail to start |
| `CL_log` | two requests and a configure: what no request works on is committed or an error was logged (`RecordedOrNoted`), a commit records no other instance's change (`CommitsOwnFile`), a configure without a warning has recorded everything (`ConfigureRecords`) | 2 threads and 2 instances (symmetry), 1 content; git commands fail, crashes leave the lock behind, the repository is damaged and repaired |
| `DF_edits` | what was written reads back as what the container was made of (`ReadsBack`), every stored instance can be asked for (`AllAddressable`) | 2 names, one of them of 31 + 1 + 31 characters; lists tidy, untidy, empty and with a bad part; a body with a school of 32; 2 backups |
| `CP_v_concurrent`, `DL_v_add`, `CL_v_put`, `DF_v_identity` | violations, see section 6 | |

Why the bounds are enough.  A replacement involves at most three containers of
an instance, and `Ids` is larger than the number a run can have at once (those
that exist and those tasks still hold), so creation never fails for want of an
id.  Ids are interchangeable; `Smallest` picks one, which loses no behaviour up
to a renaming.  Instances share nothing but the batch that visits them, so two
show what one does to the next.  A good and a bad image make every outcome of a
gate happen; a third one is needed only where the definition gone back to must
differ from both (`CP_requests`; `good` and `good2` pass and fail alike and
start alike, so exchanging them is a symmetry).  The names of `DL_lists` are a
domain, a name two labels below it, a top-level domain, an address in two
notations and a name whose last label has no letter: with dotted and bare entries they contain every relation
`uncovered` and the filters look at.  In `AC_policy` one connection is enough for
the rules, and the cache is shared over time, not between connections: a later
request of the same connection meets the cache an earlier one filled.  A tick
stands for ten seconds, so the ttl of the internet group (10 s) is one tick; the
role's 300 and 60 s are shortened to two and one, which keeps their order and
the points where the background refresh begins (grace 30: before the last tick
ends; grace 0: only at the end).  `HelperTime` is the age a question may reach;
0 lets a lookup take less than a tick, and the theorems hold for every value.
One site is listed throughout, and it or the other one is blocked: with the
address that covers every pair of verdicts.  `MinLines = 1` makes the empty
download the one that is refused.  In `PS_service` the versions are 7.3.0 (no
lists mount, no record), 7.3.6 (mount, no record), 7.3.7 on the image 7.3.6 had
and a later one that moves it, so that every kind of upgrade occurs; two
instances let a lift fail halfway.  Two definitions and one content are enough
for the change log: a file is as committed or not, and what a process does to a
second definition is what it does to every other.

`create` is in `CP_recovery` only: one whose image fails leaves a
definition without a container, and the API says so (500), so `RestInService`
speaks of instances that were in service.  The runs with `stop`, `fault` and the
crashes are apart because their product exceeds five minutes, not because a
property fails, except where section 6 says so.

`DL_lists` excludes no overlap.  What two syncs do to each other is a condition
inside `ReloadTakesEffect`: `told` says that the last reload began after the last
change and that no other sync was under way when it began, nor began before it
was answered (`since`).  That an `ensure` may empty a list is in `DL_v_add`;
`OnlyEnsureLosesAdds` says that nothing else does.  The one-thread runs of
`ControlPlane` rest on the same fact: the daemon takes no lock, and what two
requests on one instance can do to it is `CP_v_concurrent`; what holds even
then are the theorems `TypeCorrect` and `SpareIsCold`.

The three passing `CP_` runs take `CmdSpec`, the control plane with the commands that
ask it, and a view that leaves out how the last command ended: no guard, no fair
action and no property but `ExitZeroIsTrue`, which looks at the step itself, reads
it, so states that differ in it only behave alike, for the liveness properties too.

Fairness is assumed in two runs.  In `CP_updates`: weak fairness of each
worker's own steps (`Work`), since the operating system schedules a thread that
is not blocked, every poll sleeps for a bounded time, and the Engine answers
each call.  Calls may fail but never have to, so no request ends only because
the daemon happens to refuse something; nothing is assumed of the containers,
their probes or the clients.  A container that stays `starting` is given up by
the deadline (`Fails`), which is part of the code.  In `AC_policy`: squid takes
up every request it can decide, since one process handles its events in turn,
and a helper that was asked answers or fails, since squid takes one that dies for
an error and an LDAP search ends.  Nothing is assumed of the clients, of the
groups or of time.

Every property of a passing run has a mutant: an edit of a modelled definition
that a plausible bug would make (the parked container removed instead of
renamed, the undo without the store, the lists deleted before the container, the
noauth line above the blocklist line, a commit of the whole index) and that
makes the run fail.

## 4. Proofs

Every safety property a passing run checks is also a theorem, for every value of
the constants that satisfies the named assumptions of the modules.  A theorem
that holds only of some behaviours or constants says so in its statement; this
section gives the reason for each such hypothesis.

**`ControlPlaneProofs`: any number of requests at a time.**  `TypeCorrect` and
`SpareIsCold` (`SpareNeverServes`), with every hazard.  Both follow from
`Inductive`.  Neither property is inductive: a step types a task's new fields
from its old ones, so the invariant says which fields each label needs
(`WellFormed`); and a container that is started was held by a task since an
earlier step, so the invariant says that what a task holds as `old`, and as `new`
when it is about to start it, does not carry the `.new` name (`RefsNotSpare`).
It stays true because no rename goes to `.new` and a new container never takes an
id that a task holds.

**`ControlPlaneProofs`: any number of requests on different instances.**  The
other theorems about the control plane have the form `Spec /\ []Apart => ...`.
`Apart` says that no two requests of the threadpool are after one instance: a
request claims the instance it works on, and a reconcile also those of its
snapshot it has not come to, because it applies to them the definitions it read
at the start.  An update-all claims only the instance it is at: `update` reads
the definition of each anew.  Start, stop and restart of any instance run on the
event loop beside the threads, and so do list edits, probes, exits and the restart
policy.  `Apart` is always true with one thread, as in the runs of these
properties; the number of threads, instances, images and ids stays arbitrary.  It
cannot be dropped: what a second request on the same instance does is
`CP_v_concurrent`.

- `SerialInvariant`, with every hazard, is what the others rest on.  `Serial`
  says of each thread, for each label of `ensure_running`, `remove` and the
  callers, which container holds each of the three names of the instance
  (`Shape`), that the definition being applied is the stored one, and for a
  reconcile that its snapshot is too (`Stored`), and that the lists exist where a
  container may be made (`Listed`).  It is what lets a call's success be concluded from the calls
  before it.  A step keeps it for the threads beside it because it renames,
  removes, stores and deletes only what belongs to its own instance
  (`StepElsewhere`), which none of them claims (`NotClaimed`).
- `NoDanglingMounts` (`MountsNeverDangle`) and `MatchingUntouched`
  (`MatchingLeftAlone`), with every hazard.
- `DeletedStaysOff` (`NothingServesUndefined`), with every hazard.  It needs that a
  container under `.old` was stopped by a call, so that no reboot starts it
  (`Off`).  An admin's start or restart is excluded (`NoStarts`): one that has
  looked its container up may start it after the delete has forgotten the
  definition and left a container behind.
- `GatingInvariant`, with every hazard: what makes an answer true.  When
  `ensure_running` returns, the container under the instance's name was made from
  the definition it was given (`InPlace`) and, where no admin stops one
  (`NeverStopped`), is in service: it runs, or its restart policy starts it.  It
  has to stay so until the request is answered, while the Engine and the event
  loop go on (`Lasting`).  The argument is about the label `retire`, where the new
  container has passed the gate and the old one still exists (`Gated`), and about
  the flag of a container that an API call stopped, which no running one carries
  (`NoneManual`).
- `ReconcileRestoresAll` (`ReconcileRestores`), with every hazard, for
  `[]OneRequest`, at most one thread at work (`OneApart`: a special case of
  `Apart`): whatever crash, abort or refused call left behind, a reconcile that
  ends has each stored instance it does not report running as it is defined.  The invariant is
  `Visiting`: this holds of each instance the batch has behind it.  What it has
  to survive is the work on the next instance (`OthersUntouched`) and what the
  Engine does meanwhile (`Lasting`).  `Undisturbed` excludes an admin's stop and
  images whose container exits by itself: either may come between the visit and
  the end of the batch.  `OneRequest` excludes an edit or a delete there, which may
  leave an instance unlike its definition and report it in an answer of its own.

**`ControlPlaneReplacementProofs`.**  These assume `Apart` too, and exclude crash, abort and reboot
(`OnlyFaults`: a call inside a `try` may still be refused at every step), since those
really leave half-done replacements for the next `ensure_running` to sweep.

- `OrderlyInvariant`: every container under `.new` or `.old` belongs to a
  replacement under way (`Tidy`); every container that has not passed a gate is
  the one a task is trying (`Proven`): of the containers of its own instance, a
  thread knows that they are its own (`Sole`); and a failed request leaves what it applied
  in the store (`Ends`).  From it: `NothingLeftOver` (`NoLeftovers`) and
  `OnlyHealthyReplacesHolds` (`OnlyHealthyReplaces`).
- `ReplacementIsAtomic` (`AtomicReplacement`): the refinement.  The live
  definition of an instance is that of its accepted container under the main name
  or, if there is none, under `.old` (`Live`).  Step by step: each call of `ensure_running` is a stutter
  but the gate, which is `Switch`; writes to the store are `Define`; a delete is
  `Leave`, `Drop` and `Forget`.  The lemmas say what each kind of step does to
  `Live` (`LiveStep`), and which step of `Replacement` that is (`AtomicThread`).
- `UpdateSettlesHolds` (`UpdateSettles`), where no admin stops a container
  (`NeverStopped`): an update whose undo returned without an error has the base
  definition in service by `GatingInvariant`.  An update that was undone after an
  admin's stop starts the container again, but a stop may still follow before
  the update is answered.
- `DeleteIsComplete` (`DeleteLeavesNothing`): the volumes can only go because no
  container of the instance is left under any name, which is `Tidy`.  List edits
  are excluded (`NoListEdits`): one that comes between the deletion of the
  directory and of the file makes the directory again.
- `NotesAreKnownGood` (`NotesKnownGood`), for definitions that change by updates and
  rollbacks (`NoEdits`): a create and an edit store their definition before it is
  tried, and an update after a failed one notes an image that never ran.
  `Known` follows the stored image back to one that was live, or to the note.
- `StaysInService` (`RestInService`), without refused calls (a refused rename or
  restart of the old container takes the instance out of service, section 6),
  with the ports of each instance its own (`OwnPorts`: otherwise the old container
  may find its port taken), and for requests on provisioned instances (`NoStops`:
  no create, which begins without a container, and no stop).  `Serving` says in
  which steps an instance may be down, and that the replacement then has a
  container to go back to; `Ported` that this one finds its port free.

**`CommandsProofs`.**  `CommandsAreRequests`: the client adds no step to the
control plane, so its invariants hold of `Commands`.  `ExitZeroHolds`
(`ExitZeroIsTrue`), for `[]OneRequest` (reconcile and update-all answer for every
instance, so another request anywhere could belie them) and with every hazard, the
client killed included, where no admin stops a container (`NeverStopped`: a stop that
comes between the gate and the answer makes the answer an old one): for create,
edit, rollback and update from `GatingInvariant`, for reconcile from `Visiting`,
for rm from `Serial`, for update-all from `LiftingInvariant`: the snapshot is right for the
instances ahead, and those behind that are not reported are on the image.

**`DomainListsProofs`**, for any names, threads and list contents.

- For `Spec`, overlapping reloads included: `ListsTypeCorrect`,
  `SquidAlwaysLoads` (`NothingBungled`) and `NoauthStaysNarrow`
  (`NoauthNamesDomains`), from `ListsInductive`.  `NothingBungled` alone is not
  inductive: the lists come from the pipeline's memory through a file that two
  syncs may share.  The invariant follows `CleanList` through all of them: what a
  worker is about to write, the temporary file, the file in place, what squid
  has loaded.  The lemma that carries it is `UncoveredLoads`: whatever is in a
  list, `uncovered` leaves a subset squid 6 loads; a truncated file (the empty
  list) is clean too, and two syncs that overlap (section 6) lose entries but never
  stop squid.
- `OnlyEnsureLoses` (`OnlyEnsureLosesAdds`): the invariant says that what an edit has read
  of a list still names every promised entry that the file names when it writes,
  and that a list it creates itself stands over none (`Kept`); `uncovered` keeps what a
  list matches.  A thread between its check and its write has no such invariant,
  which is the exception the property makes.
- `ReloadsTakeEffect` (`ReloadTakesEffect`) rests on `CopiesFollow`: where a sync that
  runs alone is, and that a file in place is what the lists on the host say
  unless they changed since (`Followed`).  `uncovered` keeps what a list matches: of
  the entries that cover a host take the one with the fewest labels, which nothing
  covers.  It is found by `Smallest`, a pigeonhole argument on intervals, in the
  place of an induction.

**`AccessChainProofs`**, for any users, sites, rule-matching requests, ttls, refresh
times and helper times:

- `ChainTypeCorrect`, `NoTicketNoPassage` (`TicketOrListed`), `BlockedStaysShut`
  (`BlocklistWins`), `TunnelsKeepNames` (`NoauthTunnelKeepsName`), `RemovalInTime`
  (`RemovalTakesEffect`), `JoiningInTime` (`JoiningTakesEffect`).
- The invariant has two parts.  `Policy` says for each stage what a request must
  have shown to be there; the rules are evaluated at the first stage only, the
  rest is inherited.  The timed part relates three clocks that run apart: an
  answer of age n is about a membership at most n + `HelperTime` old, a question
  of age n about one at most n old, and a request past the role that waits for
  the Internetsperre has a role answer older by that wait at most.  Serving a
  stale answer while it is refreshed in the background does not lengthen the
  bound, since the refreshed one replaces it only with its own age.

**`ChangeLogProofs`**, for any instances, contents and threads and with every hazard:

- `ChangeLogTypeCorrect`, `NothingUnnoted` (`RecordedOrNoted`), `OwnCommits`
  (`CommitsOwnFile`), `ConfigureLeavesNoGap` (`ConfigureRecords`).
- `RecordedOrNoted` speaks of definitions nobody works on.  The invariant says
  what is true while somebody does: a definition that differs from the last
  commit and has no error noted has a request that has not finished, or it is
  staged as it is and a probe is about to find the commit missing (`Waits`); and
  a file git does not track has a put that is still to stage it (`Tracked`).
- `ConfigureRecords` speaks of the end of a configure.  `Recording` says for each
  of its commands what those before have established, for the definitions that no
  request has touched since it began.

**`PackageServiceProofs`**, for any number of versions and instances:

- `PackageTypeCorrect`, `DecisionSurvives` (`DecisionKept`), `OffUntilStarted`
  (`OffStaysOff`), and, for hosts whose policy-rc.d does not interfere,
  `NewCodeAfterConfigure` (`NewCodeRuns`) and `SilentMeansLifted` (`LiftedOrTold`);
  where it does, both fail (section 6).
- `DecisionKept` needs to know which state of the package each script step belongs
  to (`Places`) and that a decision without a record is on an old version no script
  has begun to replace (`Recorded`); `NewCodeRuns`, that a process of an older
  version runs only between the unpacking of a new one and the restart
  (`Current`); `LiftedOrTold`, which instances are lifted at each step of the
  postinst that follows the restart (`Lifted`).

**`DefinitionsProofs`**, for any bodies, patches and backups:

- `DefinitionsTypeCorrect`, `WritesReadBack` (`ReadsBack`), from the validators
  being idempotent: what they rewrote they accept and leave alone, so a
  definition that is read again is the one its container was made from.
- `NamesAreAddressable` (`AllAddressable`): two names of at most 31 characters make
  one that `_require` takes.  `SizedBackups` says the same of the names in a
  backup, which was a copy of the files when it was made.

Only model-checked: liveness (`EveryRequestEnds`, `BatchReachesEvery`,
`EveryRequestAnswered`), which needs `ENABLED` and fairness.  What two requests
do to each other has no theorem beyond `TypeCorrect` and `SpareIsCold`, since most
of what one would state is false (section 6).


## 5. Not modelled

- `noauth_active`, `status`, `logs`, `access_logs` and the other reads; `pull`.
- `security.py` (one comparison of the token), `config.py` (read once at start),
  the patterns of fields that are tested and kept as they are.
- Message text, IDNA, the layout of list files beyond entries, comments in them;
  option parsing and printing of the CLI.
- Kerberos itself: a request carries a ticket of a user or none.
- The keytab and AD scripts, `packaging/*`, CI, the deployment examples; users,
  directories, permissions and the virtual environment in the maintainer scripts.

Hazards without a property: a container that a failed edit left behind is
skipped by `update_all` (`updater.py:102`); a list edit during a delete
(`api.py:193`); an add that writes back a list a refresh replaced
(`blocklist.py:162`); a reconcile or an edit that goes on with a definition another
request has changed meanwhile (`reconciler.py:41`); a reload between the two decisions of one CONNECT
(`squid.conf.template:80`).  In each the model has the behaviour and no document
excludes it, or section 6 has it.  The size floor of `blocklist-refresh.sh` is one
guard before one `mv`; the regular expressions for addresses
(`squid.conf.template:92`) are text, for a test; two health gates with different
rules (`updater.py:132`) waste an update to an image without a HEALTHCHECK,
which the repository does not ship.

## 6. Disagreements between code and documentation

Each with a run:

- `CP_v_concurrent` (`docs/operations.md:269`, "safe to run at any time"): a
  reconcile beside an edit of the same instance can remove the container the
  edit has just promoted, by the id it found under `.new`.
- `CL_v_put` (`store.py:24`, "Persist instances as `<name>.yaml` files"): `git rm` of
  a delete also removes the working file, which a create of the same instance
  may have written again since the delete unlinked it.
- `DL_v_add` (`blocklist.py:130`, "an empty list if absent"): between the check of
  an `ensure` in a threadpool worker and its write, the event loop can create the
  list and answer an add; the empty list then replaces it.
- `DF_v_identity` (`models.py:60`, "identified by `school` x `role`"): both may
  contain hyphens, so two pairs join to one name; the create of the second
  replaces the definition of the first.

A passing run shows these when one line of its configuration is changed, each
property checked alone:

- `CP_requests` with `Hazards = {"fault"}` (`api.py:78`, "keeps/restores the previous
  container"): when the rename of the stopped old container is refused, it is not
  started again; having been stopped by a call, the restart policy leaves it down.
  (`StaysInService` therefore excludes refused calls.)
- `CL_log` with `"unlisted"` added to its `Hazards`, `ConfigureRecords`
  (`debian/postinst:58`, "best effort, but never silently"): an `ls-files` that fails
  alone lists no definition, so none is added or committed, and no `WARNING` says so.
- `PS_service` with `Hazards = {"policy"}`, `NewCodeRuns` and `LiftedOrTold` (`docs/operations.md:245`, "all instances
  are lifted"): where policy-rc.d denies the restart, the old process answers, its
  update-all skips every instance, since all are on the image of the code in its
  memory, and apt prints nothing.

Met while modelling, without a run:

- `updater.py:102` (`cli.py:319`, "Lift every instance onto the maintained default
  image"): the stored images are compared.  An instance whose definition a failed
  edit moved to the target while its container stayed is skipped, with exit 0.
- `api.py:156` (`cli.py:353`, "Only the options you pass are changed"): an edit
  merges into the definition it read at its start and takes back what another
  one stored meanwhile.
- `lists-sync.sh:53` (`blocklist.py:186`, "never sees a half-written list"): two
  reloads share the temporary file of a list; one truncates what the other is about
  to move, and squid reads an empty list.  After reloads that overlap, what squid
  matches need not be what the files say, although each was answered
  (`ReloadTakesEffect` speaks of a lone one).
- `updater.py:53` (`README.md:96`): a crash between the truncation and the write of a
  note leaves it empty; a rollback then stores an empty image, unvalidated
  (`model_copy`), which no later request can read.
- `docker_service.py:321` ("everything the instance owns"; `cli.py:125`): `remove`
  looks up the main name only; the leftover of an interrupted replacement and its
  volumes stay, and `rm` exits 0.
- `store.py:81` (`docs/operations.md:377`, "every create/edit/update/rm is one
  commit"): a git command that meets the lock of another request fails, the error
  is logged, and the change is in no commit until the next one.
- `lmnsquid start` of an instance that is stored and has no container exits 0.
- `docker_service.py:190` ("Only a healthy replacement removes the previous
  container"): after a crash between the two renames, the next `ensure_running`
  sweeps the parked container before its replacement exists.
- `updater.py:132` and `docker_service.py:281`: an image without a HEALTHCHECK
  passes the first gate and is rolled back by the second.
- `docker_service.py:325` ("goes with the definition"): a crash between
  `docker.remove` and `store.delete` leaves the definition with its lists gone.
- `README.md:96` ("the last known-good"): an update after a killed update, or
  after a create or an edit that failed, notes an image that never became
  healthy, since the store is written first.
- `updater.py` ("no failure here may leave the school pinned to a broken image"):
  when the undo of an update fails too, the store names the old definition and
  its container need not run; the request ends in an error (`UpdateSettles` allows
  exactly this).
- `controlplane/tests/test_lists_sync.py:6` ("Both must agree"): `foo.1-2` is
  accepted by the API and dropped by `lists-sync.sh`, which wants a letter in the
  last label; `AcceptsNoauth` and `SyncKeepsNoauth` differ in the model as well.
- `blocklist.py:157` ("the parent already covers it"): a noauth add below a
  hand-written entry that names no domain, such as `.org`, changes nothing in the
  file, and `lists-sync.sh` then drops the entry it was covered by.
- An add that reads the list before `blocklist-refresh.sh` replaces it and writes
  afterwards undoes the refresh; an add during a delete re-creates the directory.

## 7. Plan

Done, in this order because a wrong replacement takes a school offline: the
lifecycle (`Engine`, `Store`, `DockerService`, `ControlPlane`), its promise
(`Replacement`), the lists (`DomainNames`, `DomainLists`), the policy
(`AccessChain`) with its timing, the package (`PackageService`), the commands
(`Commands`), the change log (`ChangeLog`), the definitions (`Definitions`); then
a theorem for every safety property of the runs, the refinement included.

Next:

1. `ExitZeroIsTrue` for the commands on one instance under `Apart`; today the
   whole property is proved for `OneRequest`, which its reconcile and update-all
   parts need.  A note that a crash leaves empty (`NotePrevious` in two steps).
2. Abstract specifications for the lists (one list squid applies that follows
   the files) and for the group decision (a decision from a membership at most
   ttl old), each with a refinement; `CopiesFollow` and the timed part of the
   invariant of `AccessChain` are the mappings' lemmas.
3. `Undisturbed` in `ReconcileRestoresAll`: the same for a reconcile during which
   containers exit, with "running" weakened to what the restart policy brings
   back.
