# A TLA+ model of MiniCA

MiniCA is a small certificate authority server: a Rust program that keeps
certificate authorities (CAs) and certificates in SQLite, does all cryptography
by running the `openssl` command line tool, and serves a web UI and a JSON API.
A Go client (`cli/`) requests certificates from it.

This directory models the parts of MiniCA whose correctness depends on the
order in which things happen, checks them with TLC on small instances and
proves the most important results with TLAPS for all instances.

## 1. The system

| part | code | state | operations |
|---|---|---|---|
| CA state kept through openssl | `openssl.rs` | per CA: certificate, key, `index.txt`, `serial.txt`, `crlnumber.txt`, CRL, as blobs of a database row | create, sign, renew, revoke, gencrl, import, each in a private work directory |
| signing service | `service.rs` | none of its own; what a running request has read | create/import CA, create/import/renew/revoke certificate, renew CA, truststore, downloads |
| database | `db.rs` | tables `certificate_authorities`, `certificates`, `ca_locks`, `users`, `templates`, `schema_version` | one method per query; multi-row writes are transactions |
| signing lock | `db.rs` (`acquire_ca_lock`, `verify_lock_tx`, `release_ca_lock`) | `ca_locks`: one row per CA, owner and expiry | acquire, verify inside a commit, release, purge of expired rows |
| validity arithmetic | `service.rs` | `issue_time`, `valid_days` of a row against the certificate itself | clamp, renewal checks, rounding |
| process runner | `openssl.rs` (`run_in`, `ChildGuard`, `drain`, `WorkDir`, `reap_workdirs`) | child processes, pipe threads, directories | run with timeout, kill and reap, remove or keep directories |
| backup and repair | `service.rs`, `db.rs` | a YAML file; `meta_version` | export, restore into an empty database, re-derive metadata |
| users and login | `auth.rs`, `service.rs` | table `users`, the login cache, config accounts | authenticate, create, delete |
| templates | `service.rs`, `models.rs` | table `templates`, default flags | create, update, delete |
| opening and migration | `db.rs` | the database file and its pre-migration copies | open, copy, migrate, restore on failure, prune |
| log rotation | `logging.rs` | active log, numbered backups, a staging file, one background thread | write, rotate, compress, recover |
| legacy import | `legacy.rs`, `main.rs` | a 1.0.x directory tree, a process of its own | re-runnable import |
| HTTP layer | `web.rs` | none in the server; three cookies and the forms of open pages in the browser | sixty-six handlers: authenticate, check the CSRF token, call the service on tokio's blocking pool, answer with a page, a redirect and a message, a file or JSON |
| client | `cli/main.go` | files on the client | find by name, reuse, renew or create, download, save |
| configuration, i18n, PKCS12 writer | `config.rs`, `i18n.rs`, `pkcs12.rs` | none after start-up | conversions |

How they interact: a handler of the HTTP layer calls one service method on a
blocking thread, in one task or, for a restore and a search, in two. The service calls the database several times, with openssl
runs in between. The database is one connection behind one mutex, so a database
method is atomic and everything between two of them interleaves with other
requests, and, during `--import-legacy`, with another process.

What is hard here:

* the openssl state of a CA is read, changed by openssl over seconds, and
  written back whole; the lock that brackets this is a database row that
  *expires* while its owner may still be working;
* checks are made before the lock, and acted on after it;
* some operations (delete, restore, nuke, truststore) take no lock at all;
* a request can fail, or the process die, between any two steps;
* one private key has many serials over its life, and revoking has to find all
  of them again by their subject;
* a restore replaces all rows at once while requests and an import go on;
* log files move under a thread that compresses them;
* the server keeps no sessions: CSRF token, message and language travel in
  cookies that an answer computes from those of its own request, however many
  other answers have arrived since.

What makes each part correct:

* signing: operations appear atomic; serials are never reused; no index or CRL
  entry is lost; revocation is final and covers earlier serials; bundles and
  truststores hold the current CA certificate; every request ends; no lock row
  blocks a CA for ever;
* validity: a renewal extends a certificate, a leaf ends with its CA at the
  latest, rows agree with certificates;
* process runner: no child outlives its call, every call returns, no directory
  of a running request is removed;
* backup: a snapshot is consistent, a restore is all or nothing, serials stay
  apart across it, restored rows get repaired;
* legacy import: a run that reports no failure has left nothing out;
* login: a deleted user cannot log in, a cache hit means a password that was
  verified, the cache is bounded;
* templates: at most one default per form;
* migration: a failure leaves the old database;
* log rotation: only the oldest lines are lost, a failure costs little, a
  request that logs gets on;
* HTTP layer: nothing changes without an admin and a token, whatever the
  handler; forms, messages and the language survive overlapping requests;
* client: files on disk belong together.

## 2. The modules

```
OpensslCa                  pure: the state of one CA and what openssl does to it
  CaLedger                 abstract: CAs and certificates, every operation atomic
  CaSigning                the requests, the lock, the commits; implements CaLedger
    MCCaSigning            constants for TLC
CaSigningProofs            theorems about CaLedger and CaSigning
Validity                   days, expiry and the clock, for one CA
  MCValidity               constants for TLC
ValidityProofs             theorems about Validity
Auth                       pure: accounts, credentials and the roles they give
  Accounts                 abstract: a login decided at once, operations on users
  Login                    lookup, cache, bcrypt, table; implements Accounts
    MCLogin                constants for TLC
LoginProofs                theorems about Login
Templates                  the form templates and their default flags
  MCTemplates              constants for TLC
OpensslRun                 a request's openssl processes and its work directory
Migration                  opening, copying, migrating and restoring the database file
  MCMigration              constants for TLC
MigrationProofs            theorems about Migration
CliCert                    runs of the client beside the server's jobs and admins
  MCCliCert                constants for TLC
CliCertProofs              theorems about CliCert
Backup                     the whole database: backup, restore, nuke, repair, legacy import
  MCBackup                 constants for TLC
BackupProofs               theorems about Backup
LogRotation                the log writer, its backups and the compression thread
  MCLogRotation            constants for TLC
HostProofs                 theorems about OpensslRun and LogRotation
Routes                     pure: what each handler of the router checks, does and answers
  Web                      a browser whose requests to these handlers overlap
    MCWeb                  constants for TLC
ConsoleProofs              theorems about Web, Routes and Templates
```

`HostProofs` and `ConsoleProofs` each hold the proofs of two components that
share nothing. For that, `LogRotation` and `Web` give their specifications names of
their own (`LogSpec`, `LogNext`, `WebSpec`, `WebNext`).

**OpensslCa** is the data. A CA's blobs are modelled by their contents: the
generation of its certificate, the valid and the revoked lines of `index.txt`,
the next serial, the CRL with its number, the next CRL number. A certificate is
its serial and its subject, which is what `index.txt` records. Keys, SANs,
digests, PKCS12 files and passwords make no difference to any property and are
left out. One operator stands for one openssl pipeline: `Sign`
(`create_cert_files`, `renew_cert_files`), `RevokeCertFiles`
(`revoke_cert_files` with `revoke_superseded_index_entries` and the CRL it
generates), `RenewCaFiles`, `GenerateCrl`, `FinishCaFiles`, `BuildBundle`.
Serials are counters here; the program starts them at a random 128-bit number,
so that certificates signed by the same key elsewhere (`ExternalCerts`) never
have the serial of one signed here. Two imports may bring the same external
certificate.

**CaLedger** is the abstract specification: the rows, and one action for each
operation. It says what a caller of the service may believe.

**CaSigning** is what the code does. A request goes through the steps

| `pc` | the code is |
|---|---|
| `idle` -> `locking` | before `acquire_ca_lock`: validation, name check, first look at the row (`Begin...`) |
| `locked` | owner of the lock row, nothing read yet |
| `rechecked` | `revoke_cert` has looked at `revoked_at` again |
| `read` | has the CA's secrets (`get_ca_secrets`) in `snap` |
| `ready` | has everything it reads in `snap` and `seen`; openssl runs |
| `reply` | has committed (`*_with_state`), the lock is released |
| `failing` | on the error path, before `release_ca_lock` |
| `inserting` | `create_ca`/`import_ca`, between the name check and the insert |
| `fetching`, `building` | truststore: before `get_ca_truststore`, before `set_ca_truststore` |
| `done`, `failed`, `dead` | has answered, or the process died under it |

and each transition is one database method. `Crash` kills all running requests
and leaves the rows. `Tick` is time: `locks[c].left` is the time to the expiry
of a lock row, `age` how old the clock value may be that `acquire_ca_lock` read
before it waited for the mutex. `DeleteCert`, `RestoreCert`, `DeleteCa`,
`RestoreCa` and `NukeAll` are single calls without a lock.

Modelling decisions worth knowing:

* A request object serves one operation; it stands for the UUID it uses as lock
  owner and for the fresh id of the certificate it creates. Random ids and UUIDs
  are taken to be distinct.
* `nuke_all` deletes the rows; the model marks them `gone` and freezes them, so
  properties about stored rows can tell.
* `carried` is the only audit variable: every PEM a certificate row has had.
* Openssl failures, timeouts, missing rows and lost locks during the locked part
  are one action, `Fail`, possible at every step.
* Expiry is not looked at by `verify_lock_tx`, only ownership; the model keeps
  that.
* `import_ca` differs from `create_ca` in what it validates and not in the state
  it leaves; both are `BeginCreateCa`, `InsertCa`.

**Validity** is about time, which the other modules leave out. `create_cert`,
`renew_cert` and `renew_ca` count days at one moment, openssl counts them again
when it signs, the row gets its `issue_time` from a third, and the CA can be
renewed and a row renewed or repaired in between. A request goes from `asked`
(`renew_cert` has the row) to `read` (has the CA certificate), `checked`
(clamped and compared, before the lock), `locked`, `signing` (`renew_ca` has
compared under the lock), `signed` and `ended`; the repair goes from `listed`
to `ended`. A certificate is its `notBefore` and `notAfter`; serials, the index
and revocation make no difference here, and CAs share nothing, so there is one.
The audit field `lag` of a row is the time from the check of its days to the
commit. An undated or unreadable certificate, for which `clamp_to_ca_validity`
gives up with a warning, is not modelled: openssl wrote the CA certificates.

**Auth** says who a request is: an identity header of a trusted proxy decides,
with the role of its groups, or else the accounts of the configuration and the
row of `users` whose name and password fit. **Accounts** is the promise made
with it: a request is admitted or refused by the accounts of one moment, and
admins change the table one whole operation at a time. **Login** is the code:

| `pc` | the code is |
|---|---|
| `none` -> `asking` | in `authenticate`, with accounts of the configuration left to try |
| `trying` | holding an account (`find_user` has let go of the mutex), before the cache |
| `hashing` | running bcrypt after a cache miss |
| `admin`, `viewer`, `refused` | decided; an admin may operate on `users` |
| `naming` | in `create_user`, between the name check and the insert |

The key of a cache entry is a digest of the name, the stored credential and the
password presented; the model keeps the triple. A bcrypt hash has a salt of its
own, for which the id of the row stands. Database errors and CSRF tokens are left
out. `Restart` empties the cache and keeps the table.

**Templates** has the id, the name, the scope and the default flag of each
template; the values it fills in are left out, and validation that refuses them
is part of `Refuse`. A request looks for its name (`CheckName`) in one database
call and saves in another (`SaveNew`, `Replace`), where the primary key, the
unique index and the number of rows changed decide again. Restored backups are
those this program exports (`BackupsAssumption`): `import_backup_yaml` does not
look at default flags, so a file edited by hand is outside of it.

**OpensslRun** is below all this: how one request runs its openssl commands.
The other modules know a command only as something that takes time and may fail.

| `pc` | the code is |
|---|---|
| `idle` -> `between` | in the service, with a work directory and no command running |
| `polling` | in the loop of `run_in`, before `try_wait` |
| `checking` | after it, before the look at the deadline and the sleep |
| `terminating`, `killing` | in `terminate`, after SIGTERM, after SIGKILL |
| `guarding` | in the drop of `ChildGuard`, after an error of `try_wait` |
| `joining` | before the drain threads are joined |
| `returned` | back in `run_ok` or another caller of `run_in`, with a result |
| `dropping` -> `done`, `dead` | before the drop of `WorkDir`, after it, or the server died |

A process writes into two pipes of `PipeSize`, ends by itself or by a signal,
and stays a zombie until it is waited for. `drained[r][p]` is how far a drain
thread is: `reading`, at the end (`whole`), or ended early by an error of
`read_to_end` (`failed`: what it has read counts) or by a panic (`panicked`: its
output counts as empty). `ReadFails` can happen at any time, `Join` does not ask
about it. The pipe is closed then, and a process that writes on dies of SIGPIPE
(`BreakPipe`): this is Unix, where `Command` gives a child the default action.
`try_wait` may fail in the loop (`PollFails`, which is also a drain thread that
cannot be started) and in `terminate` (`GraceFails`). It is *quick* (works as soon as its
pipes let it), *slow* (takes any time) or *hung* (never ends by itself), and any
of them may ignore SIGTERM. Time is in ticks. Threads of the program are fast:
no tick passes while one of them, or a quick process, can move (`Patient`,
`Busy`); that is what makes "only a real timeout is a timeout" a statement at
all. `dir[r].idle` is the age of a directory. Only its creation and the marker
of a failure set it back here: the other files openssl writes make a directory
younger still. `Start` is the start of any process of the program on the same
working root. Left out: a directory that cannot be removed (the code warns and
goes on), processes that openssl would start (it starts none), and a `kill` or
`wait` that fails, whose errors the code drops.

**Migration** is `Db::open`, which every process that uses the database goes
through: the server, and `minica --import-legacy` beside it.

| `pc` | the code is |
|---|---|
| `off` -> `creating` | in `open`, having found no file, before `create_private_file` |
| `opening` | before `schema_is_current` |
| `copying`, `pruning` | in `copy_db_backup`, in `prune_migration_backups` |
| `migrating` | before or in the one transaction of `migrate` |
| `restoring`, `refilling` | copying the old file back: before and after the database file is emptied |
| `serving` | out of `open`; rows are committed |

A transaction of SQLite is one step; a copy of the file is two, because
`fs::copy` takes no part in SQLite's locking. A file is what a process finds
that opens it: whole or not, its version, its columns, its rows. `committed`
(every row ever committed) and `spoilt` (copies made since a restore that was
cut short lost rows from the database file) are audit variables. Decisions:

* What is torn or cut off is `Damaged`, and reading it is an error. A file of no
  bytes is an empty database, as it is for SQLite.
* Copies sort in the order they were made. The code names them by the second and
  a random suffix; copies of one second sort at random, which matters only if
  rows were committed between them.
* No row is committed while the file is being refilled, except by a process that
  opened it afterwards.
* Opening a copy cannot fail after the database was emptied: `fs::copy` opens
  the source first.

**CliCert** is `minica cert` of the Go client. A run is a sequence of requests:

| `pc` | the code is |
|---|---|
| `idle` -> `getting` or `absent` | after `findCertIDByCN`, with an id or without |
| `expiring`, `renewing` | before `renewCert`; waiting for its answer |
| `downloading` | before the certificate is downloaded |
| `absent`, `creating` | before `createCert`; waiting for its answer |
| `fetching` | has the certificate, before its key, bundle and password |
| `saving` | in `saveBundle`, with `mem.saved` files written |

What the server works on is a set of jobs. A job is checked when it is added,
committed or dropped later, and goes on when its client has given up. Admins
revoke, delete, restore and renew the same certificates. A row is its
deletion, its revocation and its validity. `torn`, `mem.due`, `mem.alone` and
the field `fell` of a row are audit. Decisions:

* A renewal keeps key and password, so the files are told apart by the id of
  their certificate only. `CA.pem` is the same for all and left out.
* A request reaches the server when it is sent; one that is lost is one that is
  dropped. A job that fails after its commit (an answer that is lost) is the
  client giving up before the commit.
* The CA is not renewed meanwhile: it would only move its end further away.
* Equal jobs without a client are one, so admins renewing twice in the same tick
  do it once. Certificates that admins create are those of abandoned runs.

**Backup** has the tables as a whole. Single requests are their commits here
(how they get there is in CaSigning, Login and Templates); what is in steps is
what reads or writes everything.

| `pc` of a restore, or of the start of the server | the code is |
|---|---|
| `idle` -> `validated`, `refused` | in `import_backup_yaml`, after `backup_to_snapshot` |
| `failed` | the transaction of `restore_backup` found rows, or a clash |
| `listing` -> `cas` -> `certs` -> `idle` | in `repair_stale_metadata`: before the list of CAs, in it, in the list of certificates |

| `step` of the importer | the code is |
|---|---|
| `off` -> `looking` | in `import_ca_dir`, `import_cert_dir`, before `ca_exists`, `cert_exists` of item `at` |
| `inserting` | in `import_ca_with_id`, before `insert_ca` |
| `locking`, `holding` | in `import_cert_with`, before and after `acquire_ca_lock` |
| `reported` | at the end of `import_legacy` |

A restore is validated in one step, and its check for an empty database and its
inserts are one transaction later. The server does not listen while it repairs
at its start (`Serving`). The importer is another process: a crash of the server
does not stop it, and it can be killed between any two of its steps, leaving its
lock row. Decisions:

* A CA is its serial counter and its deleted flag; its `index.txt` and CRL are
  in the same row and are stored and restored with the counter.
* Users stand for templates, too: both are rows with an id and a unique name
  that a restore inserts.
* What a restore refuses is what this program's own exports can meet: ids with a
  dot, which `validate_entity_id` accepts from a legacy directory and
  `validate_backup_id` does not. Files edited by hand are outside of it, and so
  are the time stamps that a restore clamps.
* Lock expiry, as in `CaSigning`, is at any time.
* Constants are what the program can meet (`BackupAssumption`, `StartAssumption`): a
  tree names a CA before its certificates, and no id twice, being directory names;
  the database at the start has each serial once, below the counter of its CA, and
  no certificate without its CA.
* Every way an item of the tree can fail (unreadable files, a name that is taken,
  a lock that is held, a row that came in between) is `Failed`.

**LogRotation** is `RotatingFileWriter`. A file is the sequence of the lines that
can be read from it; a backup whose compression has not ended has none. The
thread that has the mutex is at

| `writer` | the code is |
|---|---|
| `idle` -> `appending` or `joining` | in `write`, not rotating or in `wait_for_compression` |
| `removing`, `shifting` | in `rotate_files`: the oldest backup, the loop over the others, the active file |
| `reopening` | in `rotate`, before `open_log_file_io` |
| `appending` | before `file.write` |
| `down` | the process does not run |

and the compression thread is `started`, `writing` (has created backup 1),
`written` (the backup is whole) and `ended`. An open handle follows its file
when that is renamed and refers to nothing when it is removed (`hand`). Every
call can fail; `thread::spawn` panics when there is no thread, which poisons the
mutex until the next start. `genOf` (how many rotations a line has behind it) and
`failures` are audit variables, the second also the bound of what may fail. Left
out: a line longer than the limit, and a configuration that changes between
starts.

**Routes** is the table of `web.rs`: one definition for each handler of `router`.
A handler is its blocking tasks, each with who may run it, where its CSRF token
is, and whether it reads or writes, and how a success and an error are answered.
Nearly all are instances of the functions the code itself has for this
(`page_response`, `mutate_form_response`, `api_admin` and others, under their
names); `admin_backup_restore`, which does it in steps of its own, is not.
**Web** runs them for one browser:

| `req[r].pc` | the code is |
|---|---|
| `free` -> `waiting` | the request was sent with the cookies of `jar`; before the next task's `require_admin` or `require_viewer` |
| `admitted` | in a task that writes, after it, before the check of the token |
| `answered` | the answer is on its way, with the cookies it sets |

`jar` has the cookies `minica_csrf`, `minica_flash` and `minica_lang`, `forms` the
tokens in pages that are open. An answer sets some cookies anew (the message of
`redirect_with_flash`, the choice of `switch_lang`) and derives others from those
of its request (`Derived`). The browser may close any connection: the answer is
lost, and a blocking task that runs goes on (`gone`), while what the handler
would have done after it does not happen. A call of the service may commit and
then fail or panic. `owed`, `chosen`, `late`, `sent`, `done` and
`req[r].wasAdmin` are audit: `late` has the cookies that an answer has set from
ones that had changed since its request was sent. Decisions:

* Authentication is its lookup (`DecidedAtLookup` of Login), so the role of the
  account is one variable.
* A page has forms for every handler. Forms of other pages, with older tokens,
  stay open.
* A GET whose task is only read is one step; nothing it reads is in the model.
* Cookies the code accepts but did not set (malformed tokens, unknown languages)
  count as absent, as `current_or_new_csrf` and `cookie_lang` treat them.
* Clients with a token of their own, such as the command line, have no jar.
* A token that is set is one that no page and no answer has (`csrf_token`).

## 3. What is checked

| run | configuration | result |
|---|---|---|
| `signing` | 1 CA, 3 requests of any kind, 1 subject, 1 external certificate, CRLs on, lock expires at once | all hold, 457 349 states |
| `signing_live` | 2 CAs (1 at first), 2 requests, 2 subjects, CRLs off, lock lives 1 tick, clock up to 1 tick late, fairness | all hold, 29 631 states |
| `shared_subject` | as `signing` | `UnrevokedNotInCrl` violated |
| `validity` | 2 requests of any kind and 1 to 3 days, an imported certificate, days of 2 ticks, 4 ticks, lock expires at once | all hold, 499 751 states |
| `login` | 2 requests, 2 ids, 2 names, 2 passwords, a bootstrap admin, headers on, cache of 2 entries that live 1 tick, 2 readings of the clock | all hold, 727 378 states |
| `templates` | 2 requests, 3 ids, 2 names, a backup with a default for each form | all hold, 1 093 657 states |
| `openssl_run` | 1 request of 2 commands, each with nothing or 2 blocks for a pipe of 1, timeout and grace 1 tick, the reaper's age at its least, failed directories kept, fairness | all hold, 40 433 states |
| `migration` | 1 process, a database that is missing, old, newer or lacks a column, 2 copies kept, 6 made, 2 rows committed | all hold, 227 469 states |
| `cli` | 2 runs, 2 ids, 1 job of the server at a time, days of 2 ticks, 1 tick, a CA that ends soon or late, 3 files | all hold, 1 629 409 states |
| `backup` | 1 legacy CA with a certificate whose id has a dot, 1 CA of the server with a certificate and room for another, 1 user, 1 restore at a time, 4 operations of admins, 2 runs of the importer, 1 crash, fairness | all hold, 916 440 states |
| `logs` | 0, 1 or 3 backups, compressed or not, a limit of 1 line, 6 lines, 3 failures, 2 ends of the process, fairness | all hold, 309 852 states |
| `web` | every handler that writes or sets a cookie, 2 requests in flight, 2 languages, 2 requests that write | all hold, 1 532 073 states |

`signing` checks the refinement `SigningIsSerial` (the implementation of
`CaLedger`), the ledger's guarantees (`SerialsUnique`, `IndexComplete`,
`CrlCurrent`, `BundleCurrent`, `RenewedSerialsRevoked`, `RevocationFinal`,
`CrlNumberGrows`) and `TruststoreCurrent`. `signing_live` is about liveness:
`LockFreed` and `RequestAnswered`. Type invariants are in no run: each is a
theorem. The safety results that follow at once from an
inductive invariant (`ServedIsCurrent`, `DirsCleared`) are theorems only, too.

Why the bounds are enough: every hazard of the lock involves a request that
lost the lock, one that took it over, and at most one that prepared the row
they fight about, hence three requests. With `LockTtl = 0` any owner may lose
its lock after one tick, the hardest schedule for safety. Subjects matter only
by being equal, so one is enough where sharing is the hazard; two names that
differ in case are in `signing_live`, where the CA names clash too. CRLs are on
where revocation is the question and off where the branches without CRLs are.
Requests are interchangeable, so `signing` uses symmetry; `signing_live`
checks liveness and does not.

`validity` checks that a leaf ends after its CA by no more than its request took
(`LeafCapped`), that renewing the CA extends it (`CaExtends`), that a renewal
extends the row it was checked against (`RenewalExtendsAlone`) and that rows
agree with certificates (`CertRowAgrees`), all but `CaExtends` up to the time of a
request or the rounding of an import. Two requests are enough: a race is
between one that checked and one that committed meanwhile, and the row they
fight about (`Stored`) is there at the start. A day of two ticks is the
shortest with a moment that is not a whole day from another. The imported
certificate began before the clock and lives a day and a half, so that the
rounding of `validity_from_info` shows. The CA lives two days and requests ask
for up to three, so that clamping and refusal both happen. The clock ends at
`Horizon` and requests are finite, so the runs may stop: deadlock is not
checked.

`login` checks that `Login` implements `Accounts` (`DecidedAtLookup`), the
limit of the cache (`CacheBounded`) and that names are unique (`NamesUnique`).
With two entries the cache is at its limit when the third key comes, both with
an expired entry in it and without; two ids of one name are a user deleted and
created again, one password right and one wrong. The two requests are an admin
that changes the table and one that logs in; requests run again and again, so
what they did before is in the table and the cache.

`templates` checks that a form has at most one default (`OneDefault`), that
names are unique (`NamesUnique`) and that a default is not lost on a save that
fails (`DefaultHandedOver`). Three templates are needed for a default of both
forms to displace two others, two names for one to be taken and one to be free.

`openssl_run` checks that no process outlives its call (`ChildReaped`), that a
success is one, and of its output nothing is missing that was read to the end,
and no more than a pipe holds where a read failed (`SuccessIsWhole`), that a
process that only has to be read does not time out (`TimeoutIsReal`), that no
reaper takes the directory of a running request (`DirNotPulled`), and that every
request ends (`RequestEnds`). Requests share nothing but the clock, the reaper
and the crash, so one is enough; the theorems are for any number. Two commands
make a directory older than one command, twice the size of a pipe makes a
process wait for its reader and lets part of it be missing, and a timeout and a
grace of one tick are the shortest that can be met and missed. `ReapAfter` is
the least that `RunAssumption` allows: with less, which the configuration
accepts (`reap_after_hours: 0`), the reaper of a second process does take the
directory of a running request.

`migration` checks that every committed row is in the database or a copy,
whatever fails or dies (`SurvivesFailures`), and that a database is migrated only beside a copy of
it (`OldKept`). With two copies kept, six made and every step able to fail, the
run reaches the point where copies of an emptied database have displaced the
last good one: a restore cut short leaves an empty file, which the next start
takes for a new database, copies and migrates. That is what `spoilt` counts, and
why `SurvivesFailures` says "until". `CommittedKept`, without that, is refuted by
two processes even where no restore is cut short (see below).

`cli` checks that what is downloaded lasts `renewWithinDays` from its inspection,
or until the CA ends (`LastsAWhile`), and that the files on disk are of one
certificate (`FilesFit`). Two ids are a certificate and the one created after it
was deleted; two runs are enough for one to be between any two steps of the
other; three files have a first, a middle and a last. Overlapping renewals need
a second job; the run has one, to stay small, and `LastsAWhile` for any number of
jobs is proved.

`backup` checks that the database is what it was last restored from, or nothing,
changed only by what was done since (`RestoreKept`), that the certificates of a CA
have serials of their own also across a restore (`SerialsApart`), that an import
that reports no failure has everything in the database, after however many runs
that failed or were killed (`ImportComplete`), and that restored rows are looked
at by the repair, also if the server dies first (`RowsGetChecked`). Four
operations are an export, a nuke, a restore and one that gets in between, or that
comes after. The certificate that can be created later is the one whose serial a
restored counter must not give out again. Two runs of the importer are one that is
cut short and one that completes it. Admins stop at `MaxOps`, so the run may:
deadlock is not checked.

`logs` checks that each failed call, and each rotation cut short, costs at most
one of the generations that the backups should hold, and ends of the process
elsewhere nothing (`FailureCostsOne`), and that a writer waiting for a compression
under the mutex gets on (`WriteReturns`). Three backups have an oldest, a middle
and a newest one; six lines with a limit of one line rotate often enough to fill
and shift them with lines that are still owed; a second failure on top of the
remains of the first is where staging file and half-written backup meet.
`FailureCostsOne` says "at most one for each", which a reader of `rotate_files`
would not guess: a failed compression leaves the staging file for the next
rotation to overwrite, but that is one generation. The bounded log may
stop: deadlock is not checked.

`web` checks that a change of whatever handler was asked for by an account that was
admin at some moment since, with the token of its cookies (`WritesJustified`),
that the forms of open pages can be sent (`FormsAccepted`), that messages of
success are about changes that were committed, stay until they are shown and then
are gone (`MessagesFit`), and that the language stays the one chosen
(`LanguageKept`), the last three except where an answer overtook another one
(`late`), which is exactly where the code loses them. "At some moment since" is
what the code gives: an account deleted while its request waits for the database
still makes its change, and a restore imports in a task that does not ask again.
Two requests are one that overtakes another; two that write are a message that
replaces one. Requests and languages are interchangeable, hence symmetry.
Handlers that only read and set no cookie on success differ from `home` in
nothing the properties look at and are left out of the run (`MCHandlers`).

Fairness (`backup`): the server is started again after a crash, by whoever runs it
(`restart: unless-stopped` in `docs/reverse-proxy.md`); a repair with rows left goes on.
Nothing is assumed about requests, the importer or its lock rows.

Fairness (`logs`): the thread in the writer and the compression thread run, being
threads of the operating system.

Fairness (`openssl_run`): the threads of a request and the drain threads run,
because they are threads of the operating system; a process that got SIGKILL
dies; a quick process works, by what quick means; time passes. Nothing is assumed of a slow or a hung process, of a crash,
or of the start of another process.

Fairness (`signing_live`): a request that can take a step takes one. The code
justifies it: handlers run with `spawn_blocking`, so a client that goes away
does not cancel them, every openssl command has a timeout, and the SQLite mutex
is held for one method at a time. `Tick` is fair because time passes. Nothing
is assumed about new requests, deletes, restores, nukes and crashes.

### Disagreements found

What a comment or a document says and the code does not do. The first is the run
`shared_subject`; for the others TLC finds a counterexample when the formula named
is checked with the configuration named.

* **Shared subject** (`UnrevokedNotInCrl`). `revoke_superseded_index_entries`
  takes all valid entries with the same subject for the history of one
  certificate, because "active certificate CNs are unique per CA". Two racing
  `create_cert`s with one subject: revoking one puts the other in the CRL while
  its row says it is not revoked. Deleted certificates keep their entries, so
  delete, issue again under the same name, revoke and delete that one, restore
  the first leads to the same without a race. (The safe direction, but not what
  the comment says.)
* **Imported serial** (`OldCertsRevoked`, `CaSigning.cfg`). `revoke_cert_files`
  revokes earlier serials "so the old certificates cannot outlive the revocation
  of the current one" (`openssl.rs:916`). An imported certificate is not in
  `index.txt`; once renewed, its imported serial can no longer be revoked.
* **Repair beside a renewal** (`RepairRederives`, `Validity.cfg`).
  `repair_stale_metadata` is a "re-derivation of stored metadata from the
  certificates themselves" (`service.rs:1574`), but writes what it derived from
  the certificate it read, without a lock. After a restore it runs beside other
  requests; a CA renewed in between keeps a row with the old validity.
* **Two processes and a failed migration** (`CommittedKept`, `Migration.cfg` with
  two processes). "Another process (e.g. `minica --import-legacy` beside a running
  server) may hold a write lock briefly; wait instead of failing" (`db.rs:146`). A
  process whose migration fails copies the old file over the database without
  asking whether the other one has migrated it and written to it since; what it
  committed is then in no file.
* **A log that cannot be reopened** (`LoggingContinues`, `LogRotation.cfg`). "on
  error the current handle is kept (or the path reopened) and the size counter is
  reset, so logging continues" (`logging.rs:114`). When the files have been
  rotated and only the reopening fails, the handle that is kept is that of the
  staging file: the compression thread has read it to its end, or will not see
  what comes later, and removes it, with the lines logged in between.
* **Output that is not read** (`ReadToCompletion`, `OpensslRun.cfg`). `drain` "reads a
  child pipe to completion" (`openssl.rs:116`), but drops an error of `read_to_end`,
  and `run_in` takes a thread that panicked for empty output. A process that has
  written everything and exits with 0 is then a success with part of its output, or
  none, and `run_ok` has no way to know; its callers read serials, dates and names
  from that output. `SuccessIsWhole` is what remains true.
* **Ids with a dot** (`ExportsRestore`, `Backup.cfg`). A backup "restores
  byte-for-byte into an empty database" (`README.md`), and the legacy import keeps
  "the original ids" (`legacy.rs:14`), which are directory names and may have a
  dot in them; `backup_to_snapshot` refuses the export of such a database.
* **Statuses from messages** (no formula). `status_for_error_message` and
  `basic_challenge_applies` look for words in the text of an error, which may
  quote an id or a name: "The browser Basic-auth dialog is only meaningful when
  Basic auth produced the 401" (`web.rs:3464`), but `CA not found: Authorization`
  is one, too. `public_error_response` avoids this for the public downloads, and
  its comment says why.

Not runs of their own: `clamp_to_ca_validity` "caps a leaf validity so it never
outlives the issuing CA certificate", and `LeafCapped` has to allow the time
between the check and the signing, because openssl counts the days again. And
`config.yaml.example` calls `reap_after_hours` the "sweep interval for temporary
working directories that were abandoned", while `reap_workdirs` runs once, at
the start of a process: directories that a crash left are swept by a later start
only if they are old enough by then, and never while the server runs on. Nothing
checks again under the lock what `create_cert` and `renew_cert` checked before it
(the name is free; the renewal would extend the row), so two requests for one name
can both succeed, and of two renewals the shorter one may commit last: the ledger
has both as they are, `RenewalExtendsAlone` says "alone", and `fell` marks the
rows in `CliCert`.

## 4. What is proved

Every safety property that a run checks is a theorem, that is, it holds for every
value of the constants that the named assumptions allow. Only liveness is left to
TLC.

`CaSigningProofs` proves first about `CaLedger`, for all sets of CAs, certificates,
subjects and external certificates:

* `LedgerSoundness`: `LedgerInv == LedgerTypeOK /\ CasOK /\ RowsOK` is invariant. `CasOK`
  is about each CA's state alone (index entries below the serial counter, one
  line per serial, CRL and index agree), `RowsOK` relates rows to the CA's
  state. Both are preserved per row and per CA, which is how the lemmas are
  divided (`CaOK` and `RowOK` of the records each operator produces).
* `LedgerTyped`, `LedgerSafety`, `LedgerRevocations`, `LedgerCrlNumbers`: the
  ledger's own guarantees follow.

and then that `CaSigning` implements `CaLedger`, for every lock expiry and clock
lag, too:

* `Invariance`: `Inv` is invariant. Refinement alone is not inductive: a commit
  writes a snapshot, and nothing in the refined state says the snapshot is
  fresh. The invariant adds `Current(r)`: *while the lock row of its CA names
  `r`, what `r` has read is what the rows say*. It is preserved because only a
  commit changes a CA's secrets or a certificate's PEM, a commit requires the
  lock row to name its request, and a row names one owner at a time. A request
  that lost its lock has no claim, and its commit is not enabled. Nothing is
  said about expiry, so the result does not depend on clocks at all.
* `Refinement`: each step is a step of the ledger or stutters.
* `Typing`, `UniqueSerials`, `KeptIndex`, `CurrentCrls`, `CurrentBundles`,
  `RevokedRenewals`, `Revocations`, `CrlNumbers`: the invariant holds `CasOK` and
  `RowsOK` of the rows themselves, and with `Refinement` the ledger's theorems about
  steps carry over.
* `Truststores`: a truststore is empty or current, although it is built without
  the lock, because `set_ca_truststore` compares the certificate and
  `renew_ca_with_state` clears the column.

`ValidityProofs` proves every property of `validity`, for every length of a day,
lock expiry, life of the CA, set of requests, of imports and of stored
certificates, and bound of the clock:

* `Invariance`: `IInv == TypeOK /\ (\A r : ReqOK(r)) /\ (\A i : CertOK(i))` is
  invariant. `ReqOK` carries what a check established to the commit: the days
  end with the CA certificate that was read (`Checked`), which ends no later
  than the present one; what openssl made starts between the check and now
  (`Made`); a `renew_ca` that still owns the lock was compared with the present
  CA certificate (`Newest`). The last one is what makes the first ones stay
  true. The arithmetic is in three lemmas about `\div` (`Quotient`, `ClampEnds`,
  `DerivedEnds`).
* `Typing`, `Capping`, `Agreement`, `CaRenewal`, `Renewal`: the type invariant and the four properties.

`LoginProofs` proves every property of `login`, for all accounts, credentials,
backups, requests, limits and lives of the cache:

* `Invariance`: `IInv` says of the cache that each key holds a password that the
  stored credential in it was made from, and of a request that the accounts of
  the configuration it has given up do not fit. Neither mentions the table, which
  is why an entry stays true however the table changes.
* `Refinement`: each step is a step of `Accounts` or stutters; the decision is
  the lookup, so the cache and bcrypt are stutters.
* `Typing`, `BoundedCache`, `UniqueUsers`.

`ConsoleProofs` proves every property of `web`, for every set of handlers of the
router, every finite number of requests in flight, every number of languages and
of requests that write, and any role changes:

* `RoutesOK`: what the other proofs need of the table of `Routes`, for each of its
  handlers: a task that writes checks a token and asks for an admin, or an earlier
  task has; what renders a page again after an error does not write; a handler
  that answers with a message ends with a write. It is put together from one lemma
  for each function that handlers are made of.
* `WebTyping`, `FormsStayAccepted`, `MessagesStayFit`, `LanguageStays`: `WebInv` says
  of a request what its answer may set. The cookies it derives are those it was
  sent with, up to a token where there was none and a message that its page shows;
  either they are still those of the jar, or the jar was changed since, and then
  `late` will have them. A message it sets is about a change that was committed.
* `OnlyOverlapsLose` says what the exceptions for `late` amount to. In a behaviour
  with at most one request in flight (`Alone`), every form in an open page can be
  sent and the language is the one last chosen, without exception: `AloneInv` says
  that a request, and what its answer derives, has the cookies of the browser. Only
  the message is left out, for it can expire while a request is in flight.
* `WritesAreJustified`: a request is in a task that writes only if its sender was an
  admin (`wasAdmin`), and in front of one only if that is so or this task, or an
  earlier one that is still to come, asks for an admin (`Guarded`).
* That there is always a token to set (`TokenExists`) is where the finiteness of
  `Slots` is used: what is in use is finite, so among one number more there is one
  that is not. The proof of `Receive` found that two branches of a `CASE` in the
  model overlapped, which TLC had resolved by their order; it is an `IF` now.

It also proves every property of `templates`, for all requests, ids, names and
backups. The invariant is the properties and the types themselves
(`TemplatesInv`): nothing a request has read is relied on, what decides is checked again
in the transaction that saves. `StoreKeeps` is the heart of it.

`BackupProofs` proves every property of `backup` but the liveness of the repair, for every legacy tree, database
at the start, number of requests, runs of the importer, ends of the server and
operations:

* Every step that writes rows without emptying the database is an edit of some ids
  (`Edits`): the rows that are there stay, with the CA they have, the tables stay
  sound, and contents change only of those ids. There is a lemma for each action that
  it is an edit, and the invariant follows from that.
* `RestoresAll`: rows that were not `touched` since a restore are those of the file,
  and a file is the database of the moment it was exported (`FilesExact`).
* `SerialsStayApart`: rows and files are `Sound`: each serial once for a CA, below its
  counter, its CA there. A restore brings the counter with the rows, so what is
  below it comes back with it.
* `ImportsAll`: what the importer has passed is in the database, or `bad` or
  `wiped` is set (`Imported`). It goes on by one item, or after a failure, which
  sets `bad`, to the next CA; that there is a next one or the end (`NextCaType`) is a
  least-number argument (`Least`), from the library's theorem that the natural
  numbers are well-founded.
* `Typing`.

`MigrationProofs` proves every property of `migration`, for all databases, schema
versions and numbers of copies kept, for one process (`Alone`) where a second one
can break it:

* `Invariance`: `Phases` follows an opening step by step: from its copying to its
  migration or restoring, the newest copy is that of this process and is the
  database as it is. `Kept`: a committed row that is not in the database is in a
  copy with at most `spoilt` newer ones. Pruning takes only copies with
  `MaxMigrationBackups` newer ones, hence none of these; counting the newer copies
  (`FewYounger`) is where the theorems about cardinality are used.
* `Survival`, `Served`, `OldIsKept` follow.
* For any number of processes: `Typing`, and `OnlyRestoresLose`. As long as no process
  restores, the database has every committed row and is served current. So the
  restore of a failed migration is the whole reason of the disagreement about two
  processes.

`CliCertProofs` proves every property of `cli`, for any number of runs, ids and
jobs and every day, clock and end of the CA:

* `Invariance`: a run that waits has exactly one job of its own; what a run
  inspected lasts until its `due`, or a job of its own that would make it so is
  pending, or the row `fell`; a save that has been alone so far has written its
  first `saved` files, and without `torn` and savers all files agree.
* `Durability`, `FilesTogether`, `Typing` follow. Renewals only extend the row
  they were checked against; that a later commit may undo this is what `fell` is
  for.

`HostProofs` proves every safety property of `openssl_run`, for all sets of
requests, numbers of commands, timeouts, pipe sizes and outputs:

* `Invariance`: `IInv` is of each request by itself. `ChildOK`: the process lives
  in `run_in` only and is signalled only there. `OutputOK`: what was to be
  written is still to be written, in the pipe, or read (a sum, unless the thread
  that read it panicked), and a pipe ends when its writer has and it is empty. So
  what a success misses, its process having written everything, is what was in
  the pipe of a read that failed. `TimeOK`: while a quick process is polled no tick
  passes. `DirOK`: a directory is no older than the commands so far have taken,
  `(MaxCommands - left) * (Timeout + Grace + 1)` ticks.
* `NoChildEscapes`, `WholeSuccess`, `RealTimeouts`, `DirsKept`, `Cleared` and
  `Typing` follow; `DirsKept` is where `RunAssumption` is used.

and the safety of `logs`, for every set of configurations, limit of the file, and
number of lines, failures and ends of the process:

* `FailuresCostOne`. The property is far from inductive. The invariant (`LogInv`) says,
  *for every number `k` of backups up to the configured one*: if only `k` backups
  counted, the generations they should hold (`Window(k)`) could be read, but for a
  set `X` with no more members than there were failures. The set is there
  although no variable records it; a failed call adds the generation it costs
  (`Charge`). The others are in files `S`, each of which holds one of these
  generations and no more (`Lone`), so that a file that is lost costs one.
* Smaller `k` are needed because a shift moves the limits: the removal of the oldest
  backup costs nothing as what is due of `k - 1` backups is not in the last one, and
  after each pass of the loop what held for `k - 1` holds for `k`
  (`RemoveKeeps`, `ShiftKeeps`).
* `Doomed` are the files that are about to be replaced or removed, which must not be
  in `S`: backup 1 until its compression is written, then the staging file. A crash turns
  that around, which is right as long as both have the same lines (`Copied`). `Ready`: a
  line joins lines of its own generation, or its generation is charged already.
* `LogTyping`, from the same invariant.

The whole invariant was also checked by TLC, with the bounds of `logs`, before it was
proved.

Assumptions: those named in `OpensslCa`, `CaSigning`, `Validity`, `Auth`, `Login`,
`Templates`, `OpensslRun`, `Migration`, `CliCert`, `Backup`, `LogRotation`, `Routes` and
`Web` (a directory is "abandoned" only when it is older than
all commands of a request together can take; external serials are not numbers of the counter and determine
their certificate; backups have unique names and one default for each form; the
database at the start and the legacy tree are as section 2 says; `Absent` is no content of a file; the
constants have their types). Only model-checked: the liveness properties
(`LockFreed`, `RequestAnswered`, `RequestEnds`, `RowsGetChecked`, `WriteReturns`), which
are beyond the prover. The theorems about failures of a migration (`Survival`,
`Served`, `OldIsKept`) are for one process: with two, TLC refutes what they say.

## 5. Not modelled, and the plan

Not modelled for good: rendering, wording and paths (most lines of `web.rs`,
`i18n.rs`), parsing of configuration and certificates, byte formats
(`pkcs12.rs`), packaging. They keep no state, or none that an order of events
could spoil; what is hard in them is text, for which unit tests are the better
tool. Parsing of the configuration happens once, before anything runs, and its
result is in the constants of the modules (limits, lives, accounts, groups).

Left out of modules that are there, each named at its module: an openssl child's
own children, directories that cannot be removed, a CA certificate without dates,
contents of backups edited by hand, lines longer than the log's limit, and
panics that poison the database mutex.

Planned: a theorem on what is given up for two processes and one restore of the
database, as `OnlyRestoresLose` says it for none: which committed rows are lost.
