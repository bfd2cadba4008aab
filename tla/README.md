# A TLA+ model of Graphium

Graphium is a single-document plain-text editor for GTK, written in Python.
One process shows one window on one document; several processes may run at
once, on the same files and on the same private state directory.  This
directory holds TLA+ modules that model its own logic, the configurations that
model-check them with TLC, and theorems about them that TLAPS checks.
`src/...` paths are paths in the repository.

## 1. The system

| Part | Keeps | Operations | Talks to |
|---|---|---|---|
| Delta journal (`domain/edit_history.py`) | undo and redo stacks of edit groups, current identity, next identity, pending group | reset, begin/record/end/abort group, undo, redo, checkpoint, restore | called by the editor controller |
| GTK buffer port (`adapters/gtk/editor_buffer.py`) | the text of the `GtkTextBuffer` | replay a list of operations, roll an interrupted one back, restore a full text | called by the controller; its signals reach the window's handlers |
| Document session (`application/document_session.py`) | a synchronized copy of the text and its identity, current and saved identity, current and saved representation, path and file state | establish (new, open, recovered), advance, synchronize, choose representation, accept a save, restore | called by controller, lifecycle, save service; read by everything |
| Editor controller (`application/native_editor.py`) | guards and depth counters | four installations, native groups, programmatic groups, undo, redo, prepare for save | journal, buffer, session; notifies the recovery controller |
| Save service and guarded writer (`document_save_service.py`, `guarded_file_writer.py`) | nothing between calls; an immutable observation travels through dialogs | observe, capture, serialize, stage, revalidate, commit | file system shared with other processes |
| File lifecycle (`application/file_lifecycle.py`) | nothing | Save, Save As, New, Open, Reload, Close, with dialogs in between | all of the above, recovery, recent files |
| Crash recovery (`application/recovery.py`, `infrastructure/recovery_worker.py`) | generation, artifact, lock, timer, in-flight flag, change serial | document changed, capture due, persist (worker thread), completed, invalidate, install recovered, close | GLib timer and idle queue, worker thread, recovery store |
| Recovery store and startup (`recovery_store.py`, `recovery_startup.py`) | artifact and lock files shared by all processes | stage, publish, remove, claim, load; discover and restore at start | file system, editor controller, recovery controller |
| External monitor (`adapters/gtk/external_monitor.py`) | generation, debounce timer, in-flight and pending generation | bind, suspend, on changed, start observation, deliver | GIO events, observer thread, session |
| Spell check (`spellcheck.py`, `spelling.py`, `hunspell_session.py`) | phase, cursor, pending request, ticket; the Hunspell process and its pipe | next request, accept, ignore, replace, restart, cancel | worker thread, editor controller |
| Search, transformations (`text_search.py`, `search.py`, `text_transform.py`) | query | find, plan replacements and transformations | editor controller applies the plans |
| Recent files, view settings | a list, a record; one file each | load, touch, clear, save | file shared by all processes |

The main thread runs GTK handlers, timers and idle callbacks one at a time;
dialogs run a nested main loop, so timers and callbacks can run inside a save.
Worker threads (recovery, observer, Hunspell) share little with it: immutable
values go in, and results come back through the idle queue, late or in an order
nobody wrote a test for.  Other processes share the file system.

What is hard, component by component, and what makes each correct:

* *Editor core.*  Buffer, journal and session change one after the other and
  any step may raise.  Correct: they agree after every operation, a failed one
  restores all three, an identity stands for one text for ever (Saved/Modified
  compares identities and never texts), Save is a barrier for coalescing,
  limits drop only the oldest states.
* *Saving.*  Another process may write, replace, remove or link the target at
  any point.  Correct: no version the user did not accept is overwritten, a
  failure before the commit leaves the target alone, what happens after it is
  never reported as a failure, a crash leaves the old or the new file.
* *Recovery.*  Timer, worker and completion race with edits, saves and close.
  Correct: an artifact that outlives its generation is removed, a crash loses
  no text older than the last completed write, at most one process restores an
  artifact, recovered text is bound to a file only if that file is still the
  baseline it was made on.
* *Monitor, spell check.*  Late answers.  Correct: an answer is used only for
  the question it belongs to, and the newest question gets an answer or an
  error; so does the search for dictionaries, but in two cases (section 3).
* *Text* (search, replace, transform, width, serialization).  Nothing runs
  concurrently; offsets are hard: folding makes characters of two, operations
  move each other's places, the last line has no line break.  Correct: a plan's
  operations yield the text it promises, no line grows too wide, the view stays
  on what it was on, a match is found wherever the caret is, bytes come back.

`PROJECT.json` lists the components, and under `hazards` each place in the code
where one of these can go wrong with the properties that watch it.

## 2. Modules

| Module | Models |
|---|---|
| `EditorBuffer` | the text of the GTK buffer as a sequence of characters; insertion, deletion, lists of operations, the inverse replay of an interrupted list |
| `DeltaHistory` | the journal as one record and its methods as operators on it: grouping, coalescing, trimming, undo, redo, checkpoints |
| `EditorSession` | the state machine: buffer, journal, session and controller, one action per entry point, with the failures of buffer, installation and listener |
| `SnapshotEditor` | the abstract specification of the editor core: an editor that keeps whole versions |
| `MCEditorSession` | values for the constants |
| `EditorBufferProofs`, `EditorSessionProofs` | lemmas and theorems about the editor core: replays, the methods of the journal, types and identities, and what the identities stand for |
| `GuardedSave` | saving: a file system shared with other programs, the system calls of the guarded writer, Save, Save As, copies and their dialogs, failures, crashes and power loss; several editors |
| `AtomicSave` | the abstract specification of a save: it takes effect at once or not at all, and the answer says which |
| `MCGuardedSave` | values for the constants of `GuardedSave`, and the worlds its runs look at |
| `GuardedSaveProofs` | lemmas and theorems about saving |
| `Recovery`, `MCRecovery` | crash recovery: controllers, workers and startup of several processes on one recovery directory and one file |
| `RecoveryProofs` | lemmas and theorems about recovery |
| `ExternalMonitor`, `MCExternalMonitor` | the monitor, its observing thread and the window around them |
| `ExternalMonitorProofs` | theorems about the monitor |
| `SpellCheck`, `MCSpellCheck` | the spelling dialog, its controller and worker, the Hunspell child and its pipes |
| `SpellCheckProofs` | theorems about spelling |
| `TextLines` | lines, and the limit on their width with its guards |
| `TextSearch` | literal search, with case folding |
| `EditPlans` | what all plans share: views, operations, their order, the view mapped through them, payload and width checks |
| `SearchPlans`, `TextTransform` | the plans of Replace, Replace All and the six transformations |
| `Serialization` | file bytes to text and back: marks, encodings, line endings |
| `TextCommands`, `MCTextCommands` | the state machine of text and view that all text commands drive |
| `TextProofs` | lemmas and theorems about lines, plans and search |
| `TextResultProofs` | lemmas and theorems about saving and opening, trimming, duplicating and moving lines |

`EditorSession` composes `EditorBuffer` and `DeltaHistory` and implements
`SnapshotEditor`; `GuardedSave` implements `AtomicSave`.  `TextCommands`
composes the text modules on top of `EditorBuffer`: the operations a plan hands
over are the ones `EditorSession` replays and records.  In `GuardedSave`,
`Recovery` and `ExternalMonitor` a document is only the version its buffer
holds, so these parts are modelled side by side: each has of the others what
they do to a file (`Commit`, `SaveDocument` and `ChangeFile` are whole saves
that `GuardedSave` takes apart).

### How the state corresponds to the code: editor core

`buffer` is the text of the `GtkTextBuffer`.  `hist` is the `DeltaHistory`:
`undo`, `redo`, `cur` (`_current_state_id`), `next` (`_next_state_id`), `pend`
and `pendBefore` (the pending group; `pendBefore = 0` when none is open).
Identities start at 1 in the code, so 0 stands for `None`.  `sess` is the
`DocumentSession` without paths: `text` and `textId` the synchronized copy,
`cur`, `saved`, `prof`, `savedProf`.  `raised` says whether the last operation
ended in an exception.  Two variables are observers that no action reads:
`content` remembers the text each live identity was given to, `accepted` what
the accepted file holds.

An action is one handler or one controller method from entry to return,
including the listener it notifies and everything its `except` branch restores.
`Faults` selects which of the calls inside may raise: a buffer operation in the
middle of a replay, an installation after any of its steps, the listener after
a programmatic edit, the listener after a replay.  An operation that finds
other text than it expects raises whatever `Faults` says.

Carets, selections, viewports and labels are left out: nothing in the journal
depends on them.  A profile is an encoding (with its byte order mark), a line
ending and whether the source mixes line endings.

### How the state corresponds to the code: saving

The file system is `entry` (what each name in each directory is: an inode, the
name a symbolic link leads to, or nothing), `data` (the version in each inode),
`parent` (the directory the path to the document leads to), `stage` (the inode
under the temporary name of each process) and `litter` (inodes under temporary
names of processes that died).  `stable` and `unsynced` say what power loss
would leave: directories as last synced, and inodes whose data never was.
`sess` holds the path, the accepted `DocumentFileState`, the text, and the text
last opened or saved; `op` the frozen `SaveTargetObservation` and whether the
directory was synced; `pc` the system call or dialog a save is at; `answer` the
last `DocumentSaveResult`.  `promised` is an observer: what a place was
confirmed to hold.

A *version* stands for content, digest, size and times together, because the
code compares all of them; every edit and every foreign write makes a new one.
Inodes are reused.  What this abstracts:

* An observation (open, hash, stat, compare) is one step.  The code compares
  the metadata before and after it reads and refuses when they differ.
* The change time of an inode is not modelled.  After a link or unlink by
  another program the code may refuse where the model proceeds, so the model
  allows every commit the code makes, and more.
* What other programs do is durable at once, and they never touch the private
  stage except to remove it (`ForeignClean`).
* Permissions, owner and extended attributes of the target are left out.

`Window` says who acts between `_late_revalidate` and the rename that follows
it.  In reality anyone may: POSIX has no rename that compares.  `"closed"` lets
nobody in, `"new targets"` lets other editors in where the target is a new name
(which the exclusive rename and its fallback protect), `"open"` everybody.  A
*world* says how many editors run, what the directories hold at first, what
other programs do and which calls fail; it is chosen at the start and never
changes, so that one run looks at several small worlds rather than at one that
is too large.

### How the state corresponds to the code: recovery

Of each process: `doc` is the document (accepted version of the file, saved and
current text); `ctl` the `RecoveryController` (artifact name of its generation,
binding key, capture timer, write in flight, newer change); `jobs` the queue of
its `DedicatedRecoveryWorker`, whose first job has two steps (`persist` then `staged`,
`cleanup` then `release`), because the main thread can act between them;
`reported` the idle callback of a finished write; `phase`, `asked`, `cand` and
`claim` the way through `RecoveryStartupCoordinator`.  Shared are `artifact`
(the record under each name), `lock` (who holds its advisory lock) and `file`.
`seen`, `left` and `failed` are observers: what the author of a text had in
view, which artifacts a crash or a failed call left, which texts a call failed
for.  Publication and the change of generation exclude each other through the
publication lock, so `Publish` looks at the generation and renames in one step.

Names of artifacts are random; one that nothing refers to any more stands for
a new one.  Digests, uuids and the byte codec of an artifact are not modelled:
an artifact is published whole by a rename, and a damaged one is no candidate.
There is one file; a process is started on it or on nothing.

### How the state corresponds to the code: external monitor

`generation`, `pending`, `inflight`, `debounce` and `initial` are the fields of
`StrongExternalFileMonitor` and its two timers; `watched` what the Gio monitors
watch, `events` the generations of monitors that have something to deliver,
`workers` the observing threads (`read` is what was hashed and not yet looked
at again), `results` the idle callbacks; `rebind` the timer of the window;
`alert` the information bar.  `truths` is an observer: what would have been
true to say since the document was accepted.  A lifecycle action is a beginning
that suspends the monitor and one of four endings, with dialogs in between.

### How the state corresponds to the code: spelling

`cursor`, `pending`, `issue` and `ignored` are the fields of
`SpellCheckController`; `ticket`, `session` and `dialog` those of the dialog;
`queue` its one-thread executor with `step`, where the job at its head is;
`child`, `asked` and `said` the Hunspell child of each session and what is in
its pipes; `calls` the idle callbacks.  A text is a sequence of words, since
answers are about words, and a replacement is zero or more of them.  Discovery
of dictionaries is the first job of the queue: `step` is "blocked" where it reads
from a pipe that another process holds open, `dialog` is "stuck" once its
callback was ended by an exception.  `fatal` is the alert of `_fatal`, which also
a refused replacement leads to, and which the user has to close.

### How the state corresponds to the code: text

`text` and `view` are what a command reads: the text and the offsets of caret
and selection bound.  Every command is one action, from reading the view to
applying the plan.  Recursive scans of the code (`_casefold_matches`,
`_real_lines`, the loops of `_mapped_offset`) are set expressions or recursive
functions over the same text, the properties state what they are for in terms
of ranges of the text.  Case is mapped character by character; GTK's rule for
the end of a line is `ForwardToLineEnd`, which at the end of a line goes to the
end of the next: the guards of native edits refuse more than they must there.

## 3. Model checking

### Editor core

Documents have at most two characters: two are enough for an insertion before,
between and after, for two adjacent typed characters, for a replacement and for
a text with two line endings.  The runs of the journal open "b" and type "a",
two letters of one class, so that a joined delta shows the order of its halves;
the run of representations opens and types newlines, which carry the line
ending.  Whether two changes are of one class decides only if they are joined,
which these properties allow and do not demand.  `MaxId` bounds the identities
handed out: 5 gives an installation, without which nothing can be edited, and
three edits, 4 gives two.  A change inside an open group counts as if it were a
group of its own.  `MaxDeltas` bounds a group.
Deadlock checking is off because those bounds end every behaviour.  No fairness
is assumed: the editor core owes its user safety only.

| Run | Question and bounds |
|---|---|
| `EditorJournal` | Do deltas behave like versions?  Groups of up to three deltas, and up to three edits after an installation: one more than the two groups the journal keeps.  A payload limit of three, which two groups of two deltas exceed, and a group of three alone (a letter typed, both deleted, one typed): so each limit is met without the other, and an edit that is too large; faults of the buffer, of an installation and of the listener.  Checks that the journal is one path (`HistoryChain`), that the next undo and redo find the text they expect (`ReplayReady`), that an identity never changes its text (`IdentityIsContent`), that coalescing never crosses a save (`SaveIsMergeBarrier`), that it stays within its limits and keeps an oversized edit (`HistoryBounded`), that a failure restores everything (`FailedOperationRestores`), and refinement of `SnapshotEditor` (`ImplementsSnapshots`). |
| `EditorRepresentation` | Is Saved ever shown over a file that a save would change?  Two encodings, two line endings, mixed files, recovered documents (`SavedMeansAccepted`, `SynchronizedTextIsExact`, `TypeOK`). |
| `EditorReplayListener` | *Violation*: `_replay` restores journal and session, and leaves the replayed text in the buffer. |
| `EditorPending` | *Violation*: during a user action the session still says Saved. |

The two violations are differences between the architecture contract and the
code, quoted in `PROJECT.json`.  The first is latent: the listener that
`composition.py` installs catches its own errors.  The second is visible to
code that asks `session.modified` while a user action is open.

### Saving

Three inodes are the file, a stage and one more for the other program or the
other editor: fewer and a stage could never be refused an inode that was
observed, and reuse of the old file's inode would be forced.  `MaxVersion`
bounds the versions handed out, and `last` in a world those it may use; the
file starts as version 1, so 2 leaves one edit or foreign write and 3 two.
Deadlock checking is off because the bound ends behaviours.  All properties are
safety properties, so the inodes and the editors may be symmetry sets.  No
fairness is assumed: a user may leave a dialog open for ever.

| Run | Question and bounds |
|---|---|
| `Save` | Four worlds.  *Failing*: one editor, one name, another program that writes, replaces, removes and creates; every call of the writer may fail.  *Crashing*: crashes and power loss between any two steps, with failing directory syncs, with and without an exclusive rename; two directories, the parent path is turned elsewhere.  *Linking*: two names; symbolic and hard links come and go.  *Sharing*: two editors and one name, new at first.  The baseline is the saved text (`SavedIsBaseline`), nothing unread is overwritten (`NeverOverwritesUnread`), a name taken in the meantime included, a commit goes where its path leads (`CommitsWhereThePathLeads`), a copy spares the active file (`CopyLeavesActiveFile`), what was confirmed stays (`ConfirmedIsDurable`), and a save is atomic (`ImplementsAtomicSave`). |
| `SaveWindow` | *Violation*: with the window open, a version that arrives before `os.replace` is overwritten and the save confirmed. |
| `SaveCopyAlias` | *Violation*: after a save that left no baseline, a copy is accepted onto the file the active path leads to. |

The violations are differences between the README or the contract and the code,
quoted in `PROJECT.json`.  The window is as short as POSIX allows.

### Recovery

| Run | Question and bounds |
|---|---|
| `Recovery` | Two processes, two names, two edits in all, one crash; a lock that cannot be taken and a publication that fails.  Whoever uses an artifact holds its lock (`UsersHoldTheLock`); an artifact nobody holds was left by a crash or a failed removal (`StraysAreLeft`); when editing stops all unsaved text is in an artifact, but where a call failed (`WorkIsKept`); a late write publishes nothing (`HolderWrites`); a save after a recovery replaces only a version its author had in view (`SavesAreInformed`); artifacts of ended generations go (`SupersededAreRemoved`). |

Two processes are enough to race for a name, and two names for a process that
changes its generation while the old one is being removed.  Two edits give a
change during a write, and a save of one process over the other's.  One crash
leaves an artifact to a process that runs and to one that starts.  The other
faults (`submit`, `stage`, `sync`, `remove`) multiply the states beyond TLC's
time; the theorems about `Recovery` hold for all of them.

Fairness is weak, of the program's own steps only: the timer, the worker's
steps, the idle callback and the search at startup.  GLib serves a timer and an
idle source that stay ready, and the worker thread runs while it has jobs.
Nothing is assumed of the user, so a dialog may stay open for ever, nor of
crashes.

### External monitor

| Run | Question and bounds |
|---|---|
| `ExternalMonitor` | Two files, two objects and contents, two changes (by saves or other programs), six generations (a binding or a suspension each); monitors may be refused.  One observation at a time (`OneObservation`); the bar never says what was not so since the document was accepted (`AlertWasTrue`); when all changes end it says what is so (`AlertCatchesUp`). |

Two changes tear an observation and its retry; six generations are two actions
with their bindings after the first.  Fairness is weak, of timers, events, the
observing thread and the idle callbacks.  Deadlock checking is off: a window
that is closed and at rest has nothing to do.

### Spelling

| Run | Question and bounds |
|---|---|
| `SpellCheck` | Texts of up to two words that grow to three; two dictionaries that disagree on every word; three sessions, so two changes of the dictionary.  What is said of a word is what the dictionary says (`VerdictsAreTrue`), no word is passed over (`NothingSkipped`), there is one child and none at the end (`OneChild`; the short-lived child of discovery is not counted), and once discovery has found what it could nobody waits for ever, although the child may hang or die; before that only in the two cases below (`WaitsEnd`). |

Fairness is weak, of the worker, the idle callbacks and the end of `close`.  A
read of the pipe ends in time because `_readline` polls with a deadline; the
child owes nothing.  Deadlock checking is off: a closed dialog stops.

Discovery has two ways to leave the dialog waiting, both in the model, and
`WaitsEnd` excepts them by name (`DiscoveryHangs`):

* `Discover` may block, and nothing makes `Unblock` happen: the read after the
  child has exited (`hunspell_session.py:147`) has neither deadline nor
  cancellation, and waits while another process holds the pipe open.  `close`
  then waits for the worker.
* Discovery, or showing what it found, may raise what its callback does not
  catch (`spelling.py:139`, only `HunspellError`): a `ValueError` over a base
  name (`hunspell_session.py:43`) or a relative path of the program (line 112),
  a name that cannot be shown (`spelling.py:149`), a child that cannot be
  reaped.  The idle callback ends, there is no session, and the dialog goes on
  saying "Finding dictionaries…" until the user closes it.

The architecture contract says otherwise
(`docs/canonical/GRAPHIUM_PRODUCT_ARCHITECTURE_CONTRACT.md`, lines 1852 and
1860): the
child of discovery is "short-lived, bounded, cancellable and fully reaped", and
the system default stays usable when discovery fails.  Every other error of
discovery, its timeout and its cancellation do leave the system default.

### Text

| Run | Question and bounds |
|---|---|
| `Text` | Every command on every view of every text over *s*, *S*, a character that folds to two, and the line break up to length 4; over a letter, a blank and the line break up to 4, and over a letter or a blank and the line break up to 5; with carriage returns and U+FEFF up to 3.  Lines of at most 3 characters (`MaxLine`), plans with a payload of at most 6 (`MaxPayload`) and 2 ranges (`MaxSpans`), so that each limit is met.  `LinesFit`, `PlansMakeFinalText`; search against a definition by ranges (`FindsNearest`, `ReplacesAll`, `ReplaceShowsTheNext`); moving lines and back (`MovesAreUndone`), trimming and duplicating (`LineCommandsKeepThePlace`); saving and opening, opening and saving (`RoundTripsAreExact`). |
| `SearchWrap` | *Violation*: with Match Case a wrapped search stops at the caret, so an occurrence the caret is in is "not found". |

`Documents` bounds the texts commands may leave; a step to a larger text is not
taken.  Length 4 has an occurrence across a wrap, two overlapping ones and two
lines with trailing blanks, and 5 has three lines to move or to trim.  The state
is text and view, so that nearly everything is shown as an invariant of what a
command would do.

Every property has a mutant: a plausible bug in one definition (kept beside it
and marked `mutant`) under which TLC finds the property violated.

## 4. Proofs

A theorem holds for every value of the constants that the modules' assumptions
admit: every alphabet, number of processes, names or versions, every limit and
every set of failing calls.  Those assumptions say what kind of thing a constant
is (`LimitsArePositive`, `NoSuchNames`, `InputsAreTexts`), that the processes of
`GuardedSave` are finitely many and that a file of `ExternalMonitor` can exist.
Three theorems or groups of theorems need more, and say so after `ASSUME`:

| Hypothesis | Needed by | Why |
|---|---|---|
| `ReplayListenersReturn` | `ReplayIsReady`, `SynchronizedTextHolds`, `SavedMeansAcceptedHolds`, `IdentitiesAreContents`, `FailuresRestore`, `SnapshotsAreImplemented` | A listener that raises after an undo leaves the replayed text under the old identity: `EditorReplayListener` shows the behaviour.  The listener the application installs catches its errors. |
| `Window # "open"` | `NothingUnreadOverwritten`, `CommitsReachThePath`, `CopiesLeaveTheActiveFile` | What comes between the last check and the rename is overwritten: `SaveWindow` shows the behaviour.  No call closes that window. |
| `OneEditorOrNoPowerLoss` | `ConfirmedSavesAreDurable` | The confirming load compares texts.  Between the directory sync of one editor and its load another may put a file with the same text in place, which is not on disk yet when power fails.  Every world of `Save` satisfies the hypothesis. |

### Editor core

* `EditorBufferProofs!RollbackRestores`: a list of operations interrupted after
  any number of steps is taken back exactly by the inverses of the applied
  ones, newest first.  By induction on the number of applied operations: one
  operation and its inverse cancel (`InverseTakesBack`), and the inverses of
  k + 1 operations are the last one's inverse followed by those of the first k.
  The induction is over a set of counter-examples with a least element
  (`InductionUpTo`), since the induction theorems of the library cannot be
  instantiated by the installed provers.  `InversesTakeBack` is the whole list:
  `Makes(t, ops, u)` says that ops find their places in t and make u, and then
  their inverses make t of u.  Replays can be joined and split.
* `EditorSessionProofs!TypeCorrect` and `HistoryIsOnePath`: `Spec => []TypeOK`
  and `Spec => []HistoryChain`; the errors that undo(), redo() and
  prepare_for_save() raise on a broken chain of identities cannot occur.
* `HistoryBoundedHolds` and `SaveIsMergeBarrierHolds`, for every set of faults:
  the limits of the journal, and the save as a barrier to coalescing.
* `ReplayIsReady`, `SynchronizedTextHolds`, `SavedMeansAcceptedHolds`,
  `IdentitiesAreContents`, `FailuresRestore`, and `SnapshotsAreImplemented`,
  which says that buffer, journal and session implement `SnapshotEditor`.

`HistoryChain` is not inductive: that a new group gets a fresh identity needs
every identity in the journal to be below the next one, that a redo links up
needs both stacks to be chains, and that text stays text needs the deltas to be
texts.  `IInv` adds these (`GoodHistory`, `StateOK`, `ContentOK`).
`EditorSessionProofs` shows once for each method of the journal that it keeps
`GoodHistory`, trimming included (`TrimKeepsNewest`: trimming returns a
non-empty suffix), and has one lemma per action.

What the text is takes two more invariants.  `JournalOK` has the limits and that
identities ascend along undo and then redo, so that no two states of the journal
share one.  `Meaning` says that each group leads, delta by delta, from the text
of the identity before it to that of the identity after it, an open group from
the current identity's text to the buffer, and that a synchronized or saved
identity stands for the text that was synchronized or accepted.  A group may be
coalesced with the next, so `Leads` is shown to survive the joining of two
deltas into one; undo is then `InversesTakeBack`.  The refinement follows action
by action: a commit maps to `Edit`, which may coalesce and forget the oldest
versions, undo and redo to theirs, an installation to `Replace`, and a save, a
chosen representation, an open group and a failure to `Keep` or a stutter.

### Saving

The theorems hold for any number of editors, names, directories and inodes, for
every set of failures and foreign steps:

* `GuardedSaveProofs!TypeCorrect` and `BaselineIsSaved`: `Spec => []TypeOK` and
  `Spec => []SavedIsBaseline`.
* `NewTargetsAreFree`: `Spec => NewTargetNeverOverwrites`, with the window open
  or closed: the part of `NeverOverwritesUnread` about new names, which needs no
  assumption about the window.
* `NothingUnreadOverwritten`, `CommitsReachThePath` and
  `CopiesLeaveTheActiveFile`, where the window is not open.
* `ConfirmedSavesAreDurable`: `Spec => []ConfirmedIsDurable`, with the window
  open or closed.
* `SavesAreAtomic`: `Spec => ImplementsAtomicSave`, without any hypothesis.

Their invariant `IInv` says what types do not: the observation a Save carries is
of the saved text, an observation of nothing names the place it was made at, no
file and no buffer holds "no version" (else a missing file could pass for the
saved text when a save finishes), and while a process is in the window its
target is what it observed and no other process is there.  Every step but the
revalidation and the renames changes one process and no file, which one lemma
(`LocalStep`) settles for all of them; `FreeInodeWritten` shows that a stage
changes no file.

`DataOK` adds what inodes hold: a file at a name is whole, a stage that has been
written holds its save's text, and versions to come are nowhere.  Durability
rests on `PromisesOK`: a promised place holds the promised text, and its entry
is the one on disk where power may fail; a save is past its directory sync only
if that entry is on disk as well.  The refinement takes the rename (or the link)
for the step that takes effect, and `DataOK` for the text it puts there.

### Recovery

For any number of processes, names, versions and crashes, and for every set of
failing calls:

* `RecoveryProofs!TypeCorrect`: `Spec => []TypeOK`.
* `Exclusion`: `Spec => []UsersHoldTheLock`.
* `StraysLeft`: `Spec => []StraysAreLeft`.
* `WritesByHolder`: `Spec => HolderWrites`.
* `InformedSaves`: `Spec => SavesAreInformed`.

That users hold their locks is not inductive: a released lock must belong to no
other use, and a write that is late must find its name gone.  `IInv` says of
each process which names it holds (that of its generation, those of the
cleanups in its queue, all different, and while it starts the one it claims and
no other), that a release follows the removal of the artifact or its failure,
and that no process that is off or starting has a controller at work.  A name
one process holds is out of reach of the others, so `StepKeeps` reduces a step
to what the stepping process does; every change of the controller goes through
`Retired`, `Started` or `Ensured`, whose outcomes are `Good` once and for all.

`SavesAreInformed` is about one step, but its reason is a journey: the text and
the version it is based on go from a document into a request, through the queue
into an artifact, and after a crash into the document of another process.
`InViewOK` says at each station that the author had that version in view;
versions are handed out once, so what was in view stays so (`SeenGrows`).

### External monitor

For any paths, objects, contents, changes and generations:

* `ExternalMonitorProofs!OneObservationHolds`: `Spec => []OneObservation`.
* `AlertWasTrueHolds`: `Spec => []AlertWasTrue`.

The slot is taken exactly while there is one observation or one result and no
timer is set (`SlotOK`).  Nothing under way is of a generation to come
(`PastOK`), and while a lifecycle action runs, which may put another document in
place, all that is under way is of a generation that has passed
(`SuspendedOK`).  So a result of the generation of now was read while the
document of now was in place, and said what was so (`TruthOK`).

### Spelling

For any texts, dictionaries and number of sessions, with a child that may hang
or die at any moment:

* `SpellCheckProofs!VerdictsHold`: `Spec => []VerdictsAreTrue`.
* `NothingIsSkipped`: `Spec => []NothingSkipped`.
* `OneChildHolds`: `Spec => []OneChild`.

An answer "known" does not carry the word, so that it belongs to the right
question has to come from the pipes: those of an open session are empty but
while the worker reads, and then hold the one question or its answer
(`PipesOK`).  A read that fails or times out closes its session, and no job of a
closed session is asked again.  `AnswersOK` and `JobsOK` carry this through the
idle callbacks: an answer is true of the word and dictionary it was asked about,
and the one with the current ticket is about the pending word.

### Text

For any alphabet, folding of case, set of documents, settings and limits; the
theorems of `TextProofs` and, from `LineCommandsAreInPlace` on, of
`TextResultProofs`:

* `TypeCorrect` and `LinesAlwaysFit`: `Spec => []TypeOK`, `Spec => []LinesFit`.
* `PlansAreExact`: `Spec => []PlansMakeFinalText`, for every planner.
* `SearchFindsNearest`, `ReplaceAllIsComplete` and `ReplaceLeavesTheNext`: the
  scans of the search against its definition by ranges.
* `LineCommandsAreInPlace` and `MovesGoBack`: `Spec => []LineCommandsKeepThePlace`
  and `Spec => []MovesAreUndone`.
* `RoundTripsHold`: `Spec => []RoundTripsAreExact`.

Characters are opaque, so the assumptions say what the code knows of them.
`FoldingIsText` has that a character folds to one, two or three characters and
that only the line break folds to a line break, as in Unicode case folding, and
`CasesAreText` the first of these for upper and lower case; `BlanksAreChars` that no blank
is a line break; `CharactersAreSpecial` that line break, carriage return and
U+FEFF are three characters; `SettingsAreSingleLines` that what is typed into
the search bar is one line and that the query is not empty.

`TypeOK` and `LinesFit` together are inductive.  A native edit is guarded on its
own, and what its guards look at is enough: the lines a text has are those of
its halves, but for the one where they meet (`TextLines` on a text cut in two).
A plan checks its final text, so what is left to show is that its operations
make it (`GoodPlan`): its ranges are disjoint and in order, and replaced from
right to left no replacement moves a range that is still to come, so that each
deletion finds the text it expects.  The splice that makes the final text and the
replay of the operations are the same text after any number of ranges.

The search runs over folded text and maps what it finds back.  The folded length
of a beginning is monotone, so a boundary in the folded text is at most one
boundary of the text; a match that begins or ends inside a folded character is
no match of the text.  Replace All takes the first match at or after a place
that only grows (`Exhausts`), so that what it leaves has none.  A query
is one line and only line breaks fold to line breaks, so a match lies in one
line.

Trim deletes ranges, and its property names the characters that stay.  A
character is in a range or is kept, never both (`RunsCoverBare`), so range by
range the characters between the ranges are those kept (`SplicedIsKept`), and
the offsets mapped over the ranges count them (`MappedIsKept`).

Move Lines makes two stretches of a text change places around the line break
between them.  The relation `Swap` between a text and the text moved reads the
same the other way (`SwapTurns`) and leaves one text only (`SwapOnce`), so the
opposite move restores the text if it finds the same two stretches.  It does:
lines that move stand alone before and after (`Moves`), so line starts, the
lines of offsets and line ends move with them (`LinesMove`, `LineOfCharMoves`,
`LineEndMoves`), and the view moves to the same lines (`ScopeMoves`).  That the
text must end as before is what `MovesBack` asks: otherwise a line that
moves to the end of the text would be empty, which is no line there.

Loading and saving map a text character by character (`Mapped`).  A map that is
undone on every single character is undone on every text (`MappedBack`), which
settles line endings of one character.  A carriage return and line feed are two,
so `Paired` follows the text beginning by beginning, where a carriage return at
the end of one waits for its line feed.

### Invariants and TLC

The inductive invariants of recovery and spelling were also model-checked, on
the values of `Recovery.cfg` and `SpellCheck.cfg`, before they were proved.

### Only model-checked

* Liveness (`WorkIsKept`, `SupersededAreRemoved`, `AlertCatchesUp`,
  `WaitsEnd`): with fairness and ENABLED it is out of the prover's reach.
* The findings, which are counterexamples.

## 5. Plan

What is left is the three-way question about unsaved changes and recent files,
in the lifecycle.

## 6. Not modelled

Printing and pagination compute a layout from font metrics and change no
document.  Widgets, labels, menus, colours, command tables, paths, statistics
and packaging keep no state.  Recent files and view settings are convenience
state that each process reads once and writes whole.  The legacy `TextHistory`
and `EditorTransactionController` are not composed by the application.

Of recovery, not modelled: the codec and the modes of artifacts, pruning, a
toolkit that raises inside startup recovery (the outer handler would then
release a lock the controller has taken over), a thread that cannot be started.
Of the monitor: a thread that cannot be started (its slot would stay taken), Check Now in Properties (one synchronous observation) and
events the filters reject.  Of spelling: how a text falls into words, the
suggestions, and the comparison of an unknown word's name with what was asked,
which the code makes for a single record only and which the model does without.  Of text: texts an encoding cannot represent, and lower case that
depends on its context.  `RoundTripsAreExact` leaves out a text that begins with
U+FEFF in a file without a mark and one with a carriage return, which read back
as a mark and a line break; `MovesAreUndone` leaves out an empty line moved past
an unterminated last one, where the final break has to go elsewhere.

Of saving, not modelled: the choice of the number of a version copy (the race
for the name is), permissions, owners and extended attributes.
