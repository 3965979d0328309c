# TLA+ models and proofs of MulleFoundationBase

MulleFoundationBase is the Objective-C Foundation of the mulle-objc runtime:
containers, strings, dates and timers, property lists, key value coding,
regular expressions, UUIDs, and the "standard" classes built on them
(notifications, undo, locales, formatters). This directory holds TLA+ modules
of the parts of it that keep state over calls, TLC configurations that check
them on small instances, and proofs of their main invariants that hold for
every instance.

Paths below are relative to the repository; `NSNotificationCenter.m:872` is line
872 of `src/MulleObjCStandardFoundation/NSNotificationCenter.m`.

## Inventory

| component | state it keeps | operations | what is hard |
|---|---|---|---|
| NSNotificationCenter | four maps of queues (by pair, by name, by sender, by observer), a mutex, a generation, `_isFinalizing` | add, remove, remove by name and object, post, `+willFinalize` | threads; observers that call the center while being called; a lock-free test of the generation |
| NSNotification, thread notifications | immutable; the threads post when the process becomes multi-threaded and when a thread ends | create, post | none of their own |
| NSUndoManager | undo and redo stacks with group markers, grouping level, flags; the header says "INCOMPLETE!!" | begin and end group, register, undo, remove by target, enable | registering while undoing; removing by index from a growing stack |
| NSTimer | interval (relative or absolute), target and selector, a callback, or an invocation | create, fire, invalidate | invalidating from the fired method |
| NSLock, NSCondition, NSConditionLock with dates | a mutex, a condition variable, an integer condition | lock before, wait until, lock when condition before, unlock with condition | timeouts that race the signal, repeated waits |
| property list streams | a portion of the source, the cursor in it, a bookmark and what was kept for it; a buffer in front of the sink | advance, consume, bookmark, read bookmarked, write, flush, finalize | refills, bookmarks across refills, ends of data inside of a character, a file that lost its end |
| property list reader and printers | current character, line, two flags, nesting | parse, print | recursion; error paths; the assertion against reading past the end |
| NSMutableArray | storage, count, size, mutation count | add, insert, replace, move, remove, sort, enumerate | ranges that overlap, aliasing, a comparator that lies or raises, mutation while enumerating |
| mutable ordered set | an array and a set of the same objects | add, insert, replace, remove, enumerate | the two must agree, also when an insert fails half way |
| dictionaries, sets | hash tables of mulle-container | insert, remove, look up | class cluster only; the tables are external |
| strings, data, numbers | immutable values, with a few caches, such as the UTF-8 text a string keeps | conversions | widths and encodings; caches that threads fill without a lock |
| scanners, character sets | scan location; bitmaps | scan | boundaries |
| locales, time zones, calendars, formatters | three cached code lists and the current and system locale, under one lock; the system time zone | look up | threads |
| key value coding | caches of accessors per class | value for key, set value for key, undefined key | search order, caches |
| regular expressions, tokenizer | compiled pattern, position | match, enumerate, replace | empty matches |
| UUID | seed and generator state under a mutex | generate, parse, print | seeding once |
| Math, Unicode, errors, exceptions | none, or per-thread slots | pure functions | none |

How they interact: an observer is called by the notification center on the
thread that posts and may call the center again; NSThread and the runtime post
through it at start, exit and finalization. Timers and undo actions call back in
the same way. The property list reader pulls characters from the UTF-8 reader,
which pulls bytes from the buffered input stream; the printers write pieces to
the buffered output stream. The ordered set is a pair of an array and a set. A
sort calls the client's comparator in the middle of its work. The runtime (objects, retain counts, threads), the maps
and queues (mulle-container) and the mutexes (mulle-thread) are external.

What makes each correct:

- *NSNotificationCenter*: an observer is called only while it is registered for
  the notification, once for each registration, later ones first within a
  queue; nobody registered throughout a post is left out; both indices hold the
  same registrations; callbacks never run under the lock; every call returns.
- *NSUndoManager*: an undo followed by a redo restores the stacks; groups stay
  balanced; nothing of a removed target is left.
- *timed locks*: who is told YES has the mutex and who is told NO does not, on
  each of the many ways to either; a wait is entered with it; a condition lock is
  acquired only when its condition has the value; no timeout is cut short. (The
  header of the waits says otherwise of NO, see the findings.)
- *streams*: the bytes read are the bytes of the source in order, whatever the
  sizes of the portions; a bookmarked range is returned whole; what is written
  arrives whole and in order.
- *property lists*: what is printed is read back; a file that lost its end is
  refused; where a portion ends shows nowhere; errors name the right line.
- *NSMutableArray, ordered set*: an array holds the objects it was given, with a
  reference for each place of an object;
  the two halves of the ordered set agree; a sort loses nothing, whatever the
  comparator does; a loop shows what its container held, or notices a mutation.
- *KVC*: the accessor found first by the documented order is the one used, with
  or without the cache.
- *lazily made values (the text of a string, the code lists)*: made once, the
  same for every thread, returned to everyone who asks, and freed once.

## Plan

Modules in the order they were written. Each component has a module with its
state and operations, an `MC` module where constants need definitions, and
configurations; most have a proof module.

1. **Notification center** (done): `PointerQueue`, `NotificationCenter`,
   `NotificationDelivery` (the abstract promise), `NotificationRefinement`,
   `MCNotificationCenter`, and the proof modules.
2. **Timed conditions** (done): `ConditionLock` (the abstract promise),
   `TimedConditionLock`, `MCTimedConditionLock`, `TimedConditionLockProofs`.
3. **Property list streams** (done): `Bytes`, `BufferedInputStream`,
   `MarkedText` (the abstract promise), `BufferedReading`, `BufferedWriting`,
   `BufferedStreamProofs`; on top of them `UTF8StreamReader`, with
   `CharacterText` (its promise) and `UTF8Reading` (its client); then
   `UTF8Skipping`, `PropertyListParsing`, `PropertyListPrinting`, and
   `PropertyListSession`, which composes all of them.
4. **Mutable arrays and ordered sets** (done): `PointerSort`, `PointerSorting`,
   `MutableArray`, `MutableOrderedSet`, `ContainerProgram`, which composes
   them with a loop, and `ContainerProofs`.
5. **Shared caches** (done): `ShadowString`, `CodeListCache`, `LazyValues` (the
   promise of both), `SharedCaches`, `SharedCachesProofs`.

Proved are the state machines of all five; what is said of parsers and printers
is model-checked. Left, most useful first: the keys of `_nameRegistry`, strings
that the center does not retain; rounding and infinite limits of the timed waits.

## The notification center

### Correspondence

`PointerQueue` has the queues and maps of queues. `Keep` is the loop of
`dequeueObserverForKey` that pops every triplet and pushes back those that stay;
`KeepFor` does it for every selected key and drops an entry whose queue is empty.

`NotificationCenter` has one record of state for the center:

| variable | code |
|---|---|
| `triplets` | `_pairRegistry`, `_nameRegistry`, `_senderRegistry`; a key says which map |
| `pairs` | `_observerRegistry` |
| `generation` | `_generationCount`, read without the lock at line 875 |
| `notifying` | `_isNotifying` |
| `finalizing` | `Self._isFinalizing` |
| `lock` | owner of `_lock` |
| `stack` | for each thread the calls of the center in progress |

A frame of a stack is one call: its method `op`, its arguments, and `pc`. The
methods are cut where another thread can tell the difference: at the lock, at
the unlock, at the lock-free read of the generation, and around the call of an
observer.

| action | code |
|---|---|
| `CallAdd`, `Add`, `Leave` | `-addObserver:...`, 560-621: test of `_isFinalizing`; the critical section; the unlock |
| `CallRemoveAll`, `RemoveAll`, `Leave` | `-removeObserver:`, 702-732 |
| `CallRemove`, `Remove`, `Leave` | `-removeObserver:name:object:`, 735-781 |
| `CallPost` | `NSNotificationCenterPostNotification`, 908-927 |
| `Copy`, `EndCopy` | the copy of the queue, 839-865 |
| `CallUnchanged`, `SeeChange` | the first half of the test, 875 |
| `Check`, `CallPresent`, `SkipAbsent` | the second half, 791-824, called at 876 |
| `Return`, `AbandonPost` | the end of the observer's method, 877, or an exception that leaves the post |
| `NextKey`, `EndPost` | the next `post_...` call, the end, 929-938 |
| `CallWillFinalize`, `EndWillFinalize`, `AbandonWillFinalize` | `+willFinalize`, 422-428; it has no `@try`, so an exception out of its post leaves `_isFinalizing` as it was |
| `Ignored` | add or post on a center that is shut |

A critical section is one action and leaving it another, so that `lock` is held
in between and a thread that enters again is seen to block. The decision to call
an observer and the start of its method are one step: what another thread does
between them it may as well do after, and a method that begins after its
observer was removed on another thread is a behaviour of the code and of the
model. In an observer's method (`pc = "calling"`) the thread may call the center
again: the frame goes on top.

Names are the texts of strings, senders and observers are pointers. A name is
never nil in a notification (`NSNotification.m` refuses it). The selector and the
implementation of a triplet are stood for by `reg`, the generation of its add,
which no guard reads. `start` and `called` are history variables inside the
frame of a post.

`NotificationDelivery` is the promise: one set of registrations; a post calls an
observer only while a registration of that observer covers the notification, at
most once for each registration, and does not end while it owes a call: to a
registration that covered it when it began and has been in force since.
`NotificationRefinement` maps the center to it: the registrations are those of
the observer registry, and what a post owes is what lies ahead of it on its
route.

### Runs

| run | instance | shows |
|---|---|---|
| `notification_threads` | 2 threads, 2 observers, 3 changes, no callbacks | `TypeOK`, `LockDiscipline`, `CopyIsCurrent` and the promise, `ImplementsDelivery`, under every interleaving |
| `notification_reentry` | 1 thread, 2 observers, 1 name, 1 sender, 3 changes, callbacks | `RegistriesAgree`, `QueuesInRegistrationOrder`, `CalledOnceInReverse` and `RemovesExactly` with all kinds of keys, the truth table (153-190), an observer removed and added again during a post, finalization; `CallsReturn`: no self-deadlock, no endless post |
| `notification_reverse` | 1 thread | expected violation, below |

Deadlock is checked in all of them: a thread in user code can always post.

`CopyIsCurrent` is why the lock-free test is right: while the generation stands,
what is left of a copy is a prefix of the queue. `RegistriesAgree` also says that
no map keeps an entry for an empty queue; the assertion at line 863 assigns
(`i = n`), so it would fail for one.

Bounds. `MaxGeneration` bounds the changes of the registries; with three, an
observer can be added, removed and added again while a copy is in use, and two
observers can trade places. `MaxDepth` bounds the nesting on a thread and
`MaxNotifying` how often a post is abandoned by an exception. Two threads are
enough for one to be in a post while another changes what it has copied; two
observers for a queue with an order. `Regs` bounds the registrations the abstract
specification quantifies over; it contains every generation a run reaches.
Threads and observers are interchangeable, so `notification_threads` is checked
up to symmetry; `notification_reentry` checks `CallsReturn`, a liveness property,
and uses none. One name leaves it the time for that: that a post or a removal
for one name passes the registrations for others by is proved for all names
(`RemoveIsExact`, `CenterKeepsItsPromise`).

Fairness (`FairSpec`). A thread inside the center keeps running (weak fairness of
the steps that need no lock). The mutex does not starve a thread that asks for
it over and over (strong fairness of the steps that lock): POSIX leaves this to
the scheduler, and the code needs it as much as the model; the run of
`CallsReturn` has one thread, nested two deep, and so asks nothing of it. An
observer's method returns, at whatever depth it runs (strong fairness of `Return` for each depth):
without it a method that posts for ever keeps its caller waiting, which is no
fault of the center. Nothing obliges user code to call the center, and raising is
never required.

### Finding

`notification_reverse`: the comment at `NSNotificationCenter.m:786` says that
observers registering in the order a, b, c are messaged in the order c, b, a. A
post visits the queues of the pair, the sender, the name and the omniscients one
after the other and reverses within each: an observer registered first for a pair
is called before one registered later for the sender. `CalledOnceInReverse`
states what does hold, the reverse order for each queue.

### Proofs

All of it is for any sets of threads, observers, names and senders and any
bounds, from `ConstantsAssumption` alone (the special values are distinct, the
bounds are naturals).

- `PointerQueueProofs`: what the queue operators return. `Keep` is a recursive
  function; its lemmas need an induction over the length, done here from the
  well-foundedness of the strict subset order on finite sets (`InductionUpTo`),
  because the library's induction theorems take an operator as a parameter.
  `KeepElements`: exactly the wanted elements stay. `KeepEmbeds`: in their order.
- `NotificationCenterProofs`: keys are injective in name and sender; what a push,
  a pop and a change of the top frame do to a stack; `TypeCorrect`.
  `IndicesAgree`, `RemoveIsExact`, `QueuesInOrder`: that the two indices agree is
  inductive once it is said for keys and observers
  apart: every triplet has its pair and the reverse, with equal `reg`, and every
  `reg` is below the generation (`OrderInv`). A remove then takes the same registrations out
  of both, by `KeepElements`; order survives by `KeepEmbeds`, and an add is the
  youngest because the generation moves on.
- `NotificationThreadProofs`: `LockDisciplined`. `LockDiscipline` alone is not
  inductive, since after a return the frame below is on top and must not be
  inside a critical section; `CallersWait` says that it waits for an observer.
  `CopiesAreCurrent` is inductive given the types:
  the registries move only together with the generation (`RegistriesMoveOn`), and
  a step writes one frame, whose copy is new, unchanged or one shorter.
  `CallsAreOnceInReverse` says of a post what it has called; a copy is read long
  after the lock is released, so its invariant (`RightStacks`) ties each frame to
  the registries of now: what was copied or called can be found under no other
  key than the one it was copied from (`RegsUnique`, `OnlyUnder`), the copy
  ascends, and what was called under its key is younger than what is left of it.
- `NotificationDeliveryProofs`: `CenterKeepsItsPromise`, the refinement. Each
  action is a step of `NotificationDelivery` or leaves what it sees alone: an
  observer is told while a registration covers the notification, because either
  the copy is current or the thread has just looked (`LookedStacks`), and `EndPost` owes
  nothing, because what a post still owes lies ahead on its route.
  Abstract registrations are told apart by generations, so the theorem asks that
  `Regs` has those reached until now (`RegsSuffice`), as it does in the runs;
  `CenterKeepsItsPromiseForEver` takes all of `Nat` for it.

Model-checked only: liveness, which is out of the prover's reach.

### Not modelled

Retain counts: the observers of a copy are retained until the autorelease pool
drains, and an observer that is deallocated while registered is a dangling
pointer (the documentation asks for a remove in `-dealloc`). The strings that are
keys of `_nameRegistry` (see the plan). Failure of memory allocation. `-dealloc` of the
center and `-dump`.

## The timed condition lock

### Correspondence

`TimedConditionLock` has the threads that share one `NSConditionLock`. A thread
is idle, holds the lock, or is in one of the methods of `NSConditionLock+NSDate.m`
and `NSCondition+NSDate.m`; `call[t]` is its program counter, arguments and
locals. Methods that only convert a date call the method with the interval, so
they are one in the model:

| `method` | code |
|---|---|
| `"timeout"` | `mulleLockWhenCondition:timeout:`; `mulleLockWithTimeout:` when the value is `AnyValue` |
| `"before"` | `lockWhenCondition:beforeDate:`, `mulleLockWhenCondition:beforeTimeInterval:`; `lockBeforeDate:`, `mulleLockBeforeTimeInterval:` when it is `AnyValue` |
| `"until"` | `mulleLockWhenCondition:waitUntilDate:`, `...waitUntilTimeInterval:` |
| `"wait"` | `waitUntilDate:`, `mulleWaitUntilTimeInterval:` |
| `"waitTimeout"` | `mulleWaitWithTimeout:` |

| variable | code |
|---|---|
| `calendar` | `_NSTimeIntervalNow()`, which dates are compared with |
| `monotonic` | `mulle_absolutetime_now()`, which timeouts are measured with |
| `mutex` | the owner of `_lock` |
| `isLocked` | `_mulleIsLocked` |
| `condition` | `_currentCondition` |

| action | code |
|---|---|
| `TryLock`, `Spin`, `GiveUp` | the loops of `tryLockUntilTimeInterval` and `tryLockUntilTimeout` and the test of the result |
| `Lock` | `NSConditionLock+NSDate.m:233` |
| `Grant`, `TooLate`, `WaitForCondition` | the `while` over the condition (172, 212, 234) and the deadline before a wait (174) |
| `Sleep`, `Wake`, `Expire`, `Reacquire`, `ReacquireLate` | `mulle_thread_cond_timedwait`, `NSCondition+NSDate.m:75-86` |
| `UnlockLate` | its `ETIMEDOUT`, line 79 |
| `WaitAgain`, `EndWait` | the retry, lines 101-107 |
| `SleepWithoutMutex` | the wait of the retry, which the thread enters without the mutex |
| `Unlock`, `UnlockWithCondition` | the base class, external |
| `Tick`, `SetCalendar` | time, and the calendar being set |

A timed wait gives the mutex up and sleeps in one step and takes it again before
it returns; this is what POSIX says of `pthread_cond_timedwait`, which
mulle-thread wraps. A wait by a thread that does not own the mutex is undefined.
`SleepWithoutMutex` chooses between what a POSIX mutex does: it is set free,
whoever owns it, or the call is refused with an error that is not `ETIMEDOUT`,
which the code takes for a wake-up. Times are integers; comparisons are the only
thing done to them apart from adding and subtracting.

`ConditionLock` is the promise: a thread asks, is granted the lock while nobody
has it and the condition has the value asked for, or is refused; a holder
releases it with a value or waits, which is to give it up and ask again. The
mapping: the holder is the thread that has been told YES, and a thread asks as
long as it is in a method.

### Runs

| run | instance | shows |
|---|---|---|
| `condition_lock` | 2 threads, all methods, limits and a timeout, the calendar set at most once, holders that let go | `GivesUpInTime`: no early NO, though the wait itself may end early and be repeated; and as long as the calendar stands, `OwnsWhatItTakesForGranted`, `GrantedOnCondition`, `FlagFollowsMutex`, `ImplementsConditionLock`, `CallsReturn` |
| `condition_lock_retry`, `_negative`, `_held` | 2 threads | expected violations, below |

`Calm` says for how long five of them are stated: until the calendar is set, or
for ever if there are no timeouts. Once it is set a timeout may be waited for
without the mutex (the first finding), and what a POSIX mutex does then is no
promise of this code.

Bounds. Two threads: one waits and the other contends for the mutex that the
waiter wants back; for any more the safety properties are proved. Two values, so
that a condition can be right and wrong. `MaxTime` bounds the end of a timeout; the
clocks stop there unless somebody sleeps until later. With limits and a timeout of 1
and a clock that runs to 1 a limit lies ahead and behind; a timeout that is over at
once, or takes longer, is in the runs that find violations, and the theorems
have all that are not negative. `MaxAdjustments` bounds how often the calendar is set; any
value in range is reached by one setting. Deadlock is checked.

The flag `_mulleIsLocked` is written in one step with what the mutex does next to
it; a thread that reads the flag without the mutex in between is not modelled.

Fairness (`FairSpec`). Time passes; a thread that can go on does (weak fairness of
`Proceed`); a thread that asks for the mutex over and over gets it, and a wait
whose limit has passed ends (strong fairness of `Contend` and `Expire`, which the
scheduler and the condition variable provide). `LettingGoSpec` adds that holders
let go. Spurious wake-ups are never required and never excluded.

### Findings

- `condition_lock_retry`: `mulleWaitWithTimeout:` converts its timeout to a
  calendar date for each wait and waits again when the monotonic clock says that
  it was too short (`NSCondition+NSDate.m:105`). But the wait that timed out has
  unlocked the mutex (line 81). The next wait is entered without it, against the
  header (`NSCondition+NSDate.h:52`, "Enter here in a locked state, unlock
  afterwards."). A calendar that is set forward is one cause; the header names
  another, a platform whose waits end early.
  The same trace shows a disagreement about the NO itself. The header, and
  `index.md:449`, tell the client of a wait to unlock afterwards, with no exception
  for NO. The code has unlocked by then, and the locks with a condition count on it
  (`NSConditionLock+NSDate.m:187`, "mulleWaitWithTimeout already unlocked on
  timeout."). The model follows the code, and so does `OwnsWhatItTakesForGranted`:
  a client that follows the header instead unlocks a mutex it does not own.
- `condition_lock_negative`: `tryLockUntilTimeout` returns the timeout itself when
  its first attempt succeeds. If it is negative the callers return NO with the
  lock held (`NSConditionLock+NSDate.m:167` and 246).
- `condition_lock_held`: `index.md:50` and `NSConditionLock+NSDate.h:61` say of the
  methods with `beforeDate:` and `timeout:` that they cannot deadlock. They try
  the lock first, but a condition wait that times out takes the mutex again
  without a limit, so they hang as long as somebody holds it.

### Proofs

`TimedConditionLockProofs` assumes `NoneIsOverdue` in four theorems: no timeout is
negative. The findings show that they need this, and `Calm` in the properties; dates
need neither. For any threads, values, dates and timeouts, and any number of
settings of the calendar:

- `MutexIsWhereItShouldBe`, `ConditionStaysRight`, `FlagIsRight`. The invariant alone is not
  inductive: it has to exclude `WaitAgain`. `WaitsEndInTime` says that a wait for
  a timeout sleeps until its start plus what was left, so with one clock
  (`OneClock`) it has been long enough whenever it times out.
- `PromiseIsKept`: `Spec => ImplementsConditionLock`. The holder of the promise is
  well defined because a holder owns the mutex (`HolderRight`); each step of a
  thread asks, is granted, is refused, waits, releases, or changes nothing that
  the promise sees. It is stated of the steps after which `Calm` holds;
  it then held before, and with it the invariant (`CalmInv`).

Two more need no such assumption, so they hold when the calendar is set and the
mutex is not owned by who waits:

- `TypesAreRight`: `Spec => []TypeOK`.
- `NoTimeoutIsCutShort`: `Spec => GivesUpInTime`, an action property. `DeadlineInv`
  follows the limit through the locals of a method: where it tries or waits, the
  limit is no later than now and what is left; where it spins, it is the limit it
  spins to; and asleep, it is no later than the start of the wait and what was
  left then. The retry computes what is left from the monotonic clock again.

Model-checked only: liveness.

### Not modelled

Infinite timeouts (dates may be infinite); rounding of floating point times; the
conversion of a date to a `timespec`; `-[NSLock lockBeforeDate:]`, which calls a
method of the external base class; `-signal` and `-broadcast` of a plain
`NSCondition` are covered by `Wake`.

## Property lists and their streams

### Correspondence

Three layers, each of modules of data only, with the functions of the code:

| module | code |
|---|---|
| `BufferedInputStream` | `MulleObjCBufferedInputStream` over a `MulleObjCInMemoryInputStream`: the portion, the cursor, the bookmark and what was kept for it, as a record; `Advance`, `FillBuffer`, `WithBookmark`, `Region` are its accessors |
| `UTF8StreamReader`, `UTF8Skipping` | `MulleObjCUTF8StreamReader`: the current character, composed from bytes with the masks of the code, and the line number; the loops over white space and comments |
| `PropertyListParsing` | the `_MulleObjCNew...FromPropertyListWithReader` functions: `Parse`, `ParseArray`, `ParseDictionary`, `ParseData`, `Quoted`, `Unquoted`, for the OpenStep, PBX and loose formats |

`PropertyListPrinting` is the other way: `Writes` is the sequence of pieces that
`mullePrintPlist:` hands to the output stream, one for each write, and `Reread`
says without any text what should become of a value that is printed in a style
and read in a format.

The state machines are built on these. `BufferedReading` is one client of the
input stream that calls the accessors in any order their assertions allow;
`UTF8Reading` is one client of the reader, as a parser is, that moves, marks and
extracts in any order; `BufferedWriting` is one client of
`MulleObjCBufferedOutputStream`;
`PropertyListSession` composes them:

| action | code |
|---|---|
| `PrintPlist`, `WritePiece`, `FlushPieces`, `FinishPrinting` | `mullePrintPlistToStream:`, `mullePrintLoosePlistToStream:`, the write functions of `MulleObjCPropertyListPrinting.h:120`, `-flush`, `-finalize` |
| `Lose` | the process ends before `-finalize`; the buffer is gone, and of what the sink was handed any part from the end |
| `Find` | a text that was not printed here |
| `OpenFile` | `mullePropertyListFromData:...`, which refuses empty data, and `initWithData:` |
| `Walk`, `Echo` | the accessors of the stream one at a time, and copying what they answer to the output stream |
| `ReadFile`, `WalkCharacters` | `initWithBufferedInputStream:`, and the accessors of the reader one at a time |
| `ParseFile` | `_parsePropertyListData:`, `_parsePBXPropertyListData:`, `_parseLoosePropertyListData:` |

A parse is one action: it is sequential, shares nothing, and only its outcome
can be told apart. Characters are real bytes here, because the promises are about
them: what is escaped is unescaped, whatever the portion boundary hits.

`BufferedInputStream` keeps `handedOut` and the whole source; the position of
the cursor in the source, `Position`, is derived from the buffer and is what the
promise speaks of. Reading past the end is an assertion
(`_MulleObjCBufferedInputStream+InlineAccessors.h:64`); a reader that would fail
it is `aborted`.

`MarkedText` is the promise of the input stream: a text, a position and a mark,
no buffer. `CharacterText` is that of the reader: a text, the character of it that
is current, its line, a mark, no portions and no loop. It says of any bytes, UTF-8
or not, how many of them a character takes and what it is: `Stop` is where the
cursor is left, the last byte of a whole character and the first that does not fit
of another, and `CharacterAt` its bits, with the masks of the code.

### Runs

`property_list_streams` (`MCPropertyListSession`, about 900,000 states) prints,
tears, and reads by byte, by character and by the parser. The texts are those that
were printed, a few others, and all of up to four bytes out of seven, UTF-8 or not.
It checks `ReadingInv` and `NothingLost` of the buffers, the refinements
`ReadsTheText` and `ReadsTheCharacters` (characters, lines and marked regions are
those of the text, wherever the portions end), and

- `RoundTrip`: what was printed in whole is parsed to what `Reread` says, and
  nothing is left over. A string is to come back as a string; that fails for those
  that look like a number or a bool, so it is stated of property lists in which the
  format mistakes no string (`Mistaken`), see below;
- `TornIsRefused`: a file that lost its end is never taken for a smaller list if
  it began with a bracket or a quote (a bare word may become a shorter one);
- `PortionsDoNotShow`: the size of the portions changes neither the result nor
  the line of an error nor whether the assertion fails;
- `AbortsAtAnOpenQuote`: for a torn file, the assertion fails only if what is left
  ends with a quote, as behind one that opens a string, or with a byte of a
  character of several;
- `EndIsTold`: behind the last byte the current character is `EOF`, unless the
  text is cut inside of a character. A client that looks before it moves can fail
  the assertion in no other text;
- `LineNumberIsTold`: the line is that of the cursor, by `Next` or by `Consume`.
  It is claimed of texts in which no line ends inside of a character and no
  character of several bytes is taken for a line's end (`LinesAreWhole`): the
  reader drops the byte that breaks a character off, so it cannot see that.

`character_stops` (`MCUTF8Reading`) is an expected violation, below.

Bounds. Portions of 1 byte put a boundary between any two bytes, 2 and 5 let
bookmarks span one and several, 5 holds all that is walked in one portion; the code
has 4096 (`DefaultBufferSize`). Output buffers of 1 and 3 make every case of
`mulleWriteBytes:length:` happen: fits, fills up, fits after a flush, is longer
than the buffer. `MaxWalked` and `MaxRead` restrict the free walks over the
accessors of the stream and of the reader to texts of three and four bytes, whose
bookmarks in all portions are all reached; every text is parsed. Four bytes hold
the longest character, or two broken ones, and the seven bytes have leads of all
lengths, bytes that continue, a quote and a line's end.
`MCValues` has each kind of value, empty and nested, and the strings that need
quotes or look like numbers, bools or null; `MCTexts` has comments, a strings
file, octal escapes and a trailing comma. The session has no fairness: each
action is one client's choice, and nothing is promised about progress. Deadlock is
checked: whatever a reader runs into, the next program can begin.

### Finding

`character_stops`: the mask of a lead of four bytes is `0x3`
(`MulleObjCUTF8StreamReader.m:168`); a lead has three bits there. So `0xF4` carries
none, and U+100000 to U+10007F compose to 0 to 127. The comments at lines 104 and
128 rely on ASCII characters being single bytes: U+100022 ends a quoted string,
U+10000A counts as a line, U+100000 ends a loop that stops at 0.

### What the model shows about the code

Two disagree with what the repository says of itself, but have no run of their own:

- Strings that look like numbers or bools are written without quotes, because
  `MULLE_PLIST_DECODE_NSNUMBER` is commented out (`NSString+Escaping.m:53`, "needed
  for "loose""). The
  heuristic that recognizes numbers counts on the opposite
  (`NSNumber+NSString.m:180`, "on the bright side, we quote "dudes" on output"), and a
  comment in `mulleNeedsQuotes` wants "to preserve the "stringness" of @"YES"". The
  string `1` comes back as a number in the loose and the PBX format, and `YES` as a bool in
  the loose one. `MCValues` has both: without its condition `RoundTrip` is
  violated in the first, by `String(<<Code.one>>)`. That a string such as
  `__NULL__` is quoted, for its underscores, keeps it a string.
- `NSPropertyListSerialization.h:113-116` says that null is `__NSNULL__` in the loose
  format; printer and parser use `__NULL__` (`NSNumber+PropertyListPrinting.m:59`,
  `NSObject+PropertyListParsing.m:90`), and so does the model.

The others contradict nothing that is promised:

- A file that ends in an opening quote or inside of a character fails the
  assertion instead of being refused (`AbortsAtAnOpenQuote` says that torn output
  gets there in no other way); so does an unterminated comment, whose end is
  looked for with `Next` (`MulleObjCUTF8StreamReader.m:274`).
- A trailing comma in an array gives a null element in the loose format, because
  a closing bracket is parsed to `nsNull`.
- A `/` that begins no comment is read over by `SkipWhiteAndComments`, which is
  noticed in front of a word (`Word`) but nowhere else.
- The mask for a lead of two bytes, `0x1E`, drops its last bit, so that U+00C0 is
  U+0080. Nothing falls below 128 by it, and strings are cut from the bytes.
- `initWithOutputStream:` passes a size of 0 to `initWithOutputStream:bufferSize:`,
  which asserts that it is not; streams are made with a size here.

### Proofs

`BufferedStreamProofs`, for any texts, pieces, portion and buffer sizes:

- `BufferIsCoherent`: `ReadingSpec => []ReadingInv`. It is inductive as it
  stands: the portion is a part of the source, and what was kept for a bookmark
  is the part of the source in front of it.
- `StreamReadsTheText`: `ReadingSpec => ReadsTheText`. Each accessor is a step of
  `MarkedText`; `FillBuffer` moves neither position nor mark, and by `ReadingInv`
  the kept bytes followed by the portion up to the cursor are the text from the
  mark to the position.
- `OutputLosesNothing`: `WritingSpec => []NothingLost`.
- `ReaderReadsTheCharacters`: `ClientSpec => ReadsTheCharacters`. `ReaderInv` says
  that the buffer is coherent and that the reader is `AtCharacter`: at the `Stop`
  of some place of its text, with the `CharacterAt` it. Composing is followed a
  byte at a time (`IsUnderWay`, `AllBytes`): after k bytes the value under way is
  `Bits(t, p, k)`, whichever portions they came from, because `Advance` moves by
  one byte of the source (`AdvanceKeeps`). The number of bytes that continue a
  character is chosen in the promise and found by a loop in the code;
  `FollowingIs` shows that they are the same.
- `ReaderTellsTheEnd`: `ClientSpec => []EndIsTold`, from `ReaderInv`.
- `ReaderTellsTheLine`: `ClientSpec => []LineNumberIsTold`. With `ReaderInv` it is
  inductive: no line ends between the first byte of a character and its `Stop`
  (`NoLineInside`), so a move passes at most the line's end under the cursor
  (`LineEndsOfMove`), which is there when the current character says so
  (`LineUnderCursor`).

Model-checked only: what is said of the loops that skip, of the parser and of the
printers (`RoundTrip`, `TornIsRefused`, `PortionsDoNotShow`, `AbortsAtAnOpenQuote`). They are recursive over texts and values of any length,
and what a recursive operator computes for every input is out of the prover's
reach; the runs take them through each kind of value. The parser moves only by
the accessors of the reader, so the theorems above are what it builds on.

### Not modelled

`-readDataOfLength:` of the buffered stream (`MulleObjCBufferedInputStream.m:235`,
nothing in the repository calls it, and its test of the remaining length is the
wrong way round); streams over file handles; the detection of a format, byte
order marks and UTF-16 input; dates, JSON, `NSDate` printing; a data text with a
lone hex digit, which reads a byte behind the region; characters above 127 outside of
quotes.

## Mutable arrays and ordered sets

### Correspondence

`PointerSort` is `mulle_qsort_pointers`, a call of the comparator at a time.
`todo` is the recursion: the ranges its frames have yet to sort, the last of
which is being partitioned. `Compared` is what the code does with an answer
before it asks again; `Partitioned` is the swap of the pivot and the choice of the
shorter side. `PointerSorting` gives it a comparator: a sound one, which answers
from an order, or any other, which answers what it likes; each may raise.

`MutableArray` has the storage of `NSMutableArray` as a record: `objects`, `size`
(the allocated room), `mutations`, and `held`, the number of references the
array holds to each object. Each primitive is a function from array to array:
`Added`, `Inserted`, `Replaced`, `RangeRemoved`, `RangeReplaced`, `Exchanged`,
`Moved` and so on; `SetToItself` and `AddItself` are the calls in which the argument is the
receiver.

`MutableOrderedSet` has `order` and `table` of
`_MulleObjCConcreteMutableOrderedSet`, which must agree. Equality is not
identity: two of the objects are equal.

`ContainerProgram` is a thread with an array, a set and a `for` loop:

| action | code |
|---|---|
| those under `ArrayNext` | the methods of `NSMutableArray.m` of the same names |
| `SortArray`, `CallComparator`, `ComparatorRaises` | `sortUsingFunction:context:`, `sortUsingSelector:`, 863-902 |
| those under `SetNext` | the methods of `_MulleObjCConcreteMutableOrderedSet.m` |
| `Enumerate`, `NextPortion` | `countByEnumeratingWithState:objects:count:` of the array (`NSMutableArray.m:611`) and of the set (`_MulleObjCOrderedSet.m:145`) |
| `ShowNext`, `LeaveLoop` | the compiler's loop: the test of `*mutationsPtr` before each object, `objc_enumerationMutation`, `break` |

A method that raises for its arguments before it changes anything is no step.
`insertObjects:count:atIndex:` may raise half way, since the index moves on for an
object that the set has; what it did until then is kept (`AllInserted`, a
recursive function whose step k has inserted k objects). `removeObject:` keeps
what is not equal (`Keep` of `PointerQueue`).

### Runs

`mutable_containers` (`MCContainerProgram`, about 270,000 states):

- `SortKeepsAll`, `SortStaysInside`, `SortIsShallow`: for any comparator, also one that
  raises, nothing is lost or repeated, no range leaves the storage, and the
  recursion is logarithmic; `SortSorts`: a sound comparator gets a sorted array;
  `SortEnds`: every sort comes to an end; `SortComesNearer`, an action property:
  each answer ends the sort, leaves fewer pairs of places together in a range, or
  brings the walkers together.
- `ArrayIsSound`: a reference for each place of an object, and room for all, in an
  array that holds objects (below).
- `OrderMatchesTable`: the two halves of a set agree and hold no two equal objects.
- `LoopShowsTheStart`, `LoopShowsAll`: a loop shows a prefix of what its container
  held at its start, never reads a storage that was reallocated, and a loop that
  ends by itself has shown all, but for one gap below.
- `MovesKeepTheRest`: the block move of `mulleMoveObjectsInRange:toIndex:` against
  its definition on sequences, for every range of every array of objects reached.

`array_replace_range` is an expected violation, below.

Bounds. `MinimumSize` is 2 (8 in the code), so that the storage grows, is reserved and
shrinks with at most `MaxCount` = 4 objects; `PortionLength` is 2 (16 in the code),
so that a set has two portions; `MaxMutations` and `MaxSetMutations` are the
changes of one container before new ones are made, enough for an object to be
added, replaced by an equal one, removed and added again while a loop runs. `ArrayIsFresh` and
`SetMayChange` keep the run small: the array and the set are not both changed a
lot, since neither can see the other's changes. Four objects of which two are equal give
a sort all the orders of three, with repetitions.

Fairness: a comparator that is called returns or raises, `WF_vars(ComparatorNext)`;
it runs on the same thread, and a comparator that hangs is no fault of the sort.
Deadlock is checked.

### Finding

`array_replace_range`: `replaceObjectsInRange:withObjects:count:` retains and stores
`objects[ i]` with `i` counting from `range.location` (`NSMutableArray.m:664`); `j`,
which counts from 0, is not used. The caller passes as many objects as the range is long
(asserted at line 654), so for every location but 0 the method reads behind the
end of the buffer. What it finds there is undefined; the model stores
`Unknown`, which is none of the objects (`RangeReplaced`), and follows such an
array no further: no method is called on it, because what `-retain` and
`-release` do to what is not an object cannot be said. `ArrayHoldsObjects` is
violated by one such call. `ArrayIsSound` and `MovesKeepTheRest` are stated of
arrays that hold objects; replacing a range at location 0 is among the calls they cover.

### What the model shows about the code

- `mulleMoveObjectsInRange:toIndex:` and the `replaceObjectAtIndex:withObject:` of
  the ordered set leave the mutation count alone: a loop does not notice them.
  Such a loop is `blind` in the model and nothing is claimed of what it shows.
- A loop over an ordered set compares the counts only while it has a portion. If
  the body of the last object of a portion removes so many objects that none are left to show, the loop
  ends as if it had seen all. `LoopShowsAll` allows for exactly that.

### Not modelled

Enumerators; `removeObjectsInArray:`; an `-isEqual:` or a comparator that changes
the array; coding; initializers with variable arguments; the algebra of
`NSOrderedSet`, which is built on the methods modelled. The table is
mulle-container's and external.

### Proofs

`ContainerProofs`, for any objects, worths, answers, contents and lengths, any
`MinimumSize`, any portion of at least one object and any bounds. The assumptions
say of the constants what they are: answers and worths are integers, contents are
sequences of objects, capacities are naturals.

- `SortStaysInTheArray`, `SortLosesNothing`, `SortDoesSort`, of the sort
  (`SortInv`). `Inside`: its ranges are apart and inside of the storage, and the
  walkers are inside of the last. `InOrder`, for a sound comparator: two places
  that are together in no range still to be sorted are in order (`Ordered`), and within the last range what the
  walkers have passed is on the right side of the pivot (`Parted`). A partition
  splits the last range in two and keeps this (`PartitionedOrdered`); when nothing
  is left to sort no two places are together. That a sound comparator never makes
  the sort abort falls out of `Parted`: the pivot itself stops the walker.
- `ArrayStaysSound` (`ArrayInv`). Each method yields an array that is `Proper` and
  is the old one or has counted a mutation (`Follows`), or, where a range behind the
  first place is replaced, one that holds what is not an object and has counted a
  mutation too (`RangeReplacedStrays`); nothing but the loop goes on then (`Strayed`). Adding, inserting, replacing and removing are
  all `Spliced`: part, new part, rest; how often an object occurs in a splice is a
  sum (`OccurrencesInParts`), and that is what the references are kept by.
- `MovesKeepAll`: the two block copies of a move are a splice (`MovedIsSpliced`).
- `SetStaysConsistent` (`SetInv`). Each insertion keeps `Matches`. The methods that
  insert many are recursive functions; that their steps exist and follow each
  other is shown by induction on the finite set of steps (`StepsExist`,
  `InsertionsFollow`), as in `PointerQueueProofs`.
- `LoopShowsNothingElse`, `LoopMissesNothing` (`LoopInv`). A loop that finds the count of
  mutations it began with has before it what it began with, unless a sort is under way,
  when the body does not run (`OverArray`); each portion of a set begins where
  the last ended and is full or the last (`OverSet`), which is where the gap at a
  multiple of `PortionLength` comes from. A sort counts its mutation at its end;
  one that is left by an exception counts none and makes the loop blind.

- `SortStaysShallow` (`DepthInv`). A range that waits is at least twice as long as
  all that is sorted before it, because a split leaves the longer part waiting
  (`SplitHalved`); so the first of k ranges has at least 2 ^ k - 1 places
  (`HalvedIsShallow`). What the prover has to know of powers of two comes from
  counting subsets (`TwiceAsManySubsets`, from `FS_SUBSET` of the library).

- `SortGoesForward`, from `Inside`: a partition puts the pivot in neither part, and
  the parts are apart from all other ranges (`PartitionedSettles`); any other
  answer moves one walker towards the other (`ComparedNearer`). With
  `SortStaysInside`, which bounds the walkers, it is the termination argument for
  arrays of any length.

Model-checked only: `SortEnds`, which is liveness. `SortGoesForward` is all of it
but the fairness of the comparator.

## Values made on demand

### Correspondence

Two caches that threads fill when they first need them, by two disciplines.

`ShadowString` is `-UTF8String` of a string whose characters are not kept as
UTF-8 with an end: a referencing ASCII string (`_MulleObjCASCIIString.m:799`), and
with `Kind` the UTF-16 and UTF-32 strings. There is no lock.

| action | code |
|---|---|
| `ReadShadow` | the atomic read of `_shadow` into a local, 806 |
| `TestShadow` | `if( ! _shadow)`, 807, which reads the instance variable again |
| `Convert` | the conversion into a new buffer, 809-813 |
| `CompareAndSwap`, `FreeMine` | the cas, and freeing what lost, 815-819 |
| `ReturnText` | 821; the ASCII string returns the instance variable, the others return the local |
| `Release`, `MakeString` | the last `-release` frees the shadow; a new string takes its place |

`CodeListCache` is `+ISOLanguageCodes`, `+ISOCountryCodes` and
`+ISOCurrencyCodes` of NSLocale (`NSLocale.m:1354`): `Lock`, `Look`, `Unlock`,
then `Compute` without the lock, then again `Lock`, `Look` with what was
computed, `Unlock`. `Look` is `mulle_locale_cached_code_list`: the first to come back
wins and the others are given its list.

`LazyValues` is what both promise: a value is decided once, and whoever asks is
given it; it may be forgotten when nobody asks or has it. `SharedCaches` lets the same
threads do both.

### Run

`shared_caches` (`SharedCaches`, about 231,000 states):

- `MemoryIsSound`: each buffer is the string's or one thread's; none is freed
  twice or lost, and a text that was returned stays valid while the thread keeps its
  reference.
- `DecidedOnce`: both caches implement `LazyValues`.
- `EveryoneIsAnswered`: every call returns.

Bounds: two threads race for each value; one more buffer than threads, so that an
allocation always succeeds and freed buffers are handed out again; two caches under
one lock; two lists, so that a list that was replaced is noticed. More threads are
covered by the proofs. Deadlock is checked.

Fairness: a thread in a call goes on (weak fairness). The mutex does not starve a
thread that asks for it (strong fairness of `Lock`), as in the notification
center. Nobody is obliged to call.

### The UTF-16 and UTF-32 strings

They use the same discipline but return the local, which is what the first atomic
read found. If another thread stores the text between that read and the test
(`_MulleObjCUTF16String.m:254-268`, `_MulleObjCUTF32String.m:244-258`), the test finds the text,
nothing is converted, and the local, still NULL, is returned.
`src/MulleObjCValueFoundation/index.md:340` says that the strings may be read by
threads at the same time. With `Kind = "UTF16"` TLC reaches
such a return in eight steps: give `SharedCaches.cfg` that value and the
invariant `TextIsReturned`. The run and the theorems about the text are about the
ASCII string, which returns the instance variable; for the others the memory is as
sound, but the text may not be returned.

### Proofs

`SharedCachesProofs`, for any threads, buffers, caches and lists:

- `MemoryStaysSound`: `Spec => []MemoryIsSound`, for a string of any kind. The
  invariant is `ShadowInv`: in addition to the ownership of buffers it says where
  a thread may be with what. A thread that is about to return
  knows that `_shadow` is set, and it stays set because a thread in the call has a
  reference; what it has read of it is that value or NULL.
- `TextStaysReturned`: `Spec => []TextIsReturned`, with `Kind = "ASCII"`.
- `DecidedForAll`: `Spec => DecidedOnce`, with `Kind = "ASCII"`. For the code lists `ListInv` says that
  a thread holds the lock exactly while it looks or unlocks, and that what it
  found is what the cache holds.

Steps of the string leave the lists alone and the reverse (`StepsApart`), so the
invariants are proved apart. `EveryoneIsAnswered` is liveness and stays with TLC.

### Not modelled

The system and the current locale, which are made in one critical section of the
same lock; the hand-out of the system time zone; the seed of UUIDs, made and
advanced in one critical section.

## What the models do not cover

Nearly all of the program's logic is in its Objective-C files; of the C sources and
headers only the pointer sort, the inline accessors of the streams and the
instance variables of the classes hold state, and these are modelled.
Beyond what the sections above leave out:

- *NSUndoManager*: incomplete by its own header. Nothing writes the redo stack,
  an undo of a group marker invokes nothing, groups are not undone as groups;
  there is no promise to hold a model against. Two hazards are listed.
- *NSTimer*: calls its target and forgets it. When it fires, and who drops it, is
  decided by a run loop that is not in the repository.
- *Key value coding*: what a search finds depends on the classes of a program and
  is cached by the runtime, which is external.
- *Dictionaries, sets, map tables*: class clusters over the tables of
  mulle-container, which are external.
- *Regular expressions*: matching is external; the enumerator keeps one range.
- *Strings, data, numbers, scanners, character sets, dates, calendars,
  formatters, math*: conversions and pure functions without state over calls,
  except for the caches above; the recognition of numbers, escaping and quoting
  are modelled as far as property lists use them.
- *Retain counts and autorelease pools* throughout, but for the references an array holds and
  the last release of a shared string.
