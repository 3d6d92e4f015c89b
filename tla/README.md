# Wasthon, specified

Wasthon serves the CPython C-API to C extension modules from Brython, a Python
whose objects are JavaScript objects and have no reference counts.  This
directory holds TLA+ modules for the parts of the bridge where that mismatch is
hard to get right, TLC configurations that check them on small instances, and
TLAPS proofs for every size.  All paths are relative to the repository; line
numbers are of `src/src/wasthon.js` unless another file is named.

## The system

| component | its state | its operations | what makes it correct |
|---|---|---|---|
| handle table | `handles`, `sentinelByObj`, `nextHandleId`, `freeList` (34-64) | `wrap`, `unwrap`, `releaseSentinel`, `_allocSentinelId`, binding of structs | one object, one handle; a recycled id is dead; ids and struct addresses stay apart |
| handle scopes | `scopes`, `scopeOf` (66-81) | `pushScope`, `popScope`, `scoped`, `_scopeTrack` | what a call was given lives as long as the call, and what nobody counted dies with it |
| reference counts | `refcounts` (145-153) | `incref`, `decref`, `wrapNewRef`, `consumeResultRef`, `wrapPinned` | the count is what C owns; zero frees, nothing else does |
| C instances | the struct, the wrapper bound to it, `$wasthon_py`, argument pins | `PyObject_GC_New`, `PyObject_GC_Del`, `releaseSole`, `gcFinalize` | a struct is destroyed once, after every owner let go, and in the end |
| unbinding of results | `_born`, `demoted`, `resultReg` (82-124) | `_bornTrack`, `_demotePass`, `_reclaimDead`, recovery in `unwrap` | an unbound instance is found again while anything needs it |
| whole-heap collector | census, `gcRegistry`, backoff counters | `_mark`, `_settle`, `$wasthon_reclaim`, `$wasthon_gc_collect`, `after_unbind` | it frees only what nobody reaches, and all of it |
| calls | argument buffers, keyword arrays | trampolines and slot dispatchers (18903) | conventions of each METH flag; every path closes its scope |
| errors | `pendingException` | `setError`, `forwardError`, `PyErr_*`, the re-throw in the trampolines | the error C set is the error Python sees |
| recursion guard | `_cRecursionDepth` | `Py_EnterRecursiveCall`, `Py_LeaveRecursiveCall`, the reset in `popScope` | wasm's stack never overflows, and no later call is poisoned |
| types | type structs in linear memory, `_thKey` | `PyType_Ready`, `PyType_FromModuleAndSpec`, `ensureTypeStruct` | slots and bases agree with the Brython class |
| buffers | shadow copies, export counts, `$itemBufs`, `_listItemsCache` | `PyObject_GetBuffer`, `PyBuffer_Release`, `PyList_GET_ITEM`, `PyBytes_AsString` | a pointer C was lent stays valid and its writes arrive |
| writers | bytes, unicode and long writers | `_PyBytesWriter_*`, `PyUnicodeWriter_*`, `PyLongWriter_*` | growth keeps content; finish or discard exactly once |
| conversions | none | long/bytes, float packing, slices, argument parsing, codecs | agree with CPython's definition on every input |
| file systems, io, dbm | descriptors and positions, buffers, index and data files (`src/loader/`) | open, read, write, seek, flush, close | a read sees what was written; a crash leaves a readable database |
| two runtimes | proxies for objects of another heap | the foreign path of `wrap`, `owns` | an address is used only in the heap it belongs to |

`PROJECT.json` lists every component with its status.

**How they interact.**  Everything runs on one JavaScript thread, and still the
steps of different actors interleave: Python calls C (a trampoline or a slot
opens a scope), C calls the API, the API calls Python, and Python may call C
again, run `del`, or collect, before any of the outer frames go on.  Between
two jobs of the engine its garbage collector may take a wrapper and queue a
FinalizationRegistry callback, which runs whenever the engine likes.  A
reference passes from C to a wrapper when a call returns an instance, from C to
a container with the "stealing" functions, and an address passes from a freed
struct to the next one `malloc` puts there.

**What is hard here.**  Nested calls and callbacks that drop what an outer frame
still uses; counts whose owner is told apart by a flag on the wrapper; ids and
addresses used again while some table still names them; callbacks that come
late; errors pending while a destructor runs; counters that wrap or are reset
in the middle of a recursion.  The hazards in `PROJECT.json` give each at its
line, with the properties that watch it.

## Modules

| module | models | uses |
|---|---|---|
| `Handles` | the handle table, scopes and counts for ordinary Brython objects | |
| `HandleContract` | what the table promises: a handle means one object for as long as anything holds it | |
| `MCHandles` | a small instance of `Handles` | `Handles` |
| `HandlesProofs` | the invariant of `Handles` and its theorems | `Handles`, TLAPS |
| `Instances` | one C type's instances: struct, wrapper, count, and every path that frees | |
| `MCInstances` | a small instance of `Instances` | `Instances` |
| `InstancesProofs` | the two invariants of `Instances` and its theorems | `Instances`, TLAPS |
| `Calls` | the stack of C and Python frames, the pending error, the recursion guard | |
| `MCCalls` | a small instance of `Calls` | `Calls` |
| `CallsProofs` | the invariant of `Calls` and its theorems | `Calls`, TLAPS |
| `Collector` | `del`, gc.collect() and `$wasthon_reclaim` over an object graph, with the finalizers that run in between | |
| `MCCollector` | small heaps for `Collector` | `Collector` |
| `CollectorProofs` | the invariant of `Collector` and its theorems | `Collector`, TLAPS |
| `FileContract` | what files promise: names, bytes, one position per descriptor | |
| `MemFs` | the in-memory file system | |
| `IoWrite` | FileIO and TextIOWrapper over it, as a refinement of the contract | `MemFs`, `FileContract` |
| `MCIoWrite` | two names, two descriptors, two text wrappers or one and another object | `IoWrite` |
| `IoWriteProofs` | the invariant of `IoWrite`, its type theorem, and its refinement of the contract | `IoWrite`, TLAPS |
| `Dbm` | dbm.dumb: data file, index, backup, and the objects open on them | |
| `MCDbm` | two objects, two keys | `Dbm` |
| `DbmProofs` | the invariant of `Dbm` and its theorems | `Dbm`, TLAPS |
| `Buffers` | the copies of Python's bytes in linear memory, their owners, and when they are folded back | |
| `MCBuffers` | one object of each kind, two views | `Buffers` |
| `BuffersProofs` | the invariant of `Buffers` and its theorems | `Buffers`, TLAPS |
| `Arguments` | the two loops that bind a call's arguments to parameters | |
| `Slices`, `Numbers` | slices and ints as C gets them: operators, and Python's definitions | |
| `Conversions` | the three together: a call is bound or a value converted | `Arguments`, `Slices`, `Numbers` |
| `MCConversions` | bounded inputs | `Conversions` |
| `ConversionsProofs` | the loops' invariant, both ways of reading a slice, ints and their bytes, and the theorems | `Conversions`, TLAPS |

### Handles

The state is the code's: `handles`, `sentinelByObj`, `nextHandleId`, `freeList`,
`scopes`, `scopeOf`, `refcounts`, with a scope array as the set of its ids and
the free list as a multiset (which recycled id is used is left open).  Ghost
variables record what the C-API's contract says and the code does not store:
the argument handle of each call (`args`), the references C owns (`owned`), the
handles that are meant to last (`immortal`, `pinned`).

`Enter` is `scoped` with the wrap of the arguments; `Borrow`, `NewRef`,
`PyIncref`, `PyDecref`, `WrapPinned` are API calls in the running frame (or, with
no frame, module initialisation); `ReturnResult` and `ReturnNull` end a call
with `unwrapResult` or an error and close its scope; `BindType` is
`ensureTypeStruct`, which binds an address `malloc` returned in the same table.

C keeps its contract: it drops only references it owns and counts only handles
it may use.  Left out: `$pin_on_zero`, `noFree` and `noScopeFree` (harness
switches), the interned pool for strings, and `wrap`'s special cases (classes,
slices, foreign objects, structs).

| run | bounds | shows |
|---|---|---|
| `handles` | 1 object, 1 string, 1 type struct, 3 ids, 2 nested calls, 2 references | the type invariant, counts exact, no leak, recycled ids dead, one handle for one object, scopes protect what they own, held handles keep their meaning; `Handles` implements `HandleContract` |

Two nested calls are enough for every interaction of an inner scope with an
outer one, since a scope only ever looks at the stack's top and at "some scope
or none"; three ids make the free list and the counter both run dry.  The
proofs remove the bounds.

### Instances

An instance is a number in the order of allocation, so that an address
(`Ptrs`) can be used again by another instance: `struct[p]` says whose struct is
at `p`, `handles[p]` whose wrapper is bound there.  `wrapper[g]` is what the
JavaScript side can do with the wrapper: `held` by Python, `dropped`,
`released` (retyped by the bridge) or `collected` by the engine.  `crossed` is
`$wasthon_py`, `born`, `demoted`, `watched`, `registered` and `callbacks` are the
unbinding machinery, `strays` what a decref handed to a scope.  Ghosts: `cref`,
the references C owns; `wref`, the ones held for Python; `deallocs`.

Actions of C: `New`, `PyIncref`, `PyDecref`, `Use` (any unwrap), `StoreItem` (a
container takes its own reference), `StealItem` (it takes C's), `CallPython`
(an argument, pinned only when the type is callable), `ReturnResult`,
`ReturnOther`.  Actions of Python: `CallMethod` (the dispatcher's fast path reads
the address and binds nothing), `CallWith` (`wrap` binds again), `Drop`, `Del`,
`GcFinalize` (gc.collect() closing an object its bounded scan did not find,
which proves nothing), `Reclaim` (`$wasthon_reclaim`, only with no call
running).  The engine: `Collect`, `Callback`.

Assumed: the marks are exact, so `Reclaim` takes what Python does not reach
(the collector's own walk is the subject of `Collector`); structs
have no fields, so no death cascades; C keeps its contract and does not touch a
struct it holds no reference to.  Left out: `$pin_on_zero`, weak-reference
cells, objects of `$wasthon_new_instance`, a second runtime.

| run | bounds | shows |
|---|---|---|
| `instances` | 2 instances, 2 addresses, 2 nested calls, 2 references, 1 store; callable type; registry off; under `FairSpec` | counts are the owners' references; nothing C owns or Python holds is freed; one destructor run each; a reused address inherits no binding; everything Python drops is freed in the end |
| `instances_registry` | 3 instances, 2 addresses, `reclaimResults` on | tables well typed; a late callback never frees the struct that reuses its address |

Two instances are enough for one to reuse the other's address while the other
is still named somewhere; three let a callback of the first arrive when the
second came and went.  `CHECK_DEADLOCK FALSE`: allocations are bounded by
`MaxGen`, so a run may end with nothing left to do.

`DeallocOnce` and `BindingMatchesStruct` are checked with the registry off.  With
it on, `del` of an instance that `_demotePass` has unbound runs no destructor:
`decref` finds no object at the address and takes it for a sentinel (220), and
the address stays in a scope, where what `malloc` puts there next inherits it.

**Fairness.**  `FairSpec` asks that a C call returns, as every C function does,
and that the host's collections happen: the test drivers call
`$wasthon_reclaim` between tests, at moments when no call runs.  Both are strong
fairness.  A call at depth 1 can only return while no call is nested in it, and
nested ones may come and go for ever, so `ReturnsFrom(d)` is asked of each depth
by itself; the moments when `Reclaim` is possible come and go in the same way.
Nothing is assumed of Python, of `del`, or of the engine's own collector.

### Calls

`frames` is the thread's stack: trampolines and slots (`call`), destructors run
by a decref or a `del` (`dealloc`), by gc.collect() (`finalize`) and by the
registry (`reclaim`), the loader's module initialisation (`init`), and Python
code, which C called (`python`) or which is a weak reference's callback
(`callback`).  `pending` is `pendingException`, `depth` is `_cRecursionDepth`.  A
frame's `found`, `due` and `entered` are ghosts: the error that was set when it
started, the one that is set by the C-API's rules, and its open
`Py_EnterRecursiveCall`s.  `saved` is what C keeps between Fetch and Restore.

`Call` clears the error it finds (19006), `Return` of a trampoline throws the
pending one and clears it, `Unwind` is a throw out of an API function through
the wasm frame: no Leave, no Restore, and what `pendingException` held stays.
`Leave` is `popScope`, which resets the guard when no scope is left; an init has
no scope.  `forwardError` is `PythonRaises`.

Assumed of C: with an error set it calls only what may then be called, a
destructor leaves the error it found, every Enter has its Leave before a normal
return.  Three constants admit what the code allows and the rest of the run
assumes away:

- `WeakReenters`: a weak reference's callback calls into the bridge, and clears
  an error a C function below it is to report (see "Seen on the way").
- `DestructorsThrow`: an API function throws through a destructor that was
  started with an error set; what it had fetched is lost with its frame, since
  `decref` swallows the throw (251).
- `InitRecurses`: a module's init enters the guard.  It has no scope, so the
  first destructor under it resets the guard to zero in the middle of the
  recursion (414), and C then recurses past the limit.

| run | bounds | shows |
|---|---|---|
| `calls` | 4 frames, guard of 1, one error and the guard's own; the three switches FALSE | each C function finds its own error and no other; Python never runs with an error set; the recursion over all frames keeps its limit; the guard is at zero between calls, whatever unwound |

Four frames are a C function, a destructor in it, Python in that, and a C
function again: the longest chain in which a link of the argument below is used
twice.  A guard of one is overrun or drifts as any other.

### Collector

Brython counts nothing, so the bridge asks the object graph who is dead.  `near`
are the names of the live frames, `far` the containers of the modules, `cheld`
what C counts, `holds` the attributes, `Owns` what a struct's `tp_traverse`
reports.  `Reach` is what a walk from some roots finds: the quick walk starts from
`Names`, the mark from `Roots`, the collection between tests from `CRoots`.
`pendingDel`, `pendingWeak`, `wait` and `skip` (the backoff) are the code's.

`jobs` is the stack of what is under way, because finalizers and callbacks are
Python and may bind, delete and collect in the middle of a settle:

- `DelFinalizable`, `DelPlain` are Brython's `del` hook, which calls
  `$wasthon_should_finalize` and `$wasthon_after_unbind`;
- `Collect`, `SweepOne`, `Drain` are gc.collect();
- `Settle`, then `Finalize`, `Finalized`, `MarkAgain`, `Clear`, `Release`, `Freed` are
  `_settle`: the candidates, the mark, each `__del__`, the second mark, and for
  each of the dead its weak references and its struct;
- `Reclaim`, `Clear`, `Release`, `NextRound` are `$wasthon_reclaim`, in rounds and
  passes until no root goes.

Everything else is Python at work (`Bind`, `Rebind`, `Keep`, `SetAttr`, `WeakRef`)
or C (`CHold`, `CDrop`).  Running code binds what it can reach, or get from a weak
reference that is still set.

Assumed: a walk finishes (the code reads one it cuts as "all alive"); the quick
walk sees all that the frames' names reach, and nothing of the modules; a type
has a destructor; `$wasthon_reclaim` needs at most its 10 passes; the structs
that gc.collect() closes are `Instances`' business.  Two constants admit what the
code allows and most runs assume away: `CallbacksRun`, a weak reference's
callback does something (it then can take a second dead object from that one's
weak reference, and nothing marks again before it is freed), and
`FinalizersRaise`, finding `collector_raises`.

gc.collect() clears weak references by a bounded scan that skips the modules and
reads no struct (`Scanned`), so it may clear those of a living instance;
`ClearedIsGarbage` is about the settles and the collection between tests.

| run | bounds | shows |
|---|---|---|
| `collector` | a Python object with a `__del__`, a view and the base its struct owns; self-cycles and an attribute; one object modules or C may keep; 2 settles in each other's finalizers; backoff up to 2 | nothing reachable is freed or loses its weak references, whatever finalizers bind; between tests neither does what C holds or what waits for its `__del__`; and the collection leaves no garbage |
| `collector_settles` | one object and one instance, under `FairSpec` | what a `del` parked is settled, past cycles and backoff, once nothing holds it |
| `collector_raises` | `FinalizersRaise` | finding, below |

One view and its base are the shortest chain that needs a second pass; a
finalizer in a settle in a finalizer is the shortest in which a settle goes on
with candidates another settle has handled; a backoff of 2 has a first wait and a
doubled one.

`FairSpec` asks that finalizers and callbacks return and that what is under way
goes on, at each depth by itself, and that the program calls gc.collect() again
and again while nothing else is under way: a parked cycle is settled by nothing
else.

### Files

`nodes`, `inode` and `fds` are the file system's: a name leads to a node, whose
bytes sit in an array longer than the file (`data`, `size`), and a descriptor
has a node and a position.  A node without a name lives on for its
descriptors.  The calls are `sys.open`, `close`, `read`, `write`, `lseek`,
`ftruncate`, and `posix.unlink`, `rmdir`, `mkdir`, `rename`; a call that raises
changes nothing and is no step.  `raws` and `texts` are the FileIO and
TextIOWrapper objects.  A wrapper decodes all that is left of its file at the
first read (`EnsureText`) and hands out parts of that text, so the descriptor is at
the end of the file while the program is somewhere before it: `start` and `pos`
are what the code computes the true position from, in bytes, for characters of
one byte or of two.  Decoding, encoding and translating are written by the places
of the characters in the bytes (`Nth`, `Picked`) and not by going through a
sequence, so that proofs can speak of them; `ByPlaces` of `MCIoWrite` compares them
with filtering and joining on all texts of up to four characters.

`FileContract` knows no arrays, capacities or read-ahead: names, byte strings, and
a position for each descriptor.  The mapping (`Contract`) takes a node's bytes
within its size, and for a descriptor that a wrapper has read ahead the place of
what was handed out.  `got`, what a step read, is mapped as it is, so a wrong byte
read is a step the contract does not have.

A wrapper's `truncate` is its raw object's (513-516) and looks at nothing the wrapper
has read: without a size it cuts where the descriptor has read to, not at `tell()`,
and with one the wrapper keeps the text of what was cut.  `TextTruncate` does just
that.  What another object does to the file is no different: a wrapper shows the file
as it was at its first read, until a write or a seek drops the text (410).  So there are
two promises.  `ImplementsFiles` is the whole contract, and needs `ChangesUnread` FALSE: no
file changes, through the wrapper itself or otherwise, where a wrapper has read it ahead
and has text left to hand out (`MayChange`).  With it TRUE a wrapper hands out bytes that
its file no longer has, and TLC refutes `ImplementsFiles`.  (The contract takes a cut at
any length, so one without a size at the read-ahead position is in it.)
`ImplementsWrites` is the contract without what is read, and holds also with
`ChangesUnread` TRUE and newlines translated: a text that is stale or shorter than its bytes never
makes a write go elsewhere than to `tell()`, or change a byte that was not written or cut off.

Assumed of the program, besides: a descriptor that was read ahead is used only through
that wrapper (two wrappers on a descriptor take turns), and a wrapper's raw object is not
closed under it.  A position may be before the start: `lseek` takes any, and writes there raise.
Reads there, which count from the end of the node's array, and truncates there, which
make a negative size, are assumed away.  `SeeksPastEnd` FALSE:
no write starts beyond the end of its file.  With it TRUE, a file that was cut by a truncate and is
then written beyond its end shows the bytes that were cut off (`sys.write`, 134,
fills no gap; `sys.ftruncate`, 151, does), and the contract is not implemented.
Faithful and not in the contract: nothing checks that a descriptor was opened for
writing, and mkdir, rename and rmdir look neither at parents nor at what a
directory contains.  Left out: `readinto`, a text seek relative to the current
position, the reads of files that only Brython knows (XHR), stat and listdir,
the Node file system.

| run | bounds | shows |
|---|---|---|
| `files` | 2 names in one directory, 2 descriptors, 2 FileIO objects, 2 wrappers (two only while the file keeps its name and positions are in it); one file of 3 bytes and a wrapper, or two files or two objects and 2 bytes; positions from -1; modes r+ w+ a+, a character of two bytes and a line feed; `ChangesUnread` FALSE | `IoWrite` implements `FileContract`: each read gives the bytes at the position, each write goes there and nowhere else, whatever was reserved, cut, read ahead or renamed |

Two descriptors change a file under each other, and two files are enough for a name
that leads to another file than the descriptor opened under it; three bytes hold a
two-byte character before or after a line feed, or cut in its middle.
`MinCap` 1 makes an array grow, and keep bytes beyond its file, at these lengths.
`VIEW` forgets what the last step read, which no later step uses (each step that is
explored is still compared with the contract), and files that nothing leads to.
`CHECK_DEADLOCK FALSE`: nodes, descriptors and objects are bounded.
Translated newlines are in the definitions and not in the run: after a CR LF was read as one LF, the
position counted in the text is one byte short (`TellIsTrue` states what then fails), so what is
read next is not what the contract has at that position.  `ImplementsWrites`, which that
and `ChangesUnread` leave standing, is proved (`RefinesWrites`) and needs no run.

### Dbm

`dat`, `dir` and `bak` are the files, `index[h]`, `modified`, `readonly` the fields of
an object.  Several objects may be open on one name, and one may be dropped without
`close()`, which commits nothing: Brython runs no `__del__` then.  `Open`, `Sync`,
`Close`, `Drop`, `SetItem`, `DelItem` are the operations; those that raise half-way are
disjuncts of their own: a commit after the rename, or with part of the index
written (`Torn`), a store that has written its value and not its key (`AddFails`),
a deletion of a key that is missing, which has marked the object as modified
(`DelMissing`).  A commit is written as the code does it: backup dropped, index
renamed, new index written line by line.

Ghosts say what the program may expect.  `view` is what the newest object was told;
`raced` is set once an older object writes, after which it expects nothing; `saved` and
`touched` are the values at the last commit and the keys stored since.

| run | bounds | shows |
|---|---|---|
| `dbm` | 2 objects, 2 keys, values of one block and of two, 7 bytes of data, one raising commit in a row, mode c and n | no two keys ever share a block, in whatever index they are found; the newest object reads what was stored last; a committed key has its value in the index file or in the backup |

Two objects are enough for an index that is out of date, two keys for a shared
block, two sizes for a value that moves, stays or shrinks.  `MaxTorn` 1: the commit
after one that raised drops the backup, and with it what was committed; the code
never reads the backup.  In a page `posix.chmod` does not exist, and the
`_chmod` of a commit raises there: the file is written by then.

### Buffers

An object's bytes are in a JavaScript array (`source`), or for an array.array in
linear memory (`item`).  What C sees is one of: the `char*` of a bytes (`cstr`, filled by C when
`cstrSize` is set), the buffer an object keeps for its views (`bufOf`), a private copy, or
the array's own memory (`borrowed`).  `heap` is what `malloc` gave out, `owned` what a
release must leave alone, `views` the Py_buffers by address.  The operations are
`PyBytes_FromStringAndSize`, `PyBytes_AsString`, `_PyBytes_Resize`, handing a bytes out
(`Give`, where `syncBytes` folds it), `PyObject_GetBuffer`, `PyArg_Parse("w*")`,
`PyBuffer_Release`, and the stores of C and of Python.  The ghost `truth` is what
CPython's object would hold.

Assumed of C and of Python (the module's header has it in full): a Py_buffer is filled
again only after its release, a bytes is written only before it is handed out, C writes
through a view while it is the only one of its object, and Python leaves an object
with views alone.  Each is needed, as the code stands: nothing counts the views of a
bytearray, so a resize frees what another view reads (16277), and a release copies back
what a view taken for reading saw (16359).  And a view's `obj` is the object itself in the
model, in the code a handle that nobody counts (`wasthon.c` 620): C is taken to keep it alive
while it holds the view.  In a view held beyond its call that handle may be dead, or be
another object's, when `PyBuffer_Release` unwraps it (16361).

| run | bounds | shows |
|---|---|---|
| `buffers` | a bytes, a bytearray, an array.array, 2 Py_buffers, 12 blocks, bytes of length 0 and 1 | a buffer has one owner and is freed once; a view shows what its object holds, through resizes, refreshes and second views; what was written by either side is what Python reads once it is folded |
| `buffers_empty` | the same, and the array may be empty | finding, below |

Two views tell a buffer that is shared from one that is not; length 0 and 1 make every
change of length.  The blocks are more than are ever in use, so `malloc` does not fail,
and `VIEW` forgets their names: nothing the code does depends on an address but the
sets the view keeps.

### Conversions

`Arguments` is `wasthon_unpack_keywords` and the walk of `PyArg_ParseTupleAndKeywords`, one
slot per step.  A parameter is a slot with the keyword of its number; a slot records how it was
filled (`position`, `name`, `absent`), which names the value as well.  `Slices` and
`Numbers` translate the functions of their title, at their width: `Wrapped` is `| 0`,
`SsizeMax`, `ByteBits` and `SizeofSsize` are parameters.  Each is compared with a definition of
Python's that shares nothing with the code: `Rightful` and the faults, `Selected`, and for
ints the existence of bytes that mean the number.  `AsWord` is an int on its way to C: the
signed and unsigned `PyLong_As*`, the masking one, those that set an overflow flag, the
argument converters, and `PyNumber_AsSsize_t` with and without an exception to raise.
Callers test for -1 and then for an error: `BytesExact` also asks for both.

| run | bounds | shows |
|---|---|---|
| `conversions` | 4 parameters (every parser: positional-only, required, keyword-only, `*args`), 5 positions, any keywords, one unknown; slices of 0, 1 and 4 items with bounds from -10 to 9 and a Py_ssize_t of 4 bits; ints from -70 to 70, bytes of 2 bits, buffers of 0 to 4 of them | a call is bound as Python binds it, or refused for a fault it has; a C loop visits the slice's items, all of them and no other; an int is written when it fits and reads back the same, and PyLong_AsNativeBytes says when it does not; a C int is the Python int, or C can tell that it is not |

The widths scale: the code compares with powers of two and nothing else, and two-bit
bytes reach on both sides of each of them.  `CHECK_DEADLOCK FALSE`: a conversion ends.
Seen and excepted by the properties: `PySlice_Unpack` wraps a bound beyond a Py_ssize_t
(13595), CPython clamps it; a function with a format string that is given an argument
both ways takes the position and reports nothing (11938).  Excluded: '#' codes, each of
which the count of slots takes for one more (11811), so that a surplus
position is let through; `_PyLong_AsByteArray` with no bytes; step values beyond a
Py_ssize_t.  Not modelled: what a code does with its value ('i', 'l', 'h', 'b' cut it
silently, 12218), which objects count as ints (`coerceInt`, `__index__`), floats, codecs.

## Findings

Each has a run whose one property quotes the repository and which TLC refutes.

| run | what the source says | what the code does |
|---|---|---|
| `buffers_empty` | "For writable buffers acquired via PyArg_Parse('w*'), copies linear-mem bytes back into the source" (16328) | a 'w*' view of an empty array lends NULL and notes its own address (4633); PyBuffer_Release returns early for NULL (`wasthon.c`:668), and the next 'w*' view at that address is taken for a lent one: nothing is copied back |
| `collector_raises` | "Nothing is FREED unless the mark proves it unreachable" (931) | a `__del__` that raises does not count as run (1306): no second mark, and what it has just stored away is freed |

Seen on the way.  The models follow the code in each; the properties in brackets
are definitions of the modules that state what fails, and a configuration with the
property and the constants named refutes it.

- Ids "never alias real WASM pointers because the C heap doesn't return such low
  addresses" (43); the counter passes 0xFFFF, `_allocSentinelId` skips ids that are
  bound, `ensureTypeStruct` does not look (`PointersDoNotAlias` of `Handles`, `MCHandles`
  with a heap address the counter reaches).
- "A borrowed argument therefore lives exactly as long as the C call"
  (`src/README.md`:105); one owned by a count when the call started dies in a nested
  call that drops the count, since `decref` hands it to the innermost scope, 225-228
  (`BorrowedArgLives` of `Handles`).
- A handle pinned while C counts it dies with its count (574).
- "An instance Python has held keeps, through its wrapper, the reference C gave it"
  (`src/README.md`:124); only callable arguments get one (`pinCallableArg`, 3000), and C's
  decref frees the struct under the wrapper (`HeldAlive` of `Instances` with `Callable`
  FALSE).
- `del` takes any count of 1 for the wrapper's, also when it is C's (371); a pointer
  counted by a method called on an unbound instance outlives its wrapper (2019).
- "the trampoline re-throws it as a real Brython exception when the C call returns
  `NULL`" (`src/README.md`:222); a weak reference's callback runs inside the destructor,
  with the error set (2131), and the first C function it calls clears it, 19006
  (`ErrorIsDue` of `Calls` with `WeakReenters`).
- A parked object is "held strongly, as CPython's refcount would" (950); the mark of
  `_settle` neither starts from `pendingDel` nor walks it (999, 1294), so an instance that a
  parked object holds is freed before that object's `__del__` runs
  (`ParkedKeepsWhatItHolds` of `Collector`).
- gc.collect() leaves what is in its backoff for a later call (1278).
- A wrapper that has read ahead goes on handing out what its `truncate`, or another object,
  has taken off the file (`wasthon-io-write.js` 513, 410; `ImplementsFiles` with
  `ChangesUnread`); `truncate()` cuts at the end of what was read ahead.
- Bytes that C wrote and handed out as an attribute or as an argument of
  `PyObject_CallOneArg` are folded by nobody; `_PyBytes_Resize` leaves the old buffer
  allocated; a writable view that is refused leaves its private copy.

## Proofs

`HandlesProofs` proves, for any objects, ids, nesting and reference bounds, that
`Handles` keeps its invariant and what follows from it: `TypeCorrect`,
`Identity`, `CountsAreExact`, `NothingLeaks`, `RecycledIdsAreDead`,
`ScopesProtect`, `OwnedHandlesLast` (an action property) and `Refinement`
(`Handles` implements `HandleContract`).

They assume `HandlesAssumption` (the constants have their types) and
`HeapAboveIds`: no struct address is one the id counter reaches.  The second is
exactly what is false of a long-running page ("Seen on the way");
what the table promises, it promises up to there.

None of the properties is inductive alone.  The invariant `Inv` joins typing,
the identity of handles, and `Local(h)` for each handle, which says in which
states a handle can be: free and named by nothing; owned by exactly one scope
that lists it; counted by exactly what C owns; or immortal.  That a scope's
array may list an id it no longer owns, which `popScope` skips by comparing
`scopeOf`, is the reason `ScopeProtects` and `NoLeak` need each other.  Every
action touches one handle, except `PopScope`, so the preservation proof is one
lemma per operation on `Local` and one on the scopes.

`InstancesProofs` proves, for any number of addresses, instances, references and
nested calls, from `InstancesAssumption` (the bounds are numbers, and C may own at
least one reference), two inductive invariants.  `Inv` needs nothing of the switches:
an address is bound to the instance that is there or watches it, never both, and the
registry knows no struct that is gone; `TypeCorrect`, `Bindings` and
`CallbacksFreeTheirOwn` (an action property) follow, so a late callback is harmless also
where `resultReg` is on.  `Strong` needs `ReclaimResults` FALSE, as the bridge is
shipped: every struct is bound, what was handed to Python is counted for it, and an
instance that gc.collect() closed has no count that could free it again
(`Closed`).  It gives `CountsAreExact` and `DestroyedOnce`, and for a callable type
`CReferencesAreAlive` and `HeldWrappersAreAlive`.  The hypotheses are needed, and TLC has
a counterexample without each: with the registry on a struct is destroyed a second time or under
C's reference, and of a type that is not callable a wrapper which was passed to Python owns
nothing ("Seen on the way").  Of `CountIsOwners` with the registry on nothing is claimed:
a count that a scope was handed has no owner the C-API knows.

`CallsProofs` proves `TypeCorrect` of `Calls` for any errors, nesting and limit and
either setting of the switches; `ErrorsArrive` and `PythonStaysClean` with `WeakReenters`
and `DestructorsThrow` FALSE; `GuardRecovers` and `StackStaysBounded` with `InitRecurses`
FALSE.  That a C function finds its own error says nothing of the frames below it, so
the invariant adds `Linked`: each frame found the error that the frame below
expects to find again, Python frames sit on C frames, and the destructors of
gc.collect() and of the registry start only where no error is due.  A step
pushes a frame, changes the top one or pops it, and there is one lemma for
each.  `GuardRecovers` rests on `AtRest`: outside every scope the guard is at
zero.  `StackBounded` is about all the frames together.  It is written with a running total
over the stack, so that a step which pushes, changes or pops the top frame changes the last
total alone, and the proof needs no induction over the stack: the guard's count is never behind the
total, and ahead of it after an unwind.

`CollectorProofs` proves `TypeCorrect` of `Collector` for any object graph,
nesting and backoff, and, with `CallbacksRun` and `FinalizersRaise` FALSE,
`FreedAreGarbage` and `ClearedAreGarbage`: whatever a finalizer binds, keeps, drops
or deletes in the middle of a settle, only what nothing reaches is freed or loses
its weak references.  Both switches are needed: `collector_raises` refutes the
first theorem's property with the second one TRUE, and a callback that takes
another dead object from its own weak reference does so with the first.  The
invariant (`Safe`) speaks of the innermost job alone: whom it frees, or may free
without marking again, is out of reach of the roots, and for the collection
between tests also of what C counts and what waits for its `__del__`.  The jobs
below it may name what has come alive since, and need not be safe: by the nesting
(`Nested`), they have a finalizer above them, and mark again when it returns.

`ReclaimIsComplete` is the other half: the collection between tests, when it ends, leaves
no garbage.  It asks that `CallbacksRun` is FALSE and lets a `__del__` raise.  The invariant
(`Gathered`) is of the one job there is: what it has chosen only its wrapper owns, what it
put off something else owned when it looked, and, unless a root went, which makes it mark
again, the garbage there is lies among what it has still to look at.  A pass that frees
nothing has therefore looked at everything: that is the reason the code may stop at
the first such pass (`FreeOne`).  A callback that drops a name in the middle of the frees makes
garbage nobody looks at in that round, and TLC finds it on a heap of two instances.

`ConversionsProofs` proves `Binding` of `Arguments`, and `CallsBind`, the same for the calls of
`Conversions`, for any number of parameters, any parser over them and any call, from
`ArgumentsAssumption` (constants of their types, unknown keywords that are no numbers).  The loop's invariant (`ClinicLoop`) says that
each slot below the loop's is filled as Python fills it, each required one of them is
covered, and `remaining` is the number of keywords that no scanned slot took:
that number is why the loop may stop early, and why what is left at its end
is an argument given twice or an unknown name.  That a call with more
arguments than parameters is at fault (`CountFault`) is a pigeonhole: the names below
the copied positions are given twice, and those above fit with the positions
unless one of them is unknown.

It also proves `SlicesAgree` of `Conversions`: for any `SsizeMax`, any length up
to it, any step and any bounds, `PySlice_Unpack` with `PySlice_AdjustIndices`, and
`PySlice_GetIndicesEx` by way of Brython's `slice.indices`, give C the places Python's
slice selects and as many as there are; the first for bounds that fit a Py_ssize_t,
since it wraps the others.  `ConversionsAssumption` says what the calls are (a
length in `0..SsizeMax`, a step in a Py_ssize_t; ints, and sizes that are not negative).  The two ways share no code and round in
opposite directions; the proof brings both to the same `Places`, and shows that these are
the multiples of the stride within a distance.  The division lemmas (`Euclid`, `Divided`, `Multiples`,
`CeilingCounts`) are about numbers alone, which is as far as the solver goes with `\div`.

`IntsAreExact` and `SizesAreHonest` are about ints, for any width of a byte and of a Py_ssize_t
(`NumbersAssumption`: at least two bits, at least one byte), any int and any number of bytes.
Powers of two and the number that bytes come to are recursive functions (`Pow`, `Magnitudes`):
`PowIs` and `MagnitudesAre` show that such functions exist, and what is true of them at
every number follows from the least number at which it is not (`LeastOf`, `Induction`, about a
set instead of a formula).  The bytes of a number are its only digits (`DigitsMean`, `DigitsOnly`), the
top bit of the first one tells the half it is in (`TopBit`), and so writing and reading undo each other.  The size of
an int is the least that holds it (`Sizes`): for a compact int because n is compared with it, for a
large one because its bits, and one for the sign, end within `res` bytes.

`DbmProofs` proves `Regions`, `TypeCorrect`, `ReadsWhatWasStored` and `CommitsSurvive` of `Dbm`
for any objects, keys, values, block size and bounds, from `DbmAssumption` (the values are
sequences of bytes; None is no object, no file and no index).  No index is assumed to be
up to date: the
invariant speaks of all of them, in memory, on disk and in the backup.  A step makes
entries in two ways only: at the end of the data file, where no index has anything
(`NewEntry`, `StayApart`), or within the blocks of the entry it replaces
(`Part`, `KeptIndex`).  What makes the first way safe is that the blocks of every entry end
within the file's last block (`Good`), and that the file is never shorter while an index
names it.  The values follow: since no two keys share a block, a store changes the bytes under its
own key's entries and under no other (`Keeps`), in whatever index those are, so what the newest object
reads and what a commit left in the files are both carried from step to step
(`ValuesInv`).

`BuffersProofs` proves `TypeCorrect`, `BuffersAreOwned`, `ViewsAreTrue` and `SourcesAreTrue` of
`Buffers` for any objects, Py_buffers, blocks and lengths, from `BuffersAssumption` (the three kinds
of object are disjoint, None is nothing else) and `EmptyArrays` FALSE: with empty arrays
`SourcesAreTrue` is false, finding `buffers_empty`.  The invariant (`BInv`) gives every
allocated block one place that names it: a bytes' `cstr`, an object's kept buffer, an
array's items, or a view's private copy (`Apportioned`); freeing what one place names therefore
takes nothing from another, and a resize moves one.  Beside it stands, per kind of object, how far
Python's side and C's may differ: a bytes until it is handed out, a bytearray while a view that was
written is out, an array never.

`IoWriteProofs` proves `TypeCorrect`, `Refines` and `RefinesWrites` of `IoWrite`, for any names, bytes,
texts, modes, offsets and bounds, from `MemFsAssumption` and `IoAssumption` (the bytes of a
two-byte character differ from each other, from CR and from LF, and a text to write has no second
byte as a character).  `Refines` is the refinement that `files` checks: `IoWrite` over `MemFs`
implements `FileContract`.  It asks for what the contract needs: `SeeksPastEnd` FALSE, since a write beyond
the end shows cut bytes; no wrapper with universal newlines (`NoNewline` is no member of
`Newlines`), since positions are then counted in a shorter text; and `ChangesUnread` FALSE, since
a wrapper that is left with text its file no longer has, by its own `truncate` for one, hands it out.
`RefinesWrites` asks only for the first: where newlines are translated, and files change under
what was read ahead, they still change only where the contract has it (`ImplementsWrites`).
Its reads are seeks of the contract, and the one thing to show is that a position counted in
a text is in reach of the file that was read: translation makes a text no longer
(`TranslatedIsShorter`).  `TypeCorrect` asks for nothing.  The invariant (`IoInv`) says what lies
between an array and a file, and between a text and a position: a node's size is within its array
(`Files`); no two wrappers that have read ahead share a descriptor (`Table`); and a wrapper that
read ahead has its descriptor at the end of what it read and, unless `ChangesUnread` or its text is
all handed out, holds every byte its file has from where it started to there (`Caches`, `Held`).  The
position the code computes is then a place in the file: the characters handed out are the bytes up
to it, and a write that goes back there drops the text it is about to make untrue.  Each operation has a lemma for the invariant and one for the
contract's operation it is; an `open` that makes, cuts and wraps a file is one step of
the contract, and so is a `write` that first seeks.

Every invariant and every action property that a passing run checks is stated by a theorem,
under the switches that the run sets or weaker ones.  Only model-checked are `Reclaimed` and
`PendingSettles`, which are liveness and out of this prover's reach, and `ByPlaces`, which
compares two ways to write the same conversion.  What the two runs that
expect a violation show is a behaviour, and needs no proof.

## Plan

1. `Handles`, `HandleContract`, `HandlesProofs` - done.
2. `Instances`, `InstancesProofs` - done.
3. `Calls`, `CallsProofs` - done.
4. `Collector`, `CollectorProofs` - done.
5. `Buffers`, `BuffersProofs` - done for bytes, bytearrays and arrays; item buffers of lists and
   `Writers` are left.
6. `Arguments`, `Slices`, `Numbers`, `Conversions`, `ConversionsProofs` - done; codecs and
   float packing are left.
7. `FileContract`, `MemFs`, `IoWrite`, `IoWriteProofs` and `Dbm`, `DbmProofs` - done.
8. Types (slot inheritance) and the two runtimes.

## Not modelled

Types and slot inheritance: tables filled once, whose content is what matters, from
hundreds of slots.  Writers, item buffers of lists, text codecs, module creation, two
runtimes in one page: left for the plan.  Capsules, context variables, thread-state
stubs, most of the object API: a field or one delegation to Brython each, with nothing
to go wrong between two steps.  `wasthon-fs.js`: a delegation to Emscripten's file
system.  Cython, pybind11 and datetime support: macros and build-time conversion.
Brython itself (`src/loader/brython/brython.js`) is third-party and nine tenths of the
JavaScript; its `del` hook and `slice.indices` are modelled where the bridge relies on
them.  `PROJECT.json` gives the status of each part.

## Running

    tlc -workers 2 -config MCHandles.cfg MCHandles
    tlc -workers 2 -config MCInstancesRegistry.cfg MCInstances
    tlc -workers 2 -config MCCalls.cfg MCCalls
    tlc -workers 2 -config MCCollector.cfg MCCollector
    tlc -workers 2 -config MCIoWrite.cfg MCIoWrite
    tlc -workers 2 -config MCDbm.cfg MCDbm
    tlc -workers 2 -config MCBuffers.cfg MCBuffers
    tlc -workers 2 -config MCConversions.cfg MCConversions
    tlapm HandlesProofs.tla
    tlapm CallsProofs.tla
    tlapm CollectorProofs.tla
    tlapm DbmProofs.tla
    tlapm InstancesProofs.tla
    tlapm BuffersProofs.tla
    tlapm ConversionsProofs.tla
    tlapm IoWriteProofs.tla
