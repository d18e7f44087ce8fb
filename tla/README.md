# NplBrowser: specifications and proofs

NplBrowser shows a Chromium browser inside ParaCraft. A plugin in the host
process starts one `cefclient` process per browser window and sends it
commands; `cefclient` is CEF's sample client, extended by the window class and
parent given on its command line, by `WM_COPYDATA` commands, and by a small
file in which each client tells the host that its browser exists.

This directory holds TLA+ models of the parts of that program that have
concurrency in them, the TLC runs that check them on small instances, and
TLAPS proofs of the safety properties that hold for instances of every size.
`PROJECT.json` lists runs, mutants, the lines behind every definition,
findings, hazards and theorems. Paths below are relative to `src/`; `B/` stands
for `cef_win64/tests/cefclient/browser/`. The 64 bit sources are the ones
modelled; `cef_win32/` is a copy of them.

## The system

| component | state | operations | interacts by |
|---|---|---|---|
| NplCefPlugin (`NplCefPlugin/src/NplCefBrowserImporter.cpp`) | `global_wnd_map` | `LibActivate`: Start, Quit, every other command | `ShellExecute`, `FindWindowEx`, `SendMessage(WM_COPYDATA)`, callback into NPL |
| CefClientConfig (`cef_win64/tests/cefclient/CefClientConfig.cpp`) | a JSON file, `mRoot` | `ReadJsonValue`, `WriteJsonValue`, `EraseJsonValue` | the file, shared by all clients of a host |
| Main message loop (`B/main_message_loop_multithreaded_win.cc`) | `queued_tasks_`, `message_hwnd_`, the Win32 queue | `PostTask`, `Quit`, `Run` | called from every thread |
| RootWindowManager (`B/root_window_manager.cc`) | `root_windows_`, `active_root_window_`, `active_browser_`, `temp_window_` | create a window or popup, created, activated, destroyed, exit, clean-up | closures to the main thread, `CefPostTask` to the UI thread |
| RootWindowWin (`B/root_window_win.cc`) | `hwnd_`, `browser_window_`, `window_destroyed_`, `browser_destroyed_` | `Init`, `InitAsPopup`, window messages, `Close`, the host's commands | window messages, delegate calls |
| BrowserWindow(Std) (`B/browser_window.cc`, `B/browser_window_std_win.cc`) | `browser_`, `is_closing_`, `client_handler_` | browser created, closing, closed | delegate calls on the main thread |
| ClientHandler (`B/client_handler.cc`) | `delegate_`, `browser_count_` | CEF's callbacks on the UI thread | `Notify*` closures to the main thread |
| Message router (`cef_win64/libcef_dll/wrapper/cef_message_router.cc`) | browser side: `handler_set_`, `browser_query_info_map_`; renderer side: `context_map_`, `browser_request_info_map_`; a `CallbackImpl` per query | `cefQuery`, `cefQueryCancel`, handlers, callbacks, cancellations | process messages, tasks to the UI thread, calls of `ClientHandler` |
| Resource manager (`.../wrapper/cef_resource_manager.cc`) | `providers_`, each entry's `pending_requests_`, a `RequestState` per request, `pending_handlers_` | add and remove providers, a request's walk along them | `OnBeforeResourceLoad`, `GetResourceHandler`, providers' answers as tasks on the IO thread |
| Stream resource handler (`.../wrapper/cef_stream_resource_handler.cc`) | `buffer_`, `read_on_file_thread_` | `ReadResponse`, `ReadOnFileThread`, `Cancel` | CEF on the IO thread, a task on the FILE thread, `callback->Continue()` |
| Response filter (`B/response_filter_test.cc`) | `find_match_offset_`, `replace_overflow_`, `replace_count_` | `Filter` | CEF, with the bytes a resource handler gave |
| CEF (external) | browsers, popups, its UI thread | | the contract of `cef_life_span_handler.h` |

`RunMain` forces the multi-threaded message loop, so a `cefclient` process has
two threads that matter: the main thread, which owns the native windows, and
CEF's UI thread, which calls the handlers. Almost everything that is hard
follows from that: each half of a window's life is on another thread, each
learns of the other's only through a queue, and everything a closure found true
when it was posted may have changed when it runs. Between processes there is
no synchronisation at all: clients and host share a file without a lock, and
the plugin remembers only that it started a client once.

What makes each part correct:

- *Main message loop*: every accepted task is run once, in order, on the main
  thread; nothing is left behind in the hand-over when `Run()` starts; `Quit()`
  lets earlier tasks run and does end the loop.
- *Windows*: a window is registered until both of its halves are destroyed and
  is unregistered once; callbacks find the objects they use; an agreed close
  is not asked for again; the temporary window outlives the popups parented to
  it; the active browser is the one of the active window; the program ends
  after the last window, and then really ends.
- *CefClientConfig*: a flag in the file means that a browser exists; a host
  that goes on asking does see it.
- *NplCefPlugin*: at most one client of an id that was not told to quit; a Quit
  that arrives ends the client.
- *Message router*: a query that a page waits for is somewhere, and ends; it has
  one handler and one outcome; an answer and a cancellation go to the query they
  are for, although each renderer process counts its IDs from one (which does not
  hold when two processes overlap, see below); a canceled query is not answered,
  and nobody keeps a query of a page that is gone.
- *Resource manager*: a request is offered to providers in their order, to none
  twice, whatever is added and removed meanwhile; what it keeps pointers to is
  there; it is continued in the end; a removed provider is deleted in the end.
- *Stream resource handler and response filter*: the page gets the bytes of the
  stream, each once and in order, with the `FindString`s replaced that the filter
  can find (the first byte after a part of one is not looked at again, and the end
  of a page may be lost, see below), whatever the sizes of buffers and chunks; the
  response ends.

The hazards in `PROJECT.json` are the places where this could go wrong. The
parts not modelled, and why, are listed there under "components" and below.

## Modules

| module | what it is |
|---|---|
| `TaskQueue` | abstract: what `MainMessageLoop` promises its callers |
| `ClientProgram` | abstract: a client as its host sees it |
| `MainMessageLoop` | `MainMessageLoopMultithreadedWin`, implements `TaskQueue` |
| `RootWindows` | manager, root windows, browser windows, client handlers, CEF's UI thread; implements `ClientProgram` |
| `CefClientConfig` | clients of one host and the flag file |
| `NplCefPlugin` | the plugin and its clients, each a `ClientProgram` |
| `MessageRouter` | browser side and renderer side of the router, and the messages between them |
| `ResourceManager` | providers, requests, archives |
| `StreamResourceHandler` | the handler of a stream, on the IO and the FILE thread |
| `ResponseFilter` | `FindReplaceResponseFilter`, as functions of its members |
| `FilteredResponse` | composes the two: a response from the stream to the page |
| `MC...` | the modules TLC runs, with symmetry and constant definitions |
| `..._proofs` | theorems |

Mutants (`...Mutant` and similar names, each right before the definition it
breaks) are not part of the specifications; they show that each property would
notice a plausible mistake.

### MainMessageLoop

One action per critical section of the code or smaller. `PostTask` is three
steps: take the lock, test `message_hwnd_`, store the task where the test said.
`Run()` takes the lock, makes the window, moves tasks one by one, releases,
then loops. The Win32 queue delivers posted messages in order and reports
`WM_QUIT` only when it is empty; `DestroyWindow` discards what is left. The main
thread posts only while its own code runs: before `Run()`, inside a task, after
it. `accepted` and `executed` are history variables. `Quit()` is a `PostTask`
of a closure, hence the `quit` field of a task.

`ImplementsTaskQueue` is the refinement: `pending` is
`winQueue \o queuedTasks`, `done` is `executed`.

### RootWindows

A `Window` stands for one `RootWindowWin` with the `BrowserWindow`,
`ClientHandler` and `CefBrowser` made for it; popups and DevTools windows get
their own handler, so they are one to one. Boolean members are sets of windows.
`mainQ` is the Win32 queue of the main thread (closures through
`MainMessageLoop`, which the first model shows to be a FIFO queue, and posted
window messages, in the same queue), `uiQ` CEF's UI task queue.

- A `Notify...` called on the UI thread is the posting of a message; the message
  is handled by the action of that name on the main thread.
- `DestroyWindow` sends its messages synchronously, so `DestroyNativeWindow` is
  part of the action that calls it, with `NotifyDestroyedIfDone` and
  `OnRootWindowDestroyed` in it.
- Two UI thread handlers are not atomic with respect to the main thread:
  `OnOpenURLFromTab` posts two closures, and `OnBeforeContextMenu` tests
  `delegate_` before it uses it. `uiStep` holds what is left of them.
- `Referenced` says what keeps a `RootWindowWin` alive: its place in
  `root_windows_`, `active_root_window_`, and the closures that hold a
  `scoped_refptr`. A command's closure does not.
- A message to a native window that is gone is dropped by Windows; the guards
  `w \in hwnd` say so.

CEF is external. It makes a browser it was asked for (`OnAfterCreated`), unless
`CreateMayFail` and the native window is gone; it cancels a popup whose opener
is destroyed first; after `DoClose` returned FALSE it sends the close
notification; it calls `OnBeforeClose` when the parent window was destroyed, or
on its own account.

The model's close notification goes to the root window. For a popup whose
browser is still parented to the temporary window it would go there instead;
see the hazard at `B/temp_window_win.cc:23`.

### ClientProgram

What a host can tell of all this: each window is asked for, comes, is hidden when its
native window is destroyed, and is gone when its browser is closed too; the program
ends after the last one. `ImplementsClientProgram` maps `RootWindows` to it: a window
made without `hwnd_` is `"coming"` (a canceled popup stays so for ever, finding 1),
`hwnd_` makes it `"shown"`, one of the two destroyed flags `"hidden"`, both `"gone"`,
and `Run()` decides between `"running"` and `"dead"`. Which of the two threads does
it, the queues and the order of the callbacks are all hidden. `Progress` is what the
host may rely on to happen: a hidden window with a browser goes, and the program with
the last window. A window that was hidden before it had a browser may stay so.

### CefClientConfig

A process works off the steps of one call (`todo`): `WriteJsonValue` is read,
set, truncate, store. Steps of different processes interleave. Only the object
under the host's pid is modelled; `fileKeys` are the keys with a flag in it, and
`keyOf` the key each client is started with, chosen at the beginning so that one
run has clients of the same and of different keys. A file that was truncated
reads as an empty root because `ReadRoot` catches the exception and has cleared
`mRoot`. Of two overlapping stores the later one is read: it starts at offset 0,
and the parser stops at the end of the first value. `EraseJsonValue` reads the
root twice, and so does the model.

`disturbed` is a history variable: two clients overlapped, or one was killed.
Without a lock nothing can be said of the flags after that, except that they
come back (`FlagSeen`); the safety properties are about the time before.

### NplCefPlugin

`LibActivate` runs on the host's thread, one call at a time; `call` is the call
in progress, because clients run on between erasing the id, finding a window
and sending to it. A client is a `ClientProgram`, with the same actions: it has the
window `RunMain` makes and others its pages ask for, all with the same window class,
so that any that is shown may be the one `FindWindowEx` returns. Its queue is the one
thing added, and `HandleCustomTask`, which is a `Hide` or nothing. `dismissed` is a history variable:
the clients launched before the last Quit of their id. The callback into NPL
changes no state of the plugin and is not an action.

### MessageRouter

Three parties take steps: the renderer's main thread, the browser's UI thread,
and the threads of the handlers, which call a `Callback` from anywhere. The
renderer side's IDs (`key`) are counted from one in each renderer process; the
browser side's query ID is unique, and is the `Query` itself. Messages carry
keys: `ExecuteCallback` and `CancelPendingRequest` look their query up by key as
the code does, which is why an answer could go astray at all.

- `Callback::Success` on another thread is a task (`"callback"`), which on the UI
  thread looks at `router_` and posts a second one (`"router"`) to the router:
  both are in `posted`. On the UI thread the first is missing.
- `OnProcessMessageReceived` offers a query to a copy of the list of handlers. A
  handler's `OnQuery` is code of the program and may add and remove handlers, or
  cancel queries; so the offer is not one step: `asking` is the query and the
  handlers still to be asked. Everything else on the UI thread waits (`Idle`).
- `CancelQueries` is `CancelQuery` for a set: it notifies the renderer or does
  not, calls `OnQueryCanceled` (`told`) and detaches the callback.
- The browser has one renderer process after another: `current` shows its page,
  `alive` are those that run. `CommitInNewProcess` is the end of a navigation that
  `OnBeforeBrowse` began (`navigating`) and that leads to a new process. That one
  starts either after the browser process has worked off the termination of the
  old one, or, across origins, while the old one runs: "a new browser will be created
  before the old browser with the same identifier is destroyed"
  (`include/cef_render_process_handler.h:76-78`). In the second case the old page is
  in `left`. It goes on making, canceling and giving up queries, and each process has
  a queue of its own, so its messages arrive before or after those of the new page,
  in any order; they bear the same browser ID and IDs counted from one, like the new
  page's. An answer goes to the process that shows the page when it is sent. Each
  such change is to a new process; returning to one that still runs, which would go
  on counting, is not modelled.
- A process message to a renderer process that is gone is lost. When the process
  that shows the page dies, what it sent before still arrives, then the termination;
  the end of one that was left is not announced. Its contexts may be released before
  (`OnContextReleased`, with its messages) or not.
- `AddHandler` ignores whether the handler is to be the first: the container is
  a `std::set`, which has its own order. The model asks in any order. Should two
  queries fit a cancellation, which can be only across a change of process,
  `CancelPendingRequest` takes either.
- `OnQueryCanceled` is code of the program as well, but called in the middle of a
  walk over the map. The model lets it do nothing to the router: a cancellation
  with all its `OnQueryCanceled`s is one step.
- `ClientHandler::OnBeforeClose` removes each handler and drops the router; it
  does not call the router's own `OnBeforeClose`. The model has what the program
  does.

`left`, `silenced` (queries that a navigation canceled while their page was there)
and `told` are history variables. `Twins` of a query are those of a page on the
other side of a swap, in a context of the same ID: the properties that hold within a
process and across a death say with it where a swap breaks them.

### ResourceManager

`providers_` is a set with an order, `before`, that keeps the place of entries
that are gone (an iterator to one of them would be an error, which
`PositionsValid` excludes). `stage` says who has a request's `RequestState`: a
`Request` object in its entry's list (`"asked"`), or a posted task, to continue
with the next provider, with a handler, or to stop. Everything happens on the IO
thread; what makes it hard is that every decision is a task, before which other
tasks change the list, and that `OnRequest` is code of the program, which may
answer at once, or add and remove providers, and return either value afterwards.
So `asking` is the request in a provider's `OnRequest`. The walk over providers
that decline (`SendRequest`'s loop) is a step per provider.

`DeleteProviders` is the loop of `RemoveProviders` and `RemoveAllProviders`: it
stops at an entry that is pending deletion already, since `DeleteProvider`
returns without moving the iterator. `looping` says that the IO thread will never
leave that loop.

An `ArchiveProvider` queues requests while its file is loaded on the FILE thread
and continues those whose file it has; the others it forgets (`abandoned`). Of
other providers it is assumed that they answer what they took, as the header
demands. An `ArchiveProvider` declines a URL that is not under its own in any state
of its file; that URLs decide is left out, so the model lets it decline any request.

### FilteredResponse

`StreamResourceHandler` has the handler's state and the two threads: the IO
thread asks for some bytes (`ReadResponse`), takes them from `buffer_`, or posts
`ReadOnFileThread`, which fills the buffer and calls CEF back. A stream that does
not block is read at once. `taken` is a history variable, all that CEF got.
`ResponseFilter` has no variables: `Filter(f, in, size)` returns the members
after a call, what was written and the status. `ExamineAll` is the loop over
`data_in`, a recursive function, and `Examine` its body.

`FilteredResponse` has CEF between the two, which is external. It calls the filter
as the comment of `CefResponseFilter::Filter` says (`include/cef_response_filter.h`):
with each chunk, and when there are no more, without input, as long as the last
call wrote something and asked for more.

A byte is a value. The bytes of a replacement carry its number and their position
in it, so a replacement written twice or in pieces of two would be seen; how a
number is printed is left out. `ReplacedSoFar` compares with `Replaced`, which is
defined on a whole page and knows nothing of chunks.

## Runs

Bounds are CONSTANTS named in the modules (`MaxPosts`, `MaxCloses`,
`MaxCommands`, `MaxQueries`, `MaxPersistent`, `MaxContexts`, `MaxProcesses`,
`MaxAnswers`, `MaxRead`, `MaxOut`, `MaxLength`, `ReplaceSize`, the sets of threads,
windows, processes, clients, handlers, requests and providers).

| run | instance | shows |
|---|---|---|
| loop | 2 threads and the main one, 2 posts each | no task lost, stranded or overtaken; Quit runs what was before it and ends `Run()`; refinement of `TaskQueue` |
| windows | 2 windows, 1 close, 1 command | all safety properties; refinement of `ClientProgram` |
| windows_end | 2 windows, 1 command | the loop does not run on without a native window; the host's Quit ends the window; `ClientProgram`'s `Progress` |
| config | 2 processes of one or two keys, killed at will | the flag means that the browser exists and stays, while clients do not overlap; a host that goes on asking sees it in any case |
| plugin | 1 id, 2 clients, each with up to 2 windows and 1 queued command | one client per id; a Quit that arrives ends the client |
| router | 2 queries (not persistent), 2 handlers, 1 context in each of 2 processes | where a query is, who may be offered it, and whose IDs it can have, after a death and across a swap |
| router_live | 1 query, persistent with 1 answer besides the last or not, 2 handlers, 1 context in each of 2 processes | its one outcome, the callback, no answer after a cancellation; it ends and leaves its handler |
| resources | 2 requests, 3 providers, one an archive, 2 identifiers | order, pointers, every request and every removal ends |
| response | pages of up to 6 bytes, reads of up to 3, output of up to 2 at a time, `FindString` of 3 bytes, replacements of 4 | the bytes of the stream arrive; the page is the stream with its `FindString`s replaced; the response ends |
| popup_canceled, raw_pointer, config_stale | smallest that show it | the findings |

Why the bounds are enough. The loop's hand-over needs one task queued before
`Run()`, one posted during it and one after, by different threads, and a Quit
among them. Two windows already give an opener and its popup, a window that goes
while another is being made, and one that is active while the other is not. One
`WM_CLOSE` is enough to race CEF's own and the host's command, since
pages, popups and parent windows close without counting. Two processes suffice
for a lost update and for a restart. Two clients of one id are what the plugin
must not make; ids share nothing but the call in progress, and the theorems are for
any number of them. Two queries can have the same IDs in two renderer processes, be
with the same handler or with two, and one can be answered while the other is
canceled; two processes are a death with its successor and a swap. The properties of
run router_live are about one query: what it has to do with another one is only that
the other may take its cancellation, which the exception for `Twins` is for, so run
router checks that part, with two queries. With two contexts the strengthening
`RouterInv` of the proofs was checked too (one handler, 1.5 million states).
Three providers, two of the
same order, let one be added before, at and behind a request's position, and one
be removed while a request is at it and another is on its way to it. A page of 6
bytes holds two `FindString`s, one with bytes around it, and parts of one at every
place; reads and output are smaller than both the `FindString` and the replacement,
and larger than one byte, so every match and every replacement can be cut.

Every run allows the system to stop, hence `CHECK_DEADLOCK FALSE`: programs end,
and pages and users need do nothing.

## Fairness

- `MainMessageLoop`: `WF(Run)`, the main thread is scheduled; a thread inside
  `PostTask` leaves it. Nobody is obliged to call `PostTask`. The number of
  posts is bounded, without which a flood of tasks could delay `WM_QUIT` for
  ever, in the program as in the model.
- `RootWindows`: weak fairness for the main thread. The UI thread's queued tasks
  are strongly fair: between two of them it may run what pages cause, which
  disables a task for the length of a handler, but Chromium's task queue reaches
  each task in the end. The same holds for CEF's destruction of a browser
  whose parent window is gone, and for the outcome of a popup. Nothing is
  assumed of pages, the user and the host. A page that refuses to close is
  allowed to do so for ever.
- `CefClientConfig`: a process goes on with its call, and the host goes on
  asking (`CheckCefWindow`), which is what the flag is for. There is no fairness
  for starting, exiting or dying.
- `MessageRouter`: the UI thread and the renderer's main thread run what is
  queued for them, an `OnQuery` returns, and a handler ends a query that it may
  answer only once: the header asks the latter of handlers. Nothing is assumed
  of persistent queries, of pages, of navigations, or of the end of processes, left
  ones included.
- `ResourceManager`: the IO thread runs its tasks, an `OnRequest` returns, a
  load of an archive ends, and a provider answers what it took (the header:
  "return true and call Request::Continue or Request::Stop"), for an archive as
  its code does.
- `FilteredResponse`: the FILE thread runs what is queued for it, and CEF goes on
  with a response that it was called back for. Nothing makes it cancel.
- `NplCefPlugin`: a call goes on, a client's main thread runs its queue, and the
  client makes the `Progress` that run windows_end shows `RootWindows` to make. A client
  need not ever make a window or a browser.

## Findings

1. *popup_canceled*: `CreateRootWindowAsPopup` registers a popup's window before
   its browser exists. If the opener closes first, CEF cancels the popup, no
   callback removes the window, and `cefclient` runs on without a window.
   `QuitsUnlessCanceled` holds when CEF makes every browser it was asked for: the
   loop runs on without a window only after a browser was canceled, this popup's or
   the first one of a window (`CreateMayFail`).
2. *raw_pointer*: a command's closure is bound to a plain pointer; the window may
   be gone when it runs.
3. *config_stale*: without a lock, another client's write restores the flag of
   an exited client.

Also seen, without a run:

- After its user closed a client, or `ShellExecute` failed, Start does nothing
  until a Quit for the id: `global_wnd_map` says that a client was started
  (`NplCefBrowserImporter.cpp:311`), not that it is there.
- The filter returns `RESPONSE_FILTER_DONE` while bytes wait in `overflow_`
  (`B/response_filter_test.cc:125` looks at the match only): at the end of the page
  those bytes are lost, and so is a partial match when nothing was written.
  `ReplacedSoFar` says what a complete page may lack.
- The filter misses a `FindString` that comes right after a part of one, because it
  starts over behind the byte that does not match. `B/response_filter_test.cc:28`
  speaks of all instances. `FalseStart` in `ResponseFilter` names those pages.
- `DCHECK(hWnd == self->find_hwnd_)` at `B/root_window_win.cc:1373` compares the
  root window with the find dialog and fails at the first command of a debug
  build.
- A client that exits before its host asked for its flag, with no other flag of
  that host in the file, ends with an uncaught exception: `erase(key)` on a null
  config throws (`CefClientConfig.cpp:55`). `CefClientConfig` has that end as
  `"aborted"`.
- The main thread keeps and uses its browser reference until `OnBrowserClosed`
  arrives, after CEF's `OnBeforeClose` has returned
  (`cef_life_span_handler.h:192` forbids calls after that).
- `RemoveProviders`, `RemoveAllProviders` and the destructor of the resource
  manager loop for ever if they meet an entry that an earlier call left pending
  for deletion (`looping` in `ResourceManager`; two calls and one request that is
  in between suffice).
- `ArchiveProvider` never answers a request that it queued and then has no file
  for (`abandoned`).
- `OnBeforeBrowse` cancels queries without telling the page, which waits for ever
  if the navigation turns into a download (`silenced` in `MessageRouter`).
- A handler that is removed from within another's `OnQuery` can still be offered
  the query, and take it (`HandlersRegistered` leaves out the query of that moment).
- Across a swap the router takes one page's query for another's
  (`IDsSharedAcrossSwapOnly` says that only then). An answer: the old page makes its
  first query, a navigation across origins begins and commits in a new process, the
  new page makes its first query, then the old one arrives; no handler takes it, and
  the failure goes, with the IDs of both, to the new page, which drops its own query
  (`ExecuteCallback`). A cancellation: the old page's context is released while the
  new page's first query is with a handler; the message "cancel all of context 1"
  takes it from there, and the page hears nothing (`ReceiveCancel`). Against that,
  `cef_message_router.h:74-76` has handled queries answered by "asynchronous
  execution of the associated JavaScript callback". How long CEF lets the old page
  send is not in this repository; were it silent from the moment the new one starts,
  and its messages worked off, there would be no mistake. So it is stated as a bound
  (what can be mistaken for what), not as a finding.
- A Quit that comes before the client has shown a window with a browser finds none
  and is lost: `LibActivate` has erased the id by then (`NplCefBrowserImporter.cpp:326`)
  and starts another client at the next Start. `dismissed` in `NplCefPlugin` are
  the clients of that kind.
- `AddHandler`'s `first` has no effect (`cef_message_router.h:292`); and
  `ClientHandler` never calls the router's `OnBeforeClose`, although
  `cef_message_router.h:328` wants all of them called.

## Proofs

All theorems hold for every value of the constants that satisfies the named
ASSUMEs (distinct threads, finitely many windows, natural bounds).

- `MainMessageLoop_proofs`: `TypeCorrect`, which includes the lock discipline;
  from it `TasksConserved`. The strengthening is about threads inside
  `PostTaskInternal`: one that has seen no window does so under the lock, so
  `Run()` is not between making the window and releasing the lock.
  `QuitLetsEarlierTasksRun`: `QuitInv` says where `WM_QUIT` comes from, a Quit task
  that was executed, and `PrefixInv` that what was executed is a prefix of what was
  accepted, in every phase of the hand-over. `LoopIsTaskQueue` is the refinement:
  each action is an `Accept`, an `Execute` or a stutter of `TaskQueue`
  (`RefinementStep`).
- `RootWindows_proofs`: `TypeCorrect`. Lemmas say what receiving, posting, the
  UI queue and `NotifyDestroyedIfDone` do to types; "made" windows only grow, so
  messages stay typed.
- `RootWindowsOrder_proofs`: `Registration`, `DelegateNeverDangles`,
  `CallbackOrder`, `ActiveBrowserRight`, `AgreedCloseGoesOn`,
  `QuitsAfterLastWindow`, `TempWindowStays`, `WindowsImplementClient`. The first four are not inductive: they speak
  of the head of the queue or of the two destroyed flags, and what makes them true
  is where in the queue a window's messages are. The invariant `OrderInv` says,
  for each window made, which of its messages are queued, each at most once
  (`Once`) and in which order (`Before`), according to what CEF's browser is
  (`cef`) and what the main thread has processed: its creation (`CreateInv`),
  its callbacks (`CallbackInv`) and its life as a whole (`LifeInv`); `ThreadInv`
  says which window the UI thread's handler is in the middle of. A step
  changes the messages of one window, so the proof has a frame lemma (`Frame`:
  nothing about w changed, so its part of the invariant holds) and, for each
  action, a proof for its own window. The four theorems follow from the invariant.
  `AgreedCloseGoesOn` adds `AgreedInv`: a WM_CLOSE from `DoClose` has an
  `OnBrowserClosing` before it in the queue (`Heralded`) unless that was received.
  `QuitsAfterLastWindow` needs to know that an empty `root_windows_` means that no
  window is on its way: each queued `OnRootWindowCreated` has an opener that is
  registered, or will be by an earlier message, and whose end is not queued before
  it (`OpenerInv`), so the first one queued has a registered opener
  (`LastWindow`). `QuitInv` says that the clean-up, Quit and `quitFlag` come one
  after the other, once, and only when all windows are gone: until then only
  `NotifyDestroyedIfDone` posts the clean-up (`BeforeQuit`), and afterwards no
  window has anything left to do (`NothingLeft`, `AfterQuit`).
  `TempWindowStays`: a popup needs a parent from `OnBeforePopup` on, and the
  temporary window goes with the clean-up only, when no popup is left (`TempStep`).
  `WindowsImplementClient` is the refinement. The invariants above are what makes each
  step one of `ClientProgram`'s: `CreateInv` says that a window is made once,
  `CallbackInv` that its browser is closed while it has one, `LiveIsLeft` that a page
  that asks for a window has one that is left, `QuitInv` that nothing is left when
  `Run()` returns; one lemma for each kind of step (`HostSees...`). It needs one thing
  more, that a closed browser has no native window (`ClosedStep`).
- `NplCefPlugin_proofs`: `TypeCorrect`; `OneClient`, whose property is inductive as it
  stands; `ClientsArePrograms`, so what the plugin's model assumes of a client is
  what `WindowsImplementClient` proves of it.
- `CefClientConfig_proofs`: `TypeCorrect`, `FlagIsTrue`, `FlagStays`. While nothing
  is `disturbed`, at most one client is in the middle of its life (`QuietInv`), so
  its root is what the file is, or will be: `ClientInv` says what, for each thing
  that can be left of its call. Lost updates come from a second client only.
- `MessageRouter_proofs`: all invariants of runs `router` and `router_live` and the
  action property, for any number of renderer processes, side by side or not.
  `RouterInv` is a conjunction with a part for each question: where a query of
  the browser side can be, by its state (`BrowserInv`), which messages a renderer
  process may have sent, and what is left of one that ended (`ProcessInv`), that keys
  count up within a process (`KeyInv`), where a canceled query is (`CancelInv`), what
  is behind what in each process's queue (`QueueInv`), and `NoQueryForgotten`. That
  messages are found by a key, which each process uses again, is why
  `IDsCollideAcrossSwapOnly` needs all of them: what the browser knows of a process
  that was not left is gone with its termination, which the next process waits for.
  `OnlyRegisteredHandlers` is inductive with the types. Actions that only take a
  message from a queue or append one share lemmas.
- `ResourceManager_proofs`: `TypeCorrect`, `PositionsStayValid`, `WalkGoesForward`.
  `ListInv`: `before` orders the entries as `Precedes` does; `EndInv`: what holds
  once the manager is gone.
- `FilteredResponse_proofs`: `HandOverIntact`, for pages, buffers and reads of any
  size. What CEF took, the rest of the buffer and the rest of the stream make up the
  content, in that order; the buffer is not read while the FILE thread has it.
  `PiecesDoNotMatter` and `ReplacedInPieces` are about the filter, for every
  `FindString`, page, chunk and output buffer. The invariant is `FilterInv`: with what
  was written before (`Behind`), the calls so far amount to one call with all the
  bytes. It is kept because two chunks are examined like one (`ExamineConcat`), what
  was written earlier does not matter (`ExamineBehind`) and what does not fit is kept
  (`Filled`). What one call does to a whole page is proved by induction over the
  bytes: a match of k bytes began k bytes ago and these are the first k of
  `FindString` (`MatchBegun`), so a match that is completed is an occurrence
  (`MatchCompleted`), and every other byte is written as it is (`ByteWritten`). The
  converse, that an occurrence is recognized, needs that no match has begun before
  it, which is what `FalseStart` excludes (`Recognized`). So the loop fulfils the
  recursive definition of `Replaced` (`ReplacedIs`).

The library's induction theorems take an operator as a parameter, which the
provers cannot instantiate. `FilteredResponse_proofs` has the principle for sets of
numbers instead (`Induction`, from the well-foundedness of < on Nat), and a
recursive function is unfolded by showing that some function fulfils its equation
(`RunIs`, `ReplacedIs`).

Only model-checked: liveness, which TLAPS does not prove (fairness, ENABLED).
Every safety invariant and action property of the passing runs is a theorem.

## Not modelled

- Data: titles, addresses, geometry, focus, colours, the JSON of a command.
- Extensions, Views, off-screen rendering: other configurations than the one the
  plugin starts.
- The standard and the external message loop: not reached, see `RunMain`.
- The size limit of a Win32 queue, and `PostMessage` failing.
- Vendored and generated code: CEF's headers and C API glue, gtest, ceftests,
  cefsimple, json.hpp.
- The image cache: filled and read by Views windows only. `BytesWriteHandler`:
  the drag and drop of off-screen windows only. `PassThruResponseFilter`: copies.
- The XML, ZIP and temporary directory wrappers: sequential, a lock around each
  operation.
- The page tests (dialogs, server, URL requests): planned.

## Plan

Done: the modules above. Next, in this order:

1. Composition of `NplCefPlugin` and `CefClientConfig`: a host that starts,
   waits for the flag, opens and quits, as the repository's example does. A flag of
   `CefClientConfig` would be a window of a `ClientProgram` with a browser.
2. `RootWindowViews` with the image cache, the external pump, and the URL request,
   server and dialog handlers of the page tests.
