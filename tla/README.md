# A TLA+ model of InFormant

InFormant records sound, analyses it while it comes in (spectrogram, pitch,
formants, glottal flow), draws the results and can synthesize a voice from
them. Around a numerical core it is a concurrent program: audio callbacks, an
analysis thread, a processing thread, a visualisation thread, a synthesis
thread, Qt's render thread and the main thread share queues, a store of
results, a clock and a number of flags. This directory models that concurrent
part in TLA+, and beside it the sequential code whose control is intricate
enough to be wrong (wavelet transforms, peak picking, settings, paths, the
spectrogram's texture, axis labels, fonts). TLC checks it, and TLAPS proves the
central properties of the core.

Paths below are relative to the repository's `src/` unless they start
otherwise; `PROJECT.json` maps every definition to its lines.

## 1. The system

### Components

| component | state | operations | shared with |
|---|---|---|---|
| `LightweightSemaphore` (`atomicops.h`) | `m_count`, kernel semaphore `m_sema` | `signal`, `tryWait`, `wait(timeout)`, `availableApprox` | one signaller, one waiter |
| `BlockingReaderWriterQueue` (`readerwriterqueue.h`) | lock-free FIFO `inner`, a semaphore | `enqueue`, `wait_dequeue_timed`, `try_dequeue`, `size_approx` | one writer, one reader |
| `Audio::Buffer` (`modules/audio/buffer`) | a queue, a sample rate, the static flag `sCancel` | `push`, `pull`, `cancelPulls`, `getLength`, `setSampleRate` | capture callback → analysis thread; analysis thread → processing thread |
| `App::Pipeline` (`modules/app/pipeline`) | own buffer, block size, sample rate, thread and its flags, sliding window, the processors' `mTime` | `processAll`, `callbackProcessing`, destructor | analysis, processing and main thread |
| the four processors | `mTime`, `mFrameSpace`, `mFrameLength` | `canProcess`, `process`, `processData` | processing thread → data store |
| `DataStore`, `TimeTrack` (`context/datastore.cpp`, `timetrack.ipp`) | tracks of (time, value), read-write lock, stoppable clock | lock operations, `insert`, `remove_before`, bounds, `back`, `startRealTime`, `stopRealTime`, `getRealTime` | processing, render, datavis, main and analysis thread |
| `View::Spectrogram` | – | `render` | render thread → data store |
| `DataVisWrapper`, `SynthWrapper` | chart series, Qt properties | `setSound`, `setGif`, `setFormants`, ... | datavis thread |
| `ContextManager` | the members above, the threads, `mAnalysisRunning`, `mSynthesisRunning` | `exec`, start and stop of the threads, their loops, the pause handler | everyone |
| `AudioContext` | the backend and its streams, opened and started flags | open, start, stop, close, replacement of the backend | main thread |
| audio backends (PortAudio, ALSA, Pulse, Oboe, WebAudio, dummy) | streams, threads, pause flags | `AbstractBase` | push into the buffer, pull from the queue |
| `Audio::Queue` (playback) | lock-free queue, block duration | `pushIfNeeded`, `pull`, `setOutputSampleRate` | synthesis thread → playback callback |
| `Synthesizer` | parameters, their smoothed copies, filter, surplus of samples | setters, `audioCallback`, `getFilterCopy` | datavis thread, synthesis thread |
| `Resampler` | libsamplerate state, rates | `process`, length estimates | – |
| `Config`, `cfgpath.h` | a TOML table, a file | getters, setters with signals, load, save; the path and its folders | main and render thread |
| wavelet transforms (`analysis/wavelet`) | – | convolutions, tables, `swt`, transforms along an axis | SIGMA |
| SIGMA (`analysis/gci`) | a list of instants | `analyse` | – |
| pitch solvers (`find_peaks.cpp`, `pitch/`) | – | `findPeaks`, `findPeaksWithThreshold`, MPM, YIN | processing thread |
| linear prediction and formants (`linpred/`, `formant/`) | – | `Autocorr`, `Covar`, `Burg`, `FilteredLP` | processing thread |
| `QPainterWrapper`, `CanvasRenderer` | the spectrogram's texture, pixels taken by labels, fonts and textures | `drawSpectrogram`, `drawTimeAxis`, `drawFrequencyScale`, `initialize`, `synchronize`, `render` | render thread |
| other solvers, synthesis kernels, QML start-up, logging | – | numerical, output | – |

### Interaction

    capture callback --push--> mCaptureBuffer --pull--> analysis thread (processAll)
       analysis thread --push--> Pipeline::mBuffer --pull--> processing thread
       processing thread --beginWrite/insert--> DataStore tracks
       render thread --beginWrite/remove_before, beginRead/draw--> DataStore
       datavis thread --beginRead/back--> charts and Synthesizer
       synthesis thread --pushIfNeeded--> playback queue --pull--> playback callback
       main thread: opens streams, starts threads, pauses (stream and clock),
                    cancels pulls, joins threads, destroys members

### What is hard here

* the semaphore's time-out of 50 µs races the signaller, which counts first and
  posts second;
* a pull blocks until samples come, and nothing but a static flag can end it;
* the sample rate is read several times by one thread and written by another;
* the processing thread is started from within a call and joined in a
  destructor, after other members are gone;
* flags without initial values; a clock started by two threads, in any order, and read
  by a third without a lock;
* times that are sums of doubles, compared with `>=`;
* iterators into tracks that other threads insert in and erase from;
* results that arrive with a time behind the ones that are there, or with the
  same time, or for a number of formants that changes from frame to frame;
* a lock-free ring whose two threads decide by stale copies of each other's index;
* backends that are replaced while their threads and callbacks run;
* a playback queue that is topped up every 20 ms against a device with a period
  of its own, and blocks that only ever grow;
* a settings file that is emptied before it is written, and setters that are
  defined only after a getter;
* index arithmetic at edges: filters wider than the signal, rows of a strided
  array, textures that go around, labels half outside the view, paths that just
  fit.

`PROJECT.json` lists these under `hazards`, each at its line and with the
properties aimed at it.

## 2. Modules

| module | models | abstracts from |
|---|---|---|
| `CountingSemaphore` | what the semaphore promises: a counter of permits, a wait that is granted or refused | – |
| `LightweightSemaphore` | the semaphore, one action per atomic operation | the 1024 spinning loads are one choice: a load finds a permit, or the last one found none |
| `SampleStream` | what a buffer promises: the pushed samples in order, but for those that found no memory; holes only after a cancellation | – |
| `AudioBuffer` (extends `LightweightSemaphore`) | `Buffer` over `BlockingReaderWriterQueue` | `inner.enqueue` and `inner.try_dequeue` are one step each, and the first may fail; a sample is its number |
| `Pipeline` | `processAll`, `callbackProcessing`, destructor | both buffers are numbers of samples, which is what `SampleStream` promises; frames are sizes; times are counted in ticks, and a comparison that the rounding of doubles can decide goes either way |
| `TimeTrack` | `insert`, `remove_before`, `upper_bound`, `back` of `TimeTrack<T>` | `std::upper_bound` by what it returns |
| `DataStore` (extends `TimeTrack`) | the store, its lock and clock, and the four threads as its clients | a result is its time and the number of its frame; times as in `Pipeline` |
| `ContextManager` | `exec` to the last destructor | inside a thread's body only what other threads can see |
| `SpscFifo` | what the queue promises: FIFO, and an empty answer only if it was empty when the call began | – |
| `ReaderWriterQueue` | the ring of blocks, a step for each location the other thread writes | weak memory: the fences forbid what would matter, so steps are sequentially consistent |
| `AudioContext` | the context's calls, its backends' threads and callbacks, the backend handler | the libraries, which call back whenever their contract allows; samples |
| `Resampler` | the two length estimates | `src_process` is any split its contract allows (external) |
| `PlaybackQueue` | `Audio::Queue`, the synthesis thread's loop, the device | samples are counted; time in quarters of a millisecond |
| `Synthesizer` | `audioCallback` to `generateAudio`, the setters and the filter's copy | gains by how long they last, a glottal sample by its number, the filter by its version |
| `Config` | getters, setters, load, save, the colours, the making of solvers | a value is the default or another; the schema keeps each field's table and type |
| `CfgPath` | four path functions on three platforms | a path is its names and its length |
| `SpectrogramTexture` | `drawSpectrogram` of painter and renderer | a slice is its time and length |
| `AxisLabels` | the time axis and the frequency scales | a label is the pixels it takes |
| `CanvasResources` | the renderer's life, fonts, zoom | OpenGL names; a font is its glyphs, scale and textures |
| `WaveletCommon` | buffer lengths, highest levels | – |
| `WaveletConvolution` | the downsampling convolution loop by loop, the upsampling ones as sets of terms, the four filters | values: all is linear, so a value is the vector of its weights |
| `Wavelets` | which coefficients a wavelet reads | the coefficients themselves |
| `Swt` | the levels of `swt` and SIGMA's multiscale product | a band is its kind and level |
| `WaveletAxes` | `downcoef_axis`, `idwt_axis` | a row's transform |
| `Sigma` | the filter at the end of `SIGMA::analyse`, the windows of `xewgrdel` | how the instants are found: any set |
| `FindPeaks` | `findPeaks`, and what RAPT takes from it | heights are numbers of a small set |
| `PitchSearch` | MPM's `peak_picking` and choice, YIN's search | the curves are any that their definition allows, NaN included |
| `LinearPrediction` | `Autocorr`, `Covar`, `Burg`, order by order | numbers are fractions with a NaN; rounding is left out |
| `FilteredLP` | which roots become formants | a root is its frequency, side and acceptance |
| `CauchyIntegral` | `cauchyIntegral` and its partition of a ray | a point's region is any |
| `AudioBuffer_proofs` (with the semaphore's), `ReaderWriterQueue_proofs`, `Pipeline_proofs`, `DataStore_proofs`, `ContextManager_proofs`, `AudioContext_proofs`, `MCSynthesis_proofs`, `MCSettings_proofs` | the theorems | |
| `MC...` | the instances for TLC, where a cfg cannot give the constants or where a run has several modules; the other runs are of the module itself | |

`MCSynthesis`, `MCSettings`, `MCDrawing` and `MCAnalysis` instantiate several modules
in one specification. A behaviour chooses one `part` (or `kernel`) at the start,
and the variables of the others keep a fixed value: the parts do not interact in the
code either, or only through a value that each takes from a set (the length a
queue asks the synthesizer for, the path of the settings file). Each of their
properties is the conjunction of the named properties of the modules.

The composition is by level: `AudioBuffer` contains the semaphore step by step;
`Pipeline` uses two buffers as `SampleStream` describes them; `ContextManager`
uses a pull that returns once pulls are cancelled (`AudioBuffer!CancelUnblocks`)
and a processing thread that leaves its loop once it is told to
(`Pipeline!DestructorReturns`); `DataStore` has the pause handler and the first `processAll`
of `ContextManager`, as far as they touch the clock. `AudioBuffer` takes the inner queue's calls as
one step each: `ReaderWriterQueue` shows, by refinement of `SpscFifo`, that this
is what the ring's many steps amount to. `PlaybackQueue` and `Synthesizer` both use
`Resampler`; `WaveletConvolution`, `Swt` and `WaveletAxes` use `WaveletCommon`.

How state and actions correspond to the code:

* **LightweightSemaphore.** `mCount` and `mSema` are the two members, `waiter`
  and `signaller` are program counters. `TryWaitLoad` is the load that opens
  `tryWait`, `Take` the decrement after it, `SpinFound`/`SpinExhausted` the
  spinning loop, `Decrement` the `fetch_add(-1)` before the sleep, `Wake` and
  `TimeOut` the results of `timed_wait`, and `Restore`, `Retake`, `TryKernel` the
  loop after a time-out. `signalled` and `acquired` are history variables. The
  queue calls `signal()` without an argument, so `signal(count)` adds one.
* **AudioBuffer.** `Push`, `Enqueue`, `EnqueueSignal`, `EnqueuePost` are `push` and
  its loop; `EnqueueFails` is the call that finds no memory for a block and returns
  false, at which `push` does not look (`buffer.cpp:53`): the sample is lost (`lost`) and
  nothing is signalled; `Pull`, `PullWait`, `PullWaitStep`, `PullDequeue`, `PullRefused` are
  `pull`, whose loop is
  `while (!wait_dequeue_timed(...) && !sCancel)`. `sCancel` is static and never
  reset, as in the code.
* **Pipeline.** The local variables of the two loops that live across a step
  (`fs`, the block, the window, the frame) are variables. `mSampleRate` is read
  where the code reads it: for the block, for the window and for each frame.
  `since[p]` is the loop's `time` minus the processor's `mTime`: the two are only
  ever compared. Both are sums of granularities in doubles, each addition rounded, so at
  exactly the spacing `timeNow - mTime >= mFrameSpace` can be true or false: `CanProcess` is the
  set of the outcomes. Away from it the error is far below a granularity.
* **DataStore.** Each processor takes its turn: `Process` analyses without the lock,
  `ProcessBeginWrite`, `ProcessInsert` (once per track, in the code's order) and
  `ProcessEndWrite` are the locked part and the assignment of `mTime`. `RenderTime`
  reads the clock before the lock is taken, as `render()` does. The clock's actions are those of
  its callers: `FirstProcessAll` (analysis thread), `Resume`, `StopRealTime` and `ClearRealTime`
  (the pause handler; the last two are the two assignments of `stopRealTime()`).
  `startRealTime()` notes the instant whether the clock runs or not. `running` is the time since
  the first `processAll` that was not paused; it is kept by `Tick` from the setting, not from the
  clock's flag. `begunPaused` and `pausedTwice` record that the first `processAll` came in a
  pause, and that the clock was started and stopped before it.
* **ContextManager.** `main` runs through `exec()`, the pause handler and the
  destructors, in the reverse of the order in which the header declares the
  members. `mAnalysisRunning` and `mSynthesisRunning` have no initializer: `Init`
  gives them any value. `begunPaused` is as in `DataStore`.

* **ReaderWriterQueue.** `blk` is the ring, with each block's `front`, `tail` and the
  two shadow copies; `producer` and `consumer` are program counters. The consumer
  loads the shared tail only when its copy says empty (`LoadTail`), looks at the
  tail block (`LoadTailBlock`) and then at the front block again, as the comment at
  line 312 explains. `malloc` may fail (`MaxBlocks` is the latest). The constructor is
  `Init`.
* **AudioContext.** `todo` is the sequence of backend calls the current operation still has
  to make, one a step; `stream[c][d]` is a stream of context `c`. A context is never
  reused, so that threads and callbacks of an old one can be told from the new.
* **PlaybackQueue.** `thread` is where the synthesis thread stands, `left` how long it
  stays there, `due` when the device pulls next. Time passes (`Tick`) only when nobody
  is late; oversleeping, the callback's work and the start are intervals.
* **Synthesizer.** `pc` is the callback's place. The datavis thread's copy of the filter
  is in two steps (`reader`), under the mutex that the callback takes to assign it.
* **Config.** `file` is on disk, `mTbl` in memory. A file may be written by hand between two
  starts, with any table missing or of another kind. Saving empties the file, writes
  it, and a crash is possible before, between and after; `may` is the set of values a
  field may have at the next start.
* **CfgPath.** `last` is the last index of the caller's array that was written, `garbage`
  what the array held before, `dirs` the folders that exist. What `getenv` returns may be longer
  than the array; `SHGetFolderPath` and `strncpy` write a base that fits. Of the four functions
  the program calls `get_user_config_file` only.
* **SpectrogramTexture.** `sent` is the history of slices sent; `tex` and `nffts` are the
  texture's columns. A slice comes late, and before others that have been sent when the FFT's
  length has grown (`late`). `NewRenderer` makes an empty texture, while the mark and the offset,
  which are statics of `drawSpectrogram`, stay; `fresh` counts what went to earlier textures.
* **AxisLabels.** `bits` are the pixels that labels cover; one step per tick, class after
  class. A range may be reversed, which the window's slider prevents but a settings file can have.
* **CanvasResources.** `font` and `textures` are what OpenGL holds, `misuse` records a font
  used or deleted when it is gone.
* **WaveletConvolution.** `loop` is which of the four loops over outputs runs, `half` which
  half of an edge extension, `i`, `j`, `k` are the code's counters. The upsampling kernels return no
  terms where the code returns an error.
* **FindPeaks.** One step per peak and per valley of the loop; `ind` has the places that are
  left, the last being the array's length, as in the code.
* **LinearPrediction.** `i` is the order, `a` the predictor in place, `cc`, `b`, `beta` are `Covar`'s
  row of covariances, triangular matrix and diagonal, `b1`, `b2` are `Burg`'s two errors.
* **FilteredLP.** `split` is the history of the peaks that were replaced; the number of roots
  of a sector, which `CauchyIntegral` computes, is taken from a set.

Definitions whose comment begins with "Mutant of" are wrong variants of the
definition they precede. No specification uses them; put in place of the
definition, each one makes TLC report the property it is listed with in
`PROJECT.json`, which shows that the property is sensitive to the code.

## 3. Runs

| run | module, cfg | question | answer |
|---|---|---|---|
| `semaphore` | `LightweightSemaphore`, `Semaphore.cfg` | Does the time-out race lose, double or strand a permit? | No: the semaphore implements `CountingSemaphore` (`CountingSpec`), a wait returns, and `SemaphoreSound` holds: the types, the assertion of `signal()`, no wake-up left behind, `size_approx` at most one off. |
| `audio_buffer` | `AudioBuffer`, `AudioBuffer.cfg` | Does a pull deliver the stream? | Yes, of all the samples for which there was memory: it implements `SampleStream` (`StreamSpec`); `BufferSound`: `assert(success)` holds and `getLength()` never promises too much; cancelling ends a pull; no wake-up is lost. |
| `reader_writer_queue` | `MCReaderWriterQueue`, `ReaderWriterQueue.cfg` | Is the lock-free ring a FIFO? | Yes: `FifoSpec` is the refinement of `SpscFifo`, and with it that the queue holds the size it was made for and that the blocks stay one ring while it grows and when `malloc` fails. `RingSound`: the indices stay in their blocks, the asserts hold, and no slot is touched by the wrong thread. |
| `pipeline` | `MCPipeline`, `Pipeline.cfg` | Do block and frames fit the window with a rate that may change at any step? Is the thread started once and gone at the end? Does cancellation end everything? | While the rates of two sizes agree, the window holds (`WindowSound`), up to the one sample by which `std::round` exceeds the truncation; no processor falls behind its spacing by more than a granularity, however the comparisons of rounded times turn out (`Cadence`); `ThreadsSound`: the rate is assigned before it is used, the thread is started once, joined before the end, and the block size stays in range; `CancelledReturns`: `processAll` and the destructor return. |
| `pipeline_block_size` | `MCPipeline`, `PipelineBlockSize.cfg` | Does the block size follow the backlog as the comment says? | No (section 6). |
| `context_manager` | `ContextManager`, `ContextManager.cfg` | Does a thread or callback use a destroyed member? Does quitting always end? | No (`MembersSound`); yes, paused or not, with or without samples (`QuitEnds`). The clock runs when the program is not paused, and in a pause only if `processAll` was first called in it (`ClockFollowsPause`). |
| `data_store` | `MCDataStore`, `DataStore.cfg` | Do the tracks stay sorted and aligned, are reads stable, does the clock count right? | Yes. `ClockCountsRunningTime` has two exceptions, both of a user who pauses before the first `processAll`, and `PruneKeepsRecent` those and a clock read in the middle of `stopRealTime()`. `FramesWhole`: sound and flow, and all the formants, are of the same frames; a reader shows one frame; `back()` is the latest. |
| `audio_context` | `AudioContext`, `AudioContext.cfg` | Can two backends use the buffer or the queue at once? Does a call hang? | No and no, over pauses and changes of the backend. `StreamsSound`: one user at a time, nothing outlives its context, closed streams are at rest, flags agree; the rate is the running device's; a paused program captures nothing, unless its backend was changed. |
| `synthesis` | `MCSynthesis`, `Synthesis.cfg` | Does the block duration, which only grows, settle? Is sound lost between chunks? Can the datavis thread disturb the callback? | The delay is bounded by two blocks, and the resampler has a rate (`QueueCorrect`); the glottal stream is contiguous (`GlotContiguous`); the smoothing stays within its vectors, the bank below a chunk, and a filter's copy is of one callback (`SynthesizerCorrect`); the duration settles, sound returns after silence, callbacks end and the formants follow (`SoundFollows`). |
| `settings` | `MCSettings`, `Settings.cfg` | Are settings kept over restarts, crashes and edited files? Do colours and paths come back? | Settings: yes, except that a crash while saving may give the default (`SettingsCorrect`). Colours: yes, unless the file has a number where a colour is expected (`ColoursCorrect`). Paths fit the array and their folders exist (`PathCorrect`), with the exceptions of section 6. |
| `drawing` | `MCDrawing`, `Drawing.cfg` | Are slices drawn once, labels apart, textures freed? | Slices: once and in order, but one that comes behind those already sent is never sent (`TextureCorrect`). Labels and textures: yes (`LabelsCorrect`, `ResourcesCorrect`), as long as FreeType can be initialized. |
| `analysis` | `MCAnalysis`, `Analysis.cfg` | Do the kernels compute what they should, within their arrays, and end? | Yes: `ConvolutionCorrect` compares the loops with the convolution of the endless extension of the signal, that extension with the examples of `common.h` (but for antireflect beyond one reflection, section 6), and checks perfect reconstruction; `TransformsCorrect` has the tables, `swt` and the axes; `SolversCorrect` has SIGMA's filter, the peaks, MPM (one peak of each stretch, never a period of zero), YIN (the bottom of the first dip), linear prediction (the error is orthogonal to what it is predicted from; `Burg`'s arrays in place are the two errors; the coefficients are numbers but in one case of `Covar`, section 6), the formants (in order, in the band, none lost) and the integral; `KernelsEnd` is the rest. |

A property named `...Sound` or `...Correct` is the conjunction of the properties its
definition lists; each of these is stated with its own comment in the module it is
about, and the type invariant of the module is one of them.

### Bounds

* `Semaphore.cfg`: 6 permits. One waiter holds at most one debt, so a second and
  third signal already meet every state of the wait; six leave room for a
  signal in every part of several consecutive waits.
* `AudioBuffer.cfg`: 5 samples, pushes of 1 or 2, pulls of 1 or 3: a pull spans
  pushes, a push feeds two pulls, any of the samples finds no memory, and a cancelled pull is
  followed by others.
* `ReaderWriterQueue.cfg`: blocks of 2 slots (one usable) in a ring of several, and one
  block of 4; 7 elements and up to 6 blocks: the producer goes round the ring,
  fills it, enlarges it, and meets the consumer in the same block at every point.
* `Pipeline.cfg`: a tick is half a second and the rates are 2 and 3 samples a
  second, so that a frame of an odd number of ticks is a whole number of samples
  at one rate and not at the other. Two processors: one without spacing, one
  with the longest frame. The buffers hold 4 samples, as much as the largest block; the
  constants of the block size are scaled down in the same order
  (`Step < LowBlock <= InitialBlock < GrowAt`). The bound on `mBuffer` holds the
  analysis thread back, as a slower capture stream would. `PipelineBlockSize.cfg` is
  the same with one rate and smaller buffers.
* `DataStore.cfg`: 2 ticks of samples and 2 of the wall clock, a history of 1 tick. The pitch
  has a spacing, which is met exactly, so that either comparison comes about;
  the processors without one give two frames with the same time; delays 0 and 2
  send a spectrum behind earlier ones; solvers return 0 to 3 formants for 2
  tracks, so fewer, as many and more. The sample clock and the wall clock advance
  independently.
* `ContextManager` has no constants and is explored completely.
* `AudioContext.cfg`: three contexts, so two changes of backend, on a desktop (ALSA,
  PortAudio, Pulse), Android (Oboe) and in a browser (WebAudio).
* `Synthesis.cfg`: a device below and one above the synthesizer's rate, a thread that sleeps
  for two of the device's periods and oversleeps, two devices in a behaviour.
  The queue asks for less and for more than the bank holds; glottal frames
  are shorter and longer than a chunk. The numbers of samples are taken modulo 13,
  more than are ever held at once. Up to 3 formants.
* `Settings.cfg`: a build without Torch; two starts; one field with a solver and one number, over every kind of
  node, table and file; colours of three formants; base folders on both sides of
  every length at which a path stops to fit, an empty one, and ones as long as and longer than the
  array.
* `Drawing.cfg`: a texture narrower than the time the run covers, so that it goes around; one
  time span or two; slices late by up to the whole view, in any order of their times. Axes
  narrower and wider than a few labels, ranges upwards and downwards. Glyphs that load or do not, zooms below, at and above 1, any number of
  frames and renderers.
* `Analysis.cfg`: signals and filters up to 8, so that a filter passes both edges several
  times and reflection turns back more than once; orders to 100, above every
  table; lengths to 32 and levels to 6; arrays of one to three axes in the orders of C
  and Fortran and with gaps; all sets of at least four instants in 12 samples; arrays
  of up to six elements of five heights, negative and zero included, chosen so that
  differences fall below, at and above a quarter of the range. Curves of up to six
  lags, enough for two stretches above zero behind the skipped third; three orders of
  prediction, so that a pair and a middle coefficient are changed in place, from every
  signal of up to six samples -1, 0 and 1 (four for `Burg`, whose fractions grow
  beyond TLC's integers); roots at and beside every limit `FilteredLP` compares with; a ray with
  three parts that can be halved once exactly and once in rounding, with depth three.

Deadlock is checked in all runs but four. In `audio_context` the program may end,
in `settings` it may stop between starts, in `drawing` an axis is done and in `analysis` a
kernel is, and nothing follows; there `CHECK_DEADLOCK` is off, and `CallsReturn`,
`ColoursCorrect` and `KernelsEnd` say what must not stop. In `pipeline` and `context_manager` the
only final states are those of the explicit `Terminated`.

### Fairness

Weak fairness of a thread's steps while it is inside a call: the operating
system schedules every thread and no thread of the program has a priority that
starves another. Nothing is assumed of the environment: nobody has to push,
pull, signal, pause or quit, and a pull is not assumed to return unless pulls
are cancelled (`WF_vars(sCancel /\ ProcessAllReturns)` in `ContextManager`;
`AudioBuffer!CancelUnblocks` shows that it then does). The wait's liveness needs
only that the signaller, once it has done its `fetch_add`, reaches its post.
`DataStore` states no fairness: it has safety properties only.

`AudioContext` assumes that the main thread goes on with its calls and that threads and
callbacks that have begun end, not that a server ever answers. In `PlaybackQueue`
the device pulls and time passes. In `Synthesizer` the synthesis thread has strong
fairness: it waits for a mutex that the datavis thread takes for the length of a
copy, and that thread sleeps between two copies, so the mutex is free again and
again and for long enough; weak fairness would let the copy always be in the way.
`Config` assumes only that a call of `getViewFormantColor` goes on. The kernels of `analysis`
are loops that run; linear prediction, whose loops are counted, is left out of it.

## 4. Proofs

All theorems hold for every value of the constants that satisfies the named
assumption of the module. The assumptions fix types; `Pipeline`'s also has the order
of the block size's constants, as the code has them, `ReaderWriterQueue`'s the
sizes a queue is made with, `PlaybackQueue`'s that one of the devices is the fastest, and
`Synthesizer`'s that one of the glottal frames is the longest and that a chunk of 4096
samples is made from one at least.

* **AudioBuffer_proofs**, on the semaphore (`MaxSignalsAssumption`). The inductive invariant
  `SemaInv` is the account of permits and of wake-ups. `PermitsInv`: `m_count` is the
  number of permits, less one while the waiter has a decrement outstanding
  (`Indebted`). `WakeUpInv`: exactly one wake-up is under way, as a pending post or
  in `m_sema`, when the waiter is indebted and the count is not negative, and
  none otherwise. Neither half is inductive alone: whether a time-out may return
  depends on the count, and whether the count is right depends on the wake-up
  being claimed once. From it follow the type invariant, `OldCountAssertion`,
  `NoStrayWakeUp` and `ApproxIsHonest`, together `SemaphoreSound`, and the refinement
  `CountingSpec`.
* **AudioBuffer_proofs**, on the buffer (also `LengthsAssumption`). Every step of the buffer is a step of
  the semaphore or leaves it alone (`BufferImplementsSema`), so `SemaInv` holds.
  `BufferInv` adds that the FIFO is as long as the elements enqueued and not yet acquired
  (`FifoInv`), that a push in progress stays within the bound, and `OrderInv`: the FIFO's samples
  go on from the one pulled last, and what is left out between two neighbours, or after the
  last, found no memory. That is what the stream's next sample means; without losses it would
  follow from the lengths. From it
  follow `TypeOK`, `DequeueSucceeds` and `LengthIsAvailable`, together `BufferSound`, and
  the refinement `StreamSpec`.
* **ReaderWriterQueue_proofs** (`ShapesAssumption`: a queue is made for 1 to 2^30 - 1 elements
  and its largest block is a power of two between 2 and 2^30: the powers are listed,
  as far as TLC's integers go, and the program's queues are far smaller). `QueueInv` is
  proved for every number of blocks and elements, also when `malloc` fails. `IndexInv`: the consumer's copy of the
  tail and the producer's of the front are behind the index they are copies of, by
  less than a lap, so that a stale copy errs on the safe side; the asserts follow from
  it, and without it a copy could be a lap behind and an empty block look filled.
  `SlotInv`: a slot holds an element exactly when it lies between front and tail, but
  for the one slot each thread is working on. `RingInv` is about the order of the
  blocks, without an induction along the ring: the blocks from the consumer's to the
  producer's (`Live`) can be told where they stand, since all but the consumer's hold
  elements and no other does, but for the one the producer is about to move to
  (`Ahead`); `next` leads from each of them to another until the producer's, and from
  no other block into them but to the consumer's. `ProducerInv` and `ConsumerInv` keep what
  a thread has found out until it acts on it. `InOrder` and `NewestInv`:
  elements have successive numbers within a block, across from a block to the next,
  and up to the last one enqueued. From `QueueInv` follow `RingSound` and `InOrder`.
* **Pipeline_proofs** (`PipelineAssumption`). `PipelineInv`: the backlog has not dropped by more
  than the one block since the last call, so the growing branch is never taken and
  the block size stays in range; the rate is passed on before the thread is
  started; the thread object stands for the thread until it is joined. From it
  follow `BlockSizeInRange`, `RateKnown`, `NoThreadOverwritten` and `NoOrphanThread`,
  together `ThreadsSound`. `WindowInv` is proved on top of it. `RoomInv`: a block that was
  asked for still fits when it is pushed. `SizesInv`: block, window and frame have the
  lengths that follow from the rates they were sized with; that a frame is at most
  one sample longer than a window of the same rate, and not at all when the frames
  are whole numbers of samples, is then arithmetic of truncation and rounding
  (`MaxFrameLength` is the greatest of the lengths by the least-number principle, so
  that no induction over the processors is needed). `PaceInv`: a processor that had its
  turn is no more than its spacing from its last frame, the others up to a
  granularity more, also when a comparison at exactly the spacing has come out false;
  `Cadence` alone says this only between two rounds and is not inductive. From it follow `WindowSound` and `Cadence`.
* **DataStore_proofs** (`DataStoreAssumption`). Lemmas about `TimeTrack`: in a sorted track
  `UpperBound` exists and splits it; `Insert` and `RemoveBefore` keep it sorted;
  `Insert` loses nothing and `RemoveBefore` nothing that is later. `StoreInv` adds
  the lock (a thread is where the code holds the lock exactly when it holds it),
  the clock in the middle of `stopRealTime()`, and that a time read outside of it
  is not later than the clock. `ClockInv` follows the clock through all orders of pauses and the
  first `processAll`: before it nothing has run, what a pause stores is nothing unless the
  clock ran, and in a pause the clock runs only if `processAll` was first called in it. From it follow `TracksSorted`, `ReadsAreStable`,
  `ClockCountsRunningTime` and `PruneKeepsRecent`. `FramesInv`, on top of it, is about the
  frames that are shown. `PendingInv`: the processing thread has one result to insert, once in each
  track of the processor whose turn it is. `AlignInv`: two tracks of one processor are equal
  or differ by just that insertion, which also the pruning respects, since it takes
  whole tracks under the lock. `LatestInv`: no entry is later than the next one
  will be, so that the insertion goes to the end and `back()` is the latest frame;
  the spectrogram, whose results come in late, is excepted, as its time stamps are.
  `RoundInv` bounds the numbers of frames by the time processed. `ShownInv`: between the
  datavis thread's reads of sound and flow the sound's track still ends
  in the frame that was shown, since it holds the read lock. From it follows
  `FramesWhole`.
* **ContextManager_proofs** (no constants). `LifeInv` says of each place of the main thread
  which threads exist there (`ThreadsInv`), which members are gone and with them the
  streams and the processing thread (`DestroyedInv`), that the flags the loops read are
  set until they are cleared on purpose (`FlagsInv`), and what the clock does
  (`ClockInv`, with the places inside the pause handler and the first `processAll` in a pause). `MembersSound` needs the first
  two: that a thread touches no destroyed member is a statement about joins made
  long before. From it follow `MembersSound` and `ClockFollowsPause`. TLC
  explores the module completely; the proof says why it holds.
* **AudioContext_proofs** (`AudioContextAssumption`). `ContextInv`, for any number of changes of
  the backend and any set of backends: `PhaseInv` says which calls the main
  thread has left in each of five phases and what those it made have done; `DeadInv`
  that every earlier context is destroyed or is the one being destroyed; `StreamInv`
  what a stream of each backend can be doing given the flags of `AudioContext`. An
  exception ends the program where it stands (`over`), so that after it only `Safe` is
  kept. Two backends cannot use the buffer at once because the phases put the end of
  one's threads before the other's first `open`. From it follow `StreamsSound`,
  `RateOfRunningDevice` and `PausedIsSilent`.
* **MCSynthesis_proofs** (`SynthesisAssumption`), for any rates, durations, lengths of chunks, blocks
  and frames, and number of formants. `QueueInv`: while the callback makes a block, the
  queue holds no more than one at the fastest rate, and the block no more than the
  duration calls for; `DelayBounded` is not inductive without it, since the duration
  grows and the device can be replaced by a faster one while the callback runs. What the
  resampler makes of a block is then at most a block of the device's and the
  roundings (`BlockResampled`, arithmetic with products and `\div`). `AudioInv`: the surplus
  goes on from the last sample used and up to the next one (`Follows`), which a new
  frame and the use of a chunk both keep (`FramesFollow`, `RestFollows`), and the bank is
  short of a chunk more than is asked for. `FilterInv`: `realFormants` has the size
  `formantCount` rounds to; who has the mutex is in the middle of an assignment or a copy,
  and the halves of the filter differ only in the middle of an assignment. From them
  follow `QueueCorrect`, `SynthesizerCorrect` and `GlotContiguous`.
* **MCSettings_proofs** (`SettingsAssumption`), for any choice of the schema's fields, with and
  without Torch, and any number of starts. `SettingsInv`: a file that parses has for every
  field a value it may have (`FileKept`), also between a crash and the next start; the
  table in memory has the value that was set, of the type it was read with, or is
  known to have been edited (`TableKept`); the file does not parse while it is written
  (`FileTorn`); and a solver is of the table's value and one this build makes
  (`SolversMade`). From it follows `SettingsCorrect`: that a setting is kept depends on what
  happened in the start before. `PathInv` gives `PathCorrect` for all lengths of the base folder
  and of the array; only of a base that the system writes into the array itself (Windows, Mac)
  does it assume that it fits. `ColoursAreKept` is the safety part of `ColoursCorrect`.

Only model-checked:

* all liveness properties, as fairness and `ENABLED` are out of the prover's reach, and
  `DurationSettles` within `SoundFollows`, which counts the pulls that can come in the time
  between two blocks and would need the history of the queue;
* `FifoSpec`: what the queue holds as a sequence is put together along the ring, and what
  such a recursion yields for every ring is an induction over data, which the
  installed provers cannot do. `ElementsInOrder` is the part of it that can be said
  block by block. `HoldsItsSize` and `RingWhole` go round the ring in the same way;
* drawing, and the kernels of `analysis`, which compute by loops over their input.

No module declares a `RECURSIVE` operator.

## 5. What the properties leave out, and why

* `WindowHolds` compares sizes computed with the same rate. When the capture device
  is changed between two reads of `mSampleRate`, block, window and frame belong to
  different rates and nothing in the code relates them.
* The datavis thread may test `mSynthesisRunning` before `startSynthesisThread()` has set it
  (`contextmanager.cpp:139`): the flag then has no value, and the thread may end at once, so
  that no chart is updated. The model has both outcomes and no property speaks against either;
  quitting ends with both.
* `ClockFollowsPause` and `ClockCountsRunningTime` have the exceptions that the code has
  (`pipeline.cpp:91`): when the first `processAll` comes in a pause, it starts the clock, which
  runs until the pause ends and is then right again; when the user has paused, resumed
  and paused again before it, the clock keeps the time of the run in between for good, and with a
  single pause it is right, because `startRealTime()` overwrites the instant.
* `PruneKeepsRecent` excludes the frame whose time was ahead (`torn`): read between the two
  assignments of `stopRealTime()`, where it counts the elapsed time twice, or in one of the two
  cases above.
* `getRealTime()` is one step: a reader that tests the flag before and reads the
  offset after a pause is not modelled.
* Start-up without synthesis (`WITHOUT_SYNTH`) is left out; so is `wait()` without a
  time-out, `signal(n)`, and moving a queue, which the program does not use.
* The render thread is not part of `ContextManager`: when Qt stops it is not decided
  in this repository. For the same reason nothing is said of `mViews`, which is declared
  after `mGuiContext` and destroyed before it.
* `Cadence` says what `time` and `mTime` amount to in ticks; that the rounding decides nothing but
  ties holds for years of running, in which the sums stay exact to far below a granularity.
* A sample that finds no memory is lost without a trace; `StreamSpec` says which samples come
  and not that all do.
* `AudioContext::tickAudio()` is called by the analysis thread (`contextmanager.cpp:145`) while the
  main thread may replace `mAudioContext` (line 69): a race on the pointer, without an outcome to
  choose from. The call does something with the dummy backend only.
* `setFormants()` assigns a vector that `audioCallback()` iterates (`synthesizer.cpp:74`). It is one
  step here; what an iterator into freed storage does is not modelled.
* `PausedIsSilent` excludes a backend changed during a pause: the handler starts the new
  capture stream whatever the setting says. The handler that would do so has no caller in the GUI.
* `ClosedStreamsAtRest` allows ALSA's threads to be at a closed handle until they
  are joined, as `alsa.cpp:156` closes it first, and Pulse, which holds its own reference.
* `SettersDefined` and `SettingsKept` exclude fields that somebody wrote into the file with
  another type; `ColourReturns` a scalar in the place of a colour: the call would
  not return (`config.cpp:357`).
* `Config` takes a call as one step. Getters also insert into the table on the render
  thread, without a lock; two unsynchronized insertions have no outcome to choose from.
* The same is true of the shared pointers to the solvers, which the main thread
  replaces while the processing thread calls through them (`contextmanager.cpp:52`).
* `DrawnSent` and `ViewSent` are checked for one time span; with a longer span chosen later they do
  not hold (section 6). Both except the slices that came behind ones already sent, which the code
  never sends: `DrawnSent` says that it is these and no others.
* No two slices have the same time in `SpectrogramTexture`; `TracksSorted` covers equal times.
* `FontsUsable`, `TexturesOwned`, `ZoomFollows` exclude a FreeType that could not be initialized:
  `initFonts` then leaves pointers to fonts that were just deleted.
* `LeavesFewAlone` says what SIGMA's filter does, which is less than its comment says (section 6);
  its runs start from four instants, since with fewer the iterators pass the end.
* Only three of the tracks are pruned; the others grow for as long as the program
  runs. A bounded model says nothing about it.

### Not modelled

* Correlations, the iterations that find roots, the other formant solvers (`SimpleLP` is the
  first filter of `FilteredLP`), the glottal solvers, the group delays of SIGMA and the
  synthesis kernels: floating-point computations with hardly any control.
  Aberth's iteration in `util/aberth.cpp` ends only if the numbers converge, which is
  not a property of its control; `NumbersOnly` says when it is given a NaN.
* Rounding in `LinearPrediction`, and signals of three samples or fewer in `PitchSearch`: YIN would read
  behind its vector, and no window is that short.
* RAPT's `computePath`, AMDF_M and IRAPT, which the program does not call or build.
* Device enumeration. Pulse's waits until one of three answers has come
  (`pulse.cpp:117`), and later answers are written to a stack frame that is gone, for which
  there is no outcome to choose.
* `SynthWrapper`, `GuiContext`, QML, shaders, colours and points: Qt properties and output.
* Logging and crash handlers: output.
* The dummy backend, which the program does not list.

## 6. Findings

`modules/app/pipeline/pipeline.cpp:111` says "dynamically adjust blockSize to
consume all the buffer." The code compares `lastBufferLength - bufferLength`,
which is negative when the backlog has grown, and shrinks the block in that case
(line 121), while the branch that enlarges it and announces "Processing too
slowly" (line 116) needs the backlog to have dropped by 8192 between two calls,
which take at most one block of 512 each. `pipeline_block_size` shows a
step that shrinks the block while the backlog is larger than at the call before;
`Pipeline_proofs!BlockSizeStaysInRange` shows that the block never grows.

Other places where the code does not do what a text beside it says, met while
modelling. They have no run of their own; where a definition is named, it states
the text, and TLC shows the difference when the run of its MC module checks it
for the part in question.

| place | the text | the code | definition |
|---|---|---|---|
| `readerwriterqueue.h:597` | :349 "Since the tailBlock is only ever advanced after being written to, we know there's for sure an element to dequeue on it" | a queue of size 0, which the program does not make, starts with a block of one slot, none usable; when the producer comes round to it, its element is lost and the assert at :351 fails | `ReaderWriterQueue!AdvanceAsserts`, with a shape of size 0 |
| `analysis/wavelet/convolution.template.cpp:173` | `common.h:40` "reflect back and forth without repeating edge values" | of a signal of one sample the inner loops make no step and the outer one does not end; the runs leave it out | `MCAnalysis!KernelsEnd`, with such a job |
| `analysis/wavelet/convolution.template.cpp:181`, `:422` | `common.h:47` antireflect: `0 -1 -2 -1 0 \| 1 2 3 \| 4 5 6 5 4` | the second reflection goes on in the direction of the first: `-3 -2 -1 0 \| 1 2 3 \| 4 5 6 7`, as an extension by point reflection at each edge does | `WaveletConvolution!AsDescribed` compares with the example as far as the first reflection |
| `analysis/gci/sigma.cpp:141` | :125 "If a gci is separated from all others by more than Tmax, delete" | the loop in the middle begins at the third instant that is left, so the one before it is never looked at | `Sigma!IsolatedDeleted` |
| `analysis/gci/xewgrdel.cpp:13` | :12 "Force window length to be odd." | `2 * n / 2 + 1` is `n + 1`, even for an odd `n` | `Sigma!WindowIsOdd`, with an odd window |
| `context/cfgpath.h:161` | :125 "The folder holding the file is created if needed." | `mkdir` is given a string whose end is not yet written | `CfgPath!FileFolderCreated` |
| `context/cfgpath.h:407` | :371 "The folder is created if needed." | `mkdir` of `.local/share`, which fails when there is no `.local`, and then of the folder below it | `CfgPath!DataFolderCreated` |
| `gui/qpainterwrapper_static.cpp:130`, `:138` | :100 "Split it into two chunks if it overlaps the texture width." | the second chunk's lengths are noted under the index in the whole, and the rows of both chunks are as far apart as the whole is wide | `MCDrawing!ColumnsWhole` |
| `gui/qpainterwrapper_static.cpp:91` | :84 "Only render the slices that have not been rendered yet." | what was out of view of a shorter span, or hidden, is taken as rendered | `SpectrogramTexture!ViewSent`, with two spans |
| `gui/qpainterwrapper_static.cpp:95` | the same | a slice that comes behind one already rendered, as after the FFT's length has grown (`processors/spectrogram.cpp:59`), is never rendered | `SpectrogramTexture!DrawnSent`, without its condition on `late` |
| `gui/qpainterwrapper_static.cpp:86` | the same | the mark is a static: after a new renderer has made an empty texture, the slices in view count as rendered | `SpectrogramTexture!RingInOrder`, without `fresh` |
| `gui/qpainterwrapper.cpp:196` | :190 "Major ticks are the decades." | the last decade of a range can be left out | `AxisLabels!DecadesAreMajor` |
| `gui/canvas_renderer.cpp:128` | :126 "Rescale max zoom from 0.5-5x to 0.75-2x for fonts." | 0.5 becomes 0.67 and 5 becomes 2.6 | `CanvasResources!TextZoomRange` |
| `analysis/formant/filteredlp.cpp:117` | :116 "Find the octant it is in." | sixteenths of the circle, modulo 8 | – |
| `analysis/linpred/covar.cpp:42` | :33 the test for silence, `gain == 0.0` | the divisor is another sum: when of the samples that count only the last is not zero, the coefficient is 0/0, and `aberthIterate` does not end | `LinearPrediction!NumbersOnly` states it exactly |
| `analysis/linpred/covar.cpp:87` | the predictor of order `i` | a predictor that leaves no error is returned without its last coefficient, the others being those of the full order | `LinearPrediction!Solves`, without its condition on `gain` |
| `analysis/pitch/rapt.cpp`, `createCosts` | `maxCij` | `max_element` with `>` gives the smallest | – |

## 7. Plan

Done: semaphore, buffer, pipeline, context manager and data store; the ring beneath the
buffer; the audio context with its backends; playback and synthesis; settings, drawing,
the wavelet transforms, SIGMA's filter, the peak picking, the choice of a lag, linear
prediction and the choice of formants. Every safety property of the runs `semaphore`,
`audio_buffer`, `pipeline`, `context_manager`, `data_store`, `audio_context`, `synthesis` (but for
`DurationSettles`) and `settings`, and `RingSound` of `reader_writer_queue`, is proved.

Left, proofs: `ResourcesCorrect` of `drawing`, then `LabelsApart` of `AxisLabels` and `PeaksFit` of
`FindPeaks`.
