# TLA+ models of libdc1394

This directory holds TLA+ specifications of libdc1394, the library that controls
IIDC cameras over IEEE 1394 and USB: modules that follow the C code step by
step, TLC configurations that check them on small instances, and theorems that
TLAPS proves for every value of the constants. Paths such as `usb/capture.c` are
relative to `libdc1394/dc1394/`.

`tlc -config X.cfg M` repeats a run (the table below names both), `tlapm M.tla`
a proof.

## 1. The system

A program opens a *camera* through one of several *platforms*. All public calls
live in platform-independent files; what depends on the operating system goes
through a table of functions (`platform_dispatch_t`, `platform.h`).

| Component | State it keeps | Operations | What is hard about it |
|---|---|---|---|
| USB capture (`usb/capture.c`) | ring of frames with a status each, `current`, `frames_ready`, `queue_broken`, notify pipe, mutex, helper thread, transfers in libusb | setup, stop, dequeue, enqueue, `callback`, `capture_thread` | two threads; a status that is written under a mutex and read without it; a byte stream that must match a counter and a ring; partial failures of setup; joining a thread that may be blocked |
| Isochronous resources (`iso.c`, iso functions of `linux/control.c`) | per camera `allocated_channels`, `allocated_bandwidth`, `iso_persist`; the bus's resource manager | allocate, release, release_all, set_persist, camera_free | several programs share the bus; the account of a camera has to match what the bus reserves through failures and foreign releases |
| Linux video1394 capture (`linux/capture.c`) | `capture_is_set`, the channel and bandwidth of the capture, `iso_auto_started`, the driver's ring | setup, stop, dequeue, enqueue | ten requests to the bus, each of which may fail after the others succeeded; other programs act between any two |
| Juju device access (`juju/control.c`) | file descriptor, bus generation, nodes, list of iso resources with closures | transactions with retries, event handler, iso resource allocate/deallocate | answers and events arrive in one queue in any order; closures point into stack frames |
| Juju capture (`juju/capture.c`) | ring, the kernel's iso queue, `capture_iso_resource`, `capture_is_set` | setup, stop, dequeue, enqueue | the kernel's queue as a third party; error paths of setup |
| Linux raw1394 access (`linux/control.c`) | handle, node, generation | register access with retries, reset, broadcast | asks again for as long as the bus is busy |
| USB register access (`usb/control.c`) | libusb handle | control transfers in two address spaces | device may be gone |
| Enumeration (`enumeration.c`) | platforms, device lists, camera identifiers | enumerate, camera_new | identifiers outlive the devices they name |
| Camera life cycle (`control.c`) | cached properties of the camera | camera_new, free, print | reading them once, at a time when the camera may be busy |
| Video and feature registers (`control.c`, `register.c`, `offsets.h`) | quadlets in the camera | getters and setters of modes, features, triggers, iso, shots, memory channels | values packed into shared registers: read, modify, write, by several programs; codes of the API that differ from the camera's by gaps; what is put together from several registers |
| AVT extensions (`vendor/avt.c`) | quadlets and a general purpose buffer in the camera | 48 getters, setters and transfers, transfers block by block | bit fields of all widths, polls without a limit, a last block that is shorter |
| Format7 (`format7.c`) | registers per mode | set image size, position, coding, packet size, set_roi, handshake | the handshake waits for the camera; set_roi writes five registers that depend on each other |
| Tables, `capture_basic_setup()` (`internal.c`, `utils.c`) | the description of a frame | size, depth, packets per frame of a mode | tables typed by hand; a product of numbers from several sources must cover the image |
| Pixel conversions (`conversions.c`) | memory of frames | 17 functions from coding to coding, convert_frames, deinterlace | routes written separately that must agree; memory reused between frames |
| Bayer decoding (`bayer.c`) | memory of frames | eight methods in 8 and 16 bits, debayer_frames | index arithmetic at borders, per tile and per parity; overshoot; overlapping tiles |
| Capture dispatch, log, other platforms, other vendors' extensions (`capture.c`, `log.c`, `macosx/`, `windows/`, `vendor/`) | see the notes in `PROJECT.json` | | |

**Interactions.** An application thread calls the API. `capture.c` dispatches to a
backend. The USB backend owns a second thread, which talks to the application's
thread by a mutex, a pipe and a flag. The Linux backends have no thread of their
own: the kernel fills buffers and the application's thread asks for them by
`ioctl` or `poll`. Capture setup calls the iso functions, `dc1394_video_*` and
the backend in one sequence. Programs on one bus interact through the resource
manager of the bus and the camera's registers; nothing in the library
coordinates them.

What makes each of them correct is listed, hazard by hazard, in `PROJECT.json`.
In short: no buffer has two owners; frames reach the application in the order
they were filled, once each; nothing waits for a thing that will not happen; what
was reserved is given back on every path; an account always tells what the
account's subject holds; a setting is what a successful call has set and no other
call disturbs; and a picture comes out of a call whole, in memory large enough, with
every colour from samples of that colour.

## 2. Modules

```
FrameRing          abstract: a ring of buffers as capture.h presents it
  ^ implemented by UsbCaptureRing (EXTENDS UsbCapture)
  ^ implemented by JujuCapture
Selection          the elements of a sequence that pass a test, in their order
RingLemmas         lemmas on Selection and on counting round a ring
UsbCapture         usb/capture.c                     UsbCaptureProofs
IsoResources       iso.c over linux/control.c
  ^ extended by IsoPrograms      programs that call iso.h by hand
  ^ extended by LinuxCapture     setup/stop of linux/capture.c,   LinuxProofs
                                 implements IsoPrograms           (of both)
JujuDevice         juju/control.c                    JujuDeviceProofs
JujuCapture        juju/capture.c                    JujuCaptureProofs
Format7            format7.c                         Format7Proofs
Quadlets           bits of a register; a call as a sequence of requests
  ^ ControlRegisters   control.c, offsets.h
  ^ AvtRegisters       vendor/avt.c
  ^ RegisterCalls      programs that make these calls (with VideoModes)
VideoModes         tables of internal.c, utils.c
Bayer              bayer.c
Conversions        conversions.c
  ^ Frames             programs that decode and convert frames (both)
                                                     FramesProofs, ValuesProofs
MC*                instances for TLC
```

Definitions named *Faulty variant* stand before the definition they differ from
and are used by no specification. They are plausible slips in the same code,
kept to see that each checked property notices one.

### UsbCapture

The variables have the names of the fields of `platform_camera_t` in `usb/usb.h`.
`inflight` is libusb's list of submitted transfers, oldest first; libusb is not in the
repository, and the model uses of it what `usb/capture.c` relies on: transfers
on one bulk endpoint finish in the order they were submitted, and callbacks run
in the thread that handles events. `held`, `oldest` and `result` describe the application.

| Code | Action |
|---|---|
| setup, entry and `capture_basic_setup()` | `SetupBegin` |
| pipe, counters, buffer, frames, context, handle, interface, mutex | `SetupAcquire(r)`, which may fail and go to stop |
| the loop over `libusb_submit_transfer()` | `SetupSubmit`: any prefix may succeed |
| `pthread_create()`, automatic start | `SetupLaunch` |
| `callback()` | `CallbackBegin` (chooses COMPLETED, short or failed), `CallbackLock`, `CallbackFill`, `CallbackNotify` |
| `capture_thread()` | `EventsReturn`, `CheckKill` |
| dequeue | `DequeueEmpty`, `DequeueBroken`, `DequeueBegin`, `DequeueRead`/`DequeueInterrupted`, `DequeueLock`, `DequeueUnexpected`/`DequeueTake` |
| enqueue | `Enqueue`, `EnqueueRefused` |
| stop | `StopBegin`, `StopKill`, `StopJoin`, `StopRelease` |

A critical section is two steps, with a register per thread for the counter that
is loaded and stored: a lost update is possible in the model if the mutex did
not exclude it. `StopRelease` is one step because no other thread exists by then;
that this is so is what `HelperHasResources` says.

`callback()` returns at once for a cancelled transfer; the library never cancels
one, so that branch is left out. Frame contents, time stamps and the corrupt-frame
test change nothing the properties speak of.

### FrameRing and UsbCaptureRing

`FrameRing` says what `capture.h` promises on every platform. `UsbCaptureRing` maps
the USB backend onto it: the queue of filled frames, which the code does not
keep, is the sequence of frames after `current` whose status is not EMPTY. A sequence that is
what passes a test of another one is written with `Selected`, which counts where `SelectSeq`
recurses, so that it can be reasoned about.

### IsoResources and IsoPrograms

One action per call of `iso.h`, for the legacy Linux backend, in which the requests
reach the IRM of the bus through libraw1394. `camera[c]` is the
account in `dc1394camera_priv_t`; `irm` is the bus; `leftover` remembers what freed
cameras left reserved. A call whose request fails changes nothing and is a
stuttering step; `ReleaseAll` and `CameraFree` consist of several requests, any
of which may fail alone. `IsoPrograms` lets programs make these calls in any
order; `OwnOnly` tells whether they release only what their camera has allocated, which
`iso.h` does not ask for. The calls themselves are `IsoCalls`, with the amounts and this choice as arguments, so that the
proofs speak of any programs and of the captures in one module.

### LinuxCapture

Setup and stop at the granularity of requests: between any two labels of `pc`
other programs act. A request either succeeds or fails; the labels
`fail_channel`, `fail_bandwidth` are the code after `fail:`. The program may also
switch the transmission by hand and free a camera whose capture is stopped. The
channel register is modelled by what `dc1394_video_set_iso_channel()` does to
it: six bits in 1394b mode, four in legacy mode.

### JujuDevice

`queue` is what `read()` of the device file will return; `juju_handle_event()` is
`HandleEvent`, split by the type of the event. The kernel's part (`BusReset` to
`ResourceLost`) follows the comments of `juju/firewire-cdev.h`; the event of a bus
reset may come later than answers that the reset has caused, which is why a
transaction may be refused several times for the same stale generation. `call` is the call in
progress: `pc` names the waiting loop, `got` and `rcode` are the fields of the
`juju_response_info` on the stack, `did` counts how often the camera has
carried out the request. A transaction that returns without its answer makes that answer an
*orphan*: it refers to a stack frame that is gone, which a later transaction may
happen to occupy again. The model lets it be taken for an answer or vanish.
The addresses of `juju_iso_info` are reused as soon as they are free, and so are the
kernel's handles.

### JujuCapture

`events` holds, for every interrupt event, the buffer that the kernel has filled. The code
does not see that number; it is there to compare it with the buffer that
dequeue hands out. `reserved` counts the iso resources that the kernel holds for the camera,
`craw.resource` whether `capture_iso_resource` points to one. The failure paths of setup go
where the code goes: before the context exists they return, then they close
it, and a context that cannot be started leaves `capture_is_set`.

### Format7

`written` holds the registers of a mode as they read back, `effective` what the
camera uses. Every request of a setter, of `dc1394_format7_set_roi()` and of the
handshake is a step, named by the label in `pc`; any of them may fail, a write
with its effect or without. The camera is the part that is not in the
repository: `CameraSettles` and `Accept` do what the comments of `format7.c`
expect of it. There are three kinds: of IIDC 1.20, of 1.30 without `Present_1`, and
with the handshake. `ask` holds the arguments of `set_roi` and is resolved as the code does it
(`QUERY_FROM_CAMERA`, `USE_MAX_AVAIL`, `USE_RECOMMENDED`). `FrameBegin` to
`FrameCoding` are the Format 7 part of `capture_basic_setup()`. The getters that no
such call uses change nothing and are left out.

### Quadlets, ControlRegisters, AvtRegisters, VideoModes, RegisterCalls

A call of `control.c` or `vendor/avt.c` is a sequence of requests that the first
failure cuts short (`DC1394_ERR_RTN`). It is an operator from the answers it has got so far to what it
does next: read, write, poll, transfer a block, or return. So each function of the
code is one short definition with the name of the function (`dc1394_` dropped)
that has the code's tests, masks, shifts and order, and setters and getters are
independent translations. A quadlet is the set of its one bits.

`RegisterCalls` runs such calls: a *scene* is a camera with a few registers and the
calls made on them by one or two programs. Requests of two programs interleave;
each may fail, a write after it has had its effect; a camera clears bits on its
own (one-push, one-shot, the memory's busy flag, a DSNU computation). `Setting(g, regs)` is what
getter `g` shows when it runs alone, and is what the properties compare: a successful setter
against its getter, a write against all other getters, `dc1394_feature_get()`
against the getters of the single settings (but for the three values of which the code
tells something else, each with a property and a configuration of its own), and the frame of
`capture_basic_setup()` against the size of the image for every fixed mode and rate. Sixteen scenes
(`MCRegisterCalls`) choose settings that share a register, arguments too large for their
field, and both camera generations.

### Bayer, Conversions, Frames

A decoder or a conversion is an operator from a picture to the samples or bytes it
stores, by their offsets. What the code walks with pointers is given by place; the 8-bit
and the 16-bit function are two definitions where the code differs. AHD chooses between
directions by distances in CIELab; the model lets it choose freely, in whatever the properties say
(`win` takes three values: one direction, the other, and a mixture).
`Frames` is about the memory: three frames, of which two are described, given memory and reused by
`Adapt_buffer_*`; `malloc()` may fail; `fresh` are the bytes that nobody has written since, `stray` those
that were stored outside. 16-bit pictures come in both byte orders and the machine in both.

Nothing in these calls looks whether a size is odd, or whether VNG and AHD got the memory they work in. A call that
reads or stores past its memory, or works without it, has the outcome `UNDEFINED`, and the model says nothing of what
a program does after it (`Defined`). `InsideMemory` says which four kinds of calls these are (`KnownUndefined`) and
that only one of them, YUV422 of a grey picture of odd width (`RowsPadded`), stores outside the image; every other call, of sizes odd and even, is held to
its memory. Where such padded rows still fit the memory of an earlier, larger picture the call goes on as in the
code. `Covered` are the pixels that a decoder stores to: all, but for the border that BILINEAR and VNG leave in 16 bits.

## 3. Runs

| Run | Shows |
|---|---|
| `usb_ordered` | For an application that returns frames in the order it got them: frames_ready, the pipe and the ring always agree; the byte that dequeue reads stands for the next frame; the backend implements `FrameRing`; stop returns and a waiting dequeue is woken. |
| `usb_owned` | For one that returns them in any order, and when threads cannot be created: no buffer has two owners, counter and pipe stay bounded by the frames that wait (so the callback never blocks on the pipe), nothing is freed under the helper, a held frame is not written. |
| `iso_programs` | No channel has two owners and nothing reserved is missing from the accounts, including failed partial releases. |
| `linux_share` | Captures of two programs never listen on the same channel if both allocated one; after any failure path of setup, and after stop, nothing stays reserved that the bus would have taken back; capture uses the iso calls as a disciplined program (refinement of `IsoPrograms`). |
| `juju_device` | Events refer to allocated structures of the right handle, even after failed reads; a transaction's request is carried out once however often it is sent; what the library believes to be allocated the kernel holds or has announced otherwise; every call returns. |
| `juju_capture` | The backend implements `FrameRing` through bus resets and failed calls; what a capture has reserved is given back; dequeue returns. |
| `format7` | No request of `set_roi` takes the camera through a region its sensor cannot have; what it reports as set the camera uses, packet size included; a frame described while registers and camera agree holds the image; every call returns although the handshake has no limit. |
| `registers` | A setter that succeeds has set what its getter shows; its write changes no other setting, although they share registers; overlapping and failing calls do not tear a setting; `dc1394_feature_get()`, but for the three values below, and `capture_basic_setup()` agree with what they are put together from; transfers by blocks move every byte. |
| `frames` | Nothing is stored outside a frame's memory but by the calls that `InsideMemory` names, nothing of the image is left out; decoders keep the samples, take colours from samples of that colour, leave a flat scene flat and store nothing that exceeds the depth; two routes of conversion to one coding agree, for even widths. |

Three runs find disagreements between the code and what the repository says of it
(`findings` in `PROJECT.json`):

| Run | The code ... |
|---|---|
| `usb_poll_blocks` | ... blocks in a POLL call while the application holds the next frame. |
| `linux_truncated` | ... gives a camera in legacy mode a channel that it cannot be programmed to. |
| `frames_downsample` | ... takes red (or blue) from a green sample when it downsamples GRBG and GBRG images of 16 bits. |

Seven more configurations, for which `PROJECT.json` lists no run, give traces of what the listed properties except,
or of behaviour that no document speaks of; TLC reports the property they name as violated:

| Configuration | The code ... |
|---|---|
| `tlc -config FramesOdd.cfg MCFrames` | ... stores a grey picture of odd width, as YUV422, past the memory it has allocated for it: two bytes for each row (`conversions.c:188`). |
| `tlc -config RegistersShading.cfg MCRegisterCalls` | ... takes red for blue and blue for red in what `dc1394_feature_get()` tells of white shading (`control.c:313`; the getter: 1093). |
| `tlc -config RegistersTarget.cfg MCRegisterCalls` | ... tells 4096 times the target temperature there (`control.c:319`; the getter: 1065). |
| `tlc -config RegistersPolarity.cfg MCRegisterCalls` | ... tells the trigger's polarity there as 0 or 1, which are not values of its type (`control.c:290`; the getter: 1643). |
| `tlc -config LinuxAutoIso.cfg MCLinuxCapture` | ... keeps channel, bandwidth and capture when setup fails in its last request. |
| `tlc -config LinuxManualIso.cfg MCLinuxCapture` | ... stops a transmission which that capture did not start. |
| `tlc -config JujuOutOfOrder.cfg JujuCapture` | ... hands out a buffer that is queued for the camera if frames came back out of order. |

Others were met on the way and need no model checker to see. Where a property
would trip over one of them, its comment says that it is excepted.

Capture and devices:

- `usb/capture.c:213`: `pthread_create()` fails with a positive number, the test is for a
  negative one; setup then succeeds without a helper thread.
- `usb/capture.c:348`: a frame whose transfer failed is returned together with
  `DC1394_FAILURE`, where line 313 announces NULL.
- `usb/capture.c:335`: if frames come back out of order, dequeue reads a byte and finds the
  "expected filled buffer" empty; the frame that was filled waits for a later byte.
- `iso.c:38`, `linux/control.c:370`: persistence is accepted after an allocation
  (`iso.h:48-50`).
- `iso.c:111`: releasing more bandwidth than the camera has allocated changes its running
  total (`iso.h:135-136`).
- `juju/capture.c:226`: if the context cannot be started, `capture_is_set` stays set with
  everything closed; neither setup nor stop succeeds any more.
- `juju/capture.c:163`: a setup that fails after `juju_iso_allocate()` keeps the resource, and the next
  setup overwrites the pointer to it.
- `juju/control.c:416`: after a failed `read()` the answer to a request that has not been
  answered may be taken for that of a later transaction.

Registers:

- `internal.c:49`: 3073 quadlets per packet where mode 76 at 120 frames/s needs 3072; the
  frame that is described is one packet short.
- `control.c`, `update_camera_info()`: the mode is used whether or not it could be read.
- `offsets.h`: the macro for absolute registers never adds the gap before `CAPTURE_SIZE`
  that those for values and inquiries add.
- `dc1394_feature_get_absolute_*()`: a failed look-up of the offset is ignored, and offset 0 is
  used; `dc1394_feature_set_absolute_value()` does not pass on the error of its write.
- `dc1394_feature_get_mode()` on the trigger reports the polarity bit as AUTO.
- `dc1394_video_set_iso_speed()` and `..._set_iso_channel()` read the register twice and may mix
  two answers.
- A setter that reads and writes back a register while a one-push is pending starts it
  again.
- `dc1394_video_get_bandwidth_usage()` uses the -1 of a missing table entry.
- `vendor/avt.c`: `get_version` stores an error code as the type of the microcontroller; several
  setters do not mask their arguments; the mask of `set_lut` clears bits outside its field;
  read and write of the shading image leave the memory's access enabled if a transfer
  fails; a buffer size of 0 makes the transfers loop for ever.
- `vendor/pixelink.c`, `set_gpio_mode_param`: what the polarity should decide is decided by the mode (line 560).

Format 7:

- A negative position is refused only after the coding was written.
- A comment says that a packet size of zero "becomes MAX_BPP"; the code makes it `unit_bytes`. If
  the camera reports zero for both, it divides by zero.
- After a position was set that does not fit, the first handshake of `set_roi` refuses a region that would.
- `ErrorFlag_2` is never looked at.

Images:

- `dc1394_debayer_frames()` reads 16-bit samples in the machine's order but describes its
  result as big-endian (`bayer.c:2112`, `video.h:132`).
- YUV422 to YUV422 takes the input for UYVY whatever the frame says.
- An odd number of pixels makes the conversions that take pixels by pairs touch bytes in front of the image, and an odd size
  makes DOWNSAMPLE read past it.
- Of odd widths, a grey picture becomes rows of one pixel more in YUV422, but not by way of RGB8.
- `calloc()` and `malloc()` in VNG and AHD are not looked at (`bayer.c:1397`, 1524, 1712, 1886).
- BILINEAR and VNG in 16 bits do not store to the border.
- Sizes below the reach of a method (4 rows for HQLINEAR, 2 for BILINEAR, 6 columns for AHD) make loops run
  away; the models use pictures large enough.
- A decoding that fails for the method or the filter has already described the output
  frame anew.

**Bounds.** The USB runs use three buffers: one in flight or in the callback, one
waiting, one held, so every relation between the three exists, and `current`
wraps around while all three differ. The
iso runs have two cameras, of different kinds, three channels of which one is
out of the legacy camera's reach, and bandwidth for three units with
requests of one and two, so requests fail for lack of either. The capture
runs have two channels of which the legacy camera can use one. In these modules nothing
in the code counts past the ring or the bus, so no counter needs a cap.
`JujuDevice` is bounded by constants: two resources at a time (one lost or orphaned, one in
use), three tries of a transaction instead of 300 (a first, a middle and a last
one), one bus reset (enough for a stale generation and for a lost resource)
and one failed read. `JujuCapture` lets two resources pile up and one bus reset wait
to be read. `Format7` has a sensor of two by two pixels, on which regions can fit, touch the
border or lie across it in each direction, and six sets of arguments that use every special value
and an unknown coding; the number of calls is not bounded. `RegisterCalls` lets every program make
one call (`MaxCalls`): a call overlaps at most one other, from all values of the scene's registers that matter;
longer histories of a register are other initial values of the next call. `Frames` has
pictures of 7x6, 8x8 and 9x10 with tiles of AHD of 8 in place of 256, so a size is odd and even in
each direction, equal to, less and more than a tile; every sample inside the border is met on all four tiles and both
parities. Pictures of 4x2 see two calls, the least in which memory is reused; so do pictures of 3x2 and 3x3, whose rows, and
whose pixels, do not go into pairs.

**Deadlock** is checked in every run but those of `RegisterCalls` and `Frames`, whose
programs make a bounded number of calls and then stop.

**Fairness.** `UsbCapture!FairSpec` assumes weak fairness of the helper thread's steps, of
the steps of a library call in progress and of the return of
`libusb_handle_events_timeout()`, which has a timeout. It assumes nothing of
the camera (`CallbackBegin`), of signals (`DequeueInterrupted`) or of the
application (the calls). So stop must return though the camera is silent, and a dequeue
has to return only if a frame is there. `JujuDevice` assumes that the kernel answers requests and that a call in
progress goes on; `JujuCapture` only the latter, and its property excludes a bus that is reset
for ever. The mutex needs no strong fairness for what is
checked: the helper's critical sections are short and it cannot fill more
frames than the ring has while the application waits. `Format7!FairSpec` assumes that a call in progress goes on and
that the camera ends what it was told to do (`CameraSettles`), without which the handshake waits for ever; no request has
to fail. `RegisterCalls` and `Frames` state no liveness: their calls are finite sequences, except
for the polls of `vendor/avt.c`, which end only if the camera does.

## 4. Proofs

| Theorem | For all constants | Module |
|---|---|---|
| `TypeCorrect` | `TypeOK` | UsbCaptureProofs |
| `BuffersExclusive` | `NoSharedBuffer` | UsbCaptureProofs |
| `NotifyIsBounded` | `NotifyBounded` | UsbCaptureProofs |
| `PipeNeverFull` | never more bytes in the pipe than buffers in the ring | UsbCaptureProofs |
| `HelperIsSafe` | `HelperHasResources` | UsbCaptureProofs |
| `FramesAreNotified` | `EveryFrameNotified`, if frames are returned in order | UsbCaptureProofs |
| `NextFrameIsReady` | `NextFrameReady`, if frames are returned in order | UsbCaptureProofs |
| `HeldAreStable` | `HeldFramesStable`, in any order | UsbCaptureProofs |
| `RingImplemented` | `ImplementsRing`: both threads implement `FrameRing`, if frames are returned in order | UsbCaptureProofs |
| `IsoTypeCorrect` | `IsoTypeOK`, whatever is asked for and released | LinuxProofs |
| `ChannelsStayExclusive` | `ChannelsExclusive`, if programs release what is their own | LinuxProofs |
| `BooksBalance` | `EverythingAccounted`, if programs release what is their own | LinuxProofs |
| `LinuxTypeCorrect` | `LinuxTypeOK` | LinuxProofs |
| `LinuxImplementsIso` | `ImplementsIso`: the captures implement `IsoPrograms` with `OwnOnly` | LinuxProofs |
| `StoppedHoldsNothing` | `NothingHeldWhenStopped` | LinuxProofs |
| `CapturesStayApart` | `CapturesApart`, if no camera that knows 1394b runs in legacy mode | LinuxProofs |
| `JujuTypeCorrect` | `JujuTypeOK` | JujuCaptureProofs |
| `ReservedOnce` | `ReservedByCapture` | JujuCaptureProofs |
| `HeldStayOut` | no frame that the application holds is queued, if frames are returned in order | JujuCaptureProofs |
| `RingImplemented` | `ImplementsRing`: the backend implements `FrameRing`, if frames are returned in order | JujuCaptureProofs |
| `DeviceTypeCorrect` | every variable of `JujuDevice` keeps its type | JujuDeviceProofs |
| `ClosuresValid` | `IsoClosuresValid` | JujuDeviceProofs |
| `AllocatedStaysKnown` | `AllocatedIsKnown` | JujuDeviceProofs |
| `DoneAtMostOnce` | `DoneOnce` | JujuDeviceProofs |
| `F7TypeCorrect` | `F7TypeOK` | Format7Proofs |
| `RoiIsSet` | `SuccessMeansSet` | Format7Proofs |
| `RegionsPossible` | `NoImpossibleState` | Format7Proofs |
| `FramesHoldImages` | `FrameHoldsImage` | Format7Proofs |
| `PacketSizesTaken` | `PacketSizeTaken` | Format7Proofs |
| `NothingOutside` | `InsideMemory`: four kinds of calls are undefined, and no other stores outside | FramesProofs |
| `NothingLeftOut` | `ImageComplete` | FramesProofs |
| `SamplesStay` | `SamplesKept` | FramesProofs |
| `ColoursStay` | `ColoursFromSamples` | FramesProofs |
| `RoutesMeet` | `RoutesAgree`, of even widths | FramesProofs |
| `DepthStays` | `DepthKept`, of what a decoder has stored | ValuesProofs |
| `FlatStays` | `FlatSceneKept` | ValuesProofs |

**USB.** Assumed: `NumFrames` is a positive number, `Discipline` one of its two
values. None of the invariants is inductive alone. `Inv` joins `TypeOK`, what is true
in which phase of setup and stop (`PhasesOK`: which resources exist when each
thread is where), what is true while no capture exists (`QuietOK`), who is
in which critical section and that its register holds the counter's value
(`MutexOK`), who owns each buffer (`OwnersOK`: submitted and processed frames
are EMPTY, held ones are not) and `NotifyBounded`. `MutexOK` is what makes
`NotifyBounded` inductive: without it, a stored register could undo the other
thread's update. `OwnersOK` is what makes an
unlocked test of the status in enqueue enough. `PipeNeverFull` follows from
`NotifyBounded` and the cardinality of the ring. `HeldFramesStable`, an action property, follows from
`OwnersOK`: the frame that the callback fills is not a held one.

The relations of the ordered discipline rest on `RingInv`. How far a frame is from the next one that
dequeue waits for is `Pos`, a distance round the ring. `InRingOrder` says that, going round, first come the
filled frames that wait, then those the camera or the callback has, then those the application holds, each group in order;
and that no frame is missing unless `queue_broken` is set, in which case no dequeue starts. `FreshRing` is what setup has
prepared of it at each label. With it the next frame is filled exactly if any is, which is `NextFrameReady`, and
`EveryFrameNotified`, a count, changes by one frame at a time. `RingImplemented` gives for each step of either thread the step
of `FrameRing` it is, or a stutter; it needs that taking the head of the ring, filling the first frame of the second group and
returning the first of the third do to the sequence `Ready` what `Tail` and `Append` do (`RingLemmas`).

**Isochronous resources.** Assumed: finitely many cameras, and numbers for the
sizes. `IsoTypeOK` is inductive. `ChannelsExclusive` needs
`ChannelsAccounted`: that a channel the IRM reports as free is in nobody's account
follows only if every account is contained in what is reserved. Each call of the
API is shown to take, give back or leave channels (lemmas `SameChannels`,
`GivesBack`), and the two facts are preserved by these. What the accounts hold of the bandwidth is a sum over the
cameras, which a fold would make a matter of induction. The proof counts instead: `Booked` is the set of pairs of an
account and one of its units, and a call that changes one account changes the number of pairs by as much (`OneAccountChanges`).

**Linux capture.** Assumed: what IsoResources assumes, and that the amounts of bandwidth
are positive. `OwnInv` says that a capture that still has its channel (`Owns`) finds
it in its camera's account, and that a stop is never in progress with the capture set up;
with it every request is one of `IsoCalls` on what is the camera's own, or a
stutter, which is the refinement (`SameSteps` says that the instance `Iso` has the same
calls). The books of channels then balance for the captures too. Two strengthenings rest on them. `ExactInv`: as long as the bus has refused nothing, the account is what
the capture remembers, at every request, so that the common tail of stop and of a failed setup empties it;
it needs the books because a channel that is not in use at the IRM is skipped by the tail.
`TunedInv`: from the allocation to the end of the capture the register and
`iso_channel` are the channel allocated; two captures are apart because no channel is in two
accounts. It needs `NoneCapable`: the run `linux_truncated` shows that it fails without.

**Juju capture.** Assumed: `NumFrames` is a positive number, `MaxReserved` a number. That the kernel holds
one resource exactly while `craw.resource` is set is not inductive: a setup would raise a flag that an
earlier capture has left. `OwnedOK` says at which labels `capture_is_set` is up, and that without a capture the
flag is down wherever the next setup may start, unless something has failed. `CountOK` says that a flag
that is up stands for a resource even then, so that giving it back never takes more than there is.
The ring is simpler than that of the USB backend, since one thread works on it: the frames whose events wait, followed by those queued
in the kernel, are the next ones of the ring without a gap, and the application holds the others (`RingIs`); `ContextOK` says
what of this is true while the context is not running. `HeldStayOut` and the refinement follow.

**Juju device.** Assumed: finitely many handles and structures, numbers for the limits. What is true of a structure depends on what the
kernel still has to tell of it. `KnownOK` and `AskedOK` list the cases: the kernel has the resource and nothing is in the
queue; it is gone and the event that says so is the only one; the allocation is still to be told, perhaps with its loss after it.
`UniqueOK` and `ApartOK` are about handles that are used again: the loss of the old resource is in the queue
before anything about the new one, so that the event, which is matched by closure, cannot be mistaken. `DoneOnce` follows from `Trying`, which holds until a
read fails: of a request, a response in the queue and an answer already got, exactly one exists for the try that waits, and it tells
what the camera has done.

**Format 7.** Assumed: the sensor has a positive size, codings are positive numbers, arguments are
integers. `Inv` joins the types; `CameraInv`: what the camera uses always fits the sensor and has a
packet size it takes or none, and without the handshake it is what the registers say; `CallInv`:
which facts hold at which label, above all that a handshake that has been answered without `ErrorFlag_1`
leaves the camera with the registers; and `RoiInv`: how far the registers of `set_roi` have come at
each label, with the arguments resolved so far. `SuccessMeansSet` is the end of `RoiInv`. `NoImpossibleState` follows step
by step: position zero fits with any size that does, and the size that is written next
fits with it and with the position after it. `PacketInv` adds that the number chosen is a multiple of the unit within the
camera's limit, `FrameInv` that the packets counted by the code's division cover the bytes
of the image; both rest on a few lemmas about quotients and remainders.

**Images.** Assumed: what is captured is described as `capture_basic_setup()` does it (`FramesAssumption`), and a tile of AHD is larger than what two
of them overlap by. Every conversion and every decoder is reduced to the set of offsets it stores to. For a decoder that is a matter of geometry:
that the rows and columns a kernel reaches and the border that is cleared make up the picture (`LastJoins`, `BordersJoin`, for the
sums that the code's loops over the border run through), that the tiles of AHD meet (`TilesMeet`), and that halving a picture leaves no gap. `Adapted` says that
whatever a frame was before, `Adapt_buffer_*` leaves it with no memory or with room for its image and the padding, and with the padding in its place.
`Stores` joins the two: stores that stay in the image stay in the memory, and stores to all of it leave none of it fresh. `Inv` is
inductive; it says of each frame that its memory is what its description says, and of each result that it is complete as long as neither it nor what it was made of
has changed. Sizes are those the actions ask for: more than four columns and more than three rows to decode (six columns for AHD), any to convert. A call whose stores do
not stay in the memory ends undefined (`Stored8Cases`); that this is left to the four kinds of calls is shown coding by coding, by the offsets a conversion stores to of odd widths too.

`SamplesStay` is about values, and needs of the assumption also that a depth is a number. Where a sample goes is a
matter of arithmetic: the offset of a component, the pixel of an offset (`PlaceOffset`, `ComponentOf`). That it goes there as the right
component is a matter of three ways to name a colour, which agree with the letters of the tile: dcraw's bit pattern (`ColourCode`), and
OpenCV's `start_with_green` and `blue`, from row to row (`ColourStep`). Each decoder then stores the sample itself, or clips it
to the depth, which does nothing to a sample that fits (`ClipKeeps`); VNG and AHD do so through all their passes. `HostBytesBack` says that a
sample stored as bytes in the order of the host is read back.

`ColoursStay` goes the same way. What a kernel mixes is a sample or a mean of two or four (`MeanOfTwo`, `MeanOfFour`), so that it lies
between two of them. What has to be shown is that they are all of the colour they are taken for: `ColoursAround` gives the colours of
the nine samples around a pixel in OpenCV's terms, `TileColours` those of a tile in Coriander's. That a mean passes the limit of the depth
needs that a power of two is a number; it is the number of subsets of a finite set (`PowerNat`).

`RoutesMeet` says of each way what the picture at its end shows. `Grey` is a value for each pixel, in whichever coding: every conversion
of a grey picture shows the same values (`GreyStep`), because the arithmetic of both directions leaves grey as it is (`GreyColours`) and the positions of
a pixel's bytes are read as they are written, in either order (`ReadPacked`); two pictures of the same values, coding and order are the
same bytes (`GreyAlike`). YUV411 is luma and chroma that YUV422 holds unchanged (`Packs411`), RGB16 is cut to 8 bits first by either way (`DeepWay`).
`RouteInv` is the inductive part: as long as a conversion counts as made, the second frame holds what the code would store for the first one (`Shows`). It needs the
assumption that of 16 bits a camera uses 8 at least, since the conversions shift by what is above 8, and that the direct conversion cannot fail (`DirectBytes`).

`DepthStays` needs what the mean of a border pixel of AHD and the gradients of VNG are, sums over neighbourhoods that `Total` adds up with a recursive
function. What holds of such a sum is proved by induction in the form of a least counterexample (`NatLeast`, `UpTo`): there is a function that adds up
(`SumsExist`), `Total` gives its values (`TotalSums`), and a sum of terms between two bounds lies between the sums of the bounds (`TotalBetween`). So the
mean of the border lies between two of its samples (`MeanBetween`), a gradient is a number and some gradient is within the threshold (`SomeNear`), so that VNG never divides by
none. The kernels that overshoot are clipped (`ClipFits`); the rest are means. In 16 bits VNG reads what the bilinear pass has left of the old picture, which may be
deeper than this one; what it stores is clipped all the same (`VNGFits` keeps the two depths apart). `BytesInv`, the inductive part, says that all frames hold
bytes, the host's and the packed ones, and that a decoded frame still has the depth its samples had: the assumption here is that a camera uses at most the 16 bits there are.

`FlatStays` is where the decoders' weights have to add up. A frame in which each colour has one value (`FlatFrame`) is a picture `Flat` to the decoders, and each
decoder, at each pixel within its `Interior`, stores those three values (`DecodersFlat`). For a mean that follows from what it mixes, all of one colour (`MixedFlat`). The kernels of
HQLINEAR take the colours of 25 samples, alternately added and subtracted, and come to eight times the value they stand for (`HQPixelFlat`): a wrong sign or weight, or a sample
of another colour, would show. VNG starts from a bilinear picture in which no gradient sees a difference, so that all are zero and every
neighbour is averaged (`GradientsFlat`, `VNGRowsFlat`). AHD limits the green it interpolates by its two green neighbours, which are equal (`AHDGreenFlat`), so that in both
directions the other colours differ from it by what the scene's do (`AHDColourFlat`), whichever direction looks smoother (`AHDCombineFlat`).

**Model-checked only.** Liveness, which is out of this prover's reach. The
properties of `RegisterCalls`: what a getter shows is a recursive function over the answers, and what a field of bits shows as a
number is a sum over its bits.

## 5. Not modelled

- *Enumeration* (`enumeration.c`), creation of a camera: one pass by one thread over lists and a
  ROM, without retries. What may differ between two passes, a bus reset, is decided by identifiers of the
  kernel, which is not in this repository.
- *Bus resets and the death of a program* as far as reservations on the bus go: the kernel returns or renews them.
- *Dequeue and enqueue under video1394* (`linux/capture.c`): one `ioctl` each; the ring is
  kept by the driver.
- *USB register access* (`usb/control.c`): one control transfer per access, no
  retries.
- *Mac OS X, Windows*: the ring is kept by IOKit's DCL programs or the CMU driver, which are not in the repository. The
  code's own part on Mac OS X, a helper thread and a pipe, is that of the USB backend.
- *Vendors other than AVT*: Basler's smart features are look-ups of single registers in tables; of
  Pixelink's GPIO functions check a mode against an inquiry and write a few registers once.
- *Utilities*: checksums and predicates on modes. *Log*: replaceable handlers that format text.
  *Capture dispatch*: seven wrappers. *Examples*: programs that use the library.
- Getters of Format 7 that no call of the model uses, strobe, PIO and SIO offsets: single accesses of the kind
  that `ControlRegisters` has dozens of.
- Memory exhaustion inside libusb; time stamps.
- Three simplifications that no property depends on: the search for a free channel takes the lowest one in a single step,
  where the code asks for one channel after the other; `dc1394_video_get_data_depth()` and `..._get_bandwidth_usage()`
  are those of the fixed modes; the query of where a mode's Format 7 registers are, once per mode, is left out, and with it that a
  write goes on when that query has failed.

## 6. Plan

Done, in this order: the USB backend; the isochronous resources and the legacy Linux
capture on top; the Juju device and capture; Format 7; registers; images. Left, most
worthwhile first:

1. Lemmas on `Quadlets` (what `Slice` shows of an `Insert`, disjoint fields) from which
   the getter of each single-register setting shows what its setter has written.
