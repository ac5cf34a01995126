------------------------------- MODULE Hal3on1 -------------------------------
(***************************************************************************)
(* The camera adapter: requests of the HAL3 interface are served from the  *)
(* callbacks of a HAL1 camera.  The request thread of the framework and    *)
(* the one notifier thread of HAL1 hand over pictures and recording frames *)
(* in single slots (jpeg, video_buffer) without a lock: the callback fills *)
(* the slot and spins until the request thread has emptied it, the request *)
(* thread spins until it is full.  flush comes from a third thread.        *)
(*                                                                         *)
(* HAL1 itself is external: it takes one picture at a time and only while  *)
(* previewing, and may stop the preview for it (without "zsl"); it lends   *)
(* recording frames from a pool; its calls that fail are ignored by the    *)
(* adapter.                                                                *)
(***************************************************************************)
EXTENDS Naturals, Sequences

CONSTANTS Requests,     \* [still, outputs, settings]: what the framework may ask for
          Frames,       \* HAL1's pool of recording frames
          Keys, Values, \* HAL1's parameters
          Late,         \* the keys a request sets after its parameters were sent once
          Settings,     \* what requests set: values of some of the keys
          Recording,    \* what the start of a recording sets
          Default,      \* the parameters of a HAL1 device that has been opened
          None

Outputs    == {"preview", "video", "blob"}
Parameters == [Keys -> Values \cup {None}]

ASSUME CameraAssumption ==
    /\ Requests \subseteq [still : BOOLEAN, outputs : Seq(Outputs), settings : Settings]
    /\ \A r \in Requests :
          r.outputs # <<>> /\ (r.still => \E k \in 1..Len(r.outputs) : r.outputs[k] = "blob")
    /\ \A s \in Settings \cup {Recording} :
          DOMAIN s \subseteq Keys /\ \A k \in DOMAIN s : s[k] \in Values
    /\ Late \subseteq Keys /\ DOMAIN Recording \cap Late = {}
    /\ Default \in Parameters /\ None \notin {"own", "old"}

VARIABLES
    device,                   \* the HAL3 device: closed, open or configured
    pc, request, i,           \* the request thread in process_capture_request
    notifier,                 \* HAL1's thread: idle, or in a callback
    hal1, recording, picture, \* HAL1: what it is doing, the picture it takes
    lent,                     \* HAL1: where its recording frames are
    compressed,               \* HAL1: CAMERA_MSG_COMPRESSED_IMAGE is enabled
    hal1_params,              \* the parameters HAL1 was last given
    current_params, previous_params,
    served,                   \* the requests since the configuration: 0, 1 or more
    buffer, preview_really_started,
    stale,                    \* it was set by a frame that is in an earlier buffer
    jpeg, jpeg_size,
    video_buffer, video_buffer_size, video_stream,
    copied                    \* the recording frame the request has copied

params  == <<hal1_params, current_params, previous_params, served>>
preview == <<buffer, preview_really_started, stale>>
slots   == <<jpeg, jpeg_size, video_buffer, video_buffer_size>>
camera  == <<hal1, recording, picture, lent, compressed>>
thread  == <<pc, request, i, copied>>
vars    == <<device, thread, notifier, camera, params, preview, slots, video_stream>>

Empty == [k \in Keys |-> None]

Init ==
    /\ device = "closed"
    /\ pc = "idle" /\ request = None /\ i = 1 /\ copied = None
    /\ notifier = "idle"
    /\ hal1 = "stopped" /\ recording = FALSE /\ picture = None /\ compressed = FALSE
    /\ lent = [f \in Frames |-> "home"]
    /\ hal1_params = Default /\ served = 0
    /\ current_params = Empty /\ previous_params = Empty
    /\ buffer = "none" /\ preview_really_started = FALSE /\ stale = FALSE
    /\ jpeg = None /\ jpeg_size = 0
    /\ video_buffer = None /\ video_buffer_size = 0 /\ video_stream = FALSE

-----------------------------------------------------------------------------
(* The adapter is allocated and zeroed; current_params and previous_params *)
(* are globals.                                                            *)
camera_device_open ==
    /\ device = "closed"
    /\ device' = "open"
    /\ hal1' = "stopped" /\ recording' = FALSE /\ picture' = None /\ compressed' = FALSE
    /\ lent' = [f \in Frames |-> "home"]
    /\ hal1_params' = Default /\ served' = 0
    /\ buffer' = "none" /\ preview_really_started' = FALSE /\ stale' = FALSE
    /\ jpeg' = None /\ jpeg_size' = 0
    /\ video_buffer' = None /\ video_buffer_size' = 0 /\ video_stream' = FALSE
    /\ UNCHANGED <<thread, notifier, current_params, previous_params>>

(* HAL1's close ends its notifier thread, so it waits for a callback.      *)
camera3_close ==
    /\ device # "closed" /\ pc = "idle" /\ notifier = "idle"
    /\ device' = "closed" /\ hal1' = "stopped" /\ recording' = FALSE
    /\ UNCHANGED <<thread, notifier, picture, lent, compressed, params, preview, slots,
                   video_stream>>

(* HAL1 starts its preview unless it is busy with a picture.               *)
started(state) == IF state = "capturing" THEN state ELSE "previewing"

(***************************************************************************)
(* configure_streams: a new buffer, the parameters HAL1 reports, the       *)
(* preview.  HAL1 reports those it has, or its own once it was released.   *)
(* A frame the notifier is copying is left in the old buffer, and the      *)
(* frames counted until the preview has been started do not count.         *)
(***************************************************************************)
camera3_configure_streams(hasVideo) ==
    /\ device # "closed" /\ pc = "idle"
    /\ device' = "configured" /\ pc' = "configuring"
    /\ video_buffer_size' = IF hasVideo THEN 0 ELSE video_buffer_size
    /\ buffer' = "raw" /\ notifier' = IF notifier = "frame" THEN "stale" ELSE notifier
    /\ hal1_params' \in {hal1_params, Default} /\ current_params' = hal1_params' /\ served' = 0
    /\ hal1' = started(hal1)
    /\ UNCHANGED <<request, i, copied, recording, picture, lent, compressed, previous_params,
                   preview_really_started, stale, jpeg, jpeg_size, video_buffer,
                   video_stream>>

awaitPreview ==
    /\ pc = "configuring"
    /\ pc' = "idle" /\ preview_really_started' = FALSE /\ stale' = FALSE
    /\ UNCHANGED <<device, request, i, copied, notifier, camera, params, buffer, slots,
                   video_stream>>

(***************************************************************************)
(* process_capture_request begins: the settings are added to the current   *)
(* parameters.  HAL1 is given all of them before the late keys are set,    *)
(* and again if they differ then from those of the last request.  A still  *)
(* capture takes a picture.                                                *)
(***************************************************************************)
set(parameters, keys, settings) ==
    [k \in Keys |-> IF k \in keys \cap DOMAIN settings THEN settings[k] ELSE parameters[k]]

onlyIfChanged(settings) ==
    LET new == set(current_params, Keys, settings)
    IN /\ hal1_params' = IF new # previous_params THEN new ELSE hal1_params
       /\ current_params' = new /\ previous_params' = new

set_parameters(settings) ==
    LET early == set(current_params, Keys \ Late, settings)
        new   == set(early, Late, settings)
    IN /\ hal1_params' = IF new # previous_params THEN new ELSE early
       /\ current_params' = new /\ previous_params' = new

(* A picture is the request's own or that of an earlier one.               *)
aged(p) == IF p = "own" THEN "old" ELSE p

take_picture ==
    IF hal1 = "previewing" /\ picture = None /\ notifier # "jpeg"
    THEN hal1' \in {"capturing", "previewing"} /\ picture' = "own"
    ELSE UNCHANGED hal1 /\ picture' = aged(picture)

process_capture_request(r) ==
    /\ device = "configured" /\ pc = "idle"
    /\ request' = r /\ i' = 1 /\ pc' = "output"
    /\ set_parameters(r.settings) /\ served' = (IF served = 0 THEN 1 ELSE 2)
    /\ \/ r.still /\ compressed' = TRUE /\ take_picture
       \/ ~ r.still /\ UNCHANGED <<compressed, hal1>> /\ picture' = aged(picture)
    /\ jpeg' = aged(jpeg)
    /\ UNCHANGED <<device, copied, notifier, recording, lent, preview, jpeg_size,
                   video_buffer, video_buffer_size, video_stream>>

Output == request.outputs[i]

(* The next output, or the result.                                         *)
nextOutput ==
    IF i < Len(request.outputs) THEN i' = i + 1 /\ pc' = "output" ELSE i' = 1 /\ pc' = "idle"

ends == nextOutput /\ request' = request /\ copied' = None

(* The JPEG is copied and the slot emptied.                                *)
slotKept == UNCHANGED jpeg_size
slotEmptied == jpeg_size' = 0

copyJpeg ==
    /\ pc = "output" /\ Output = "blob" /\ jpeg_size # 0
    /\ slotEmptied
    /\ compressed' = FALSE
    /\ ends
    /\ UNCHANGED <<device, notifier, hal1, recording, picture, lent, params, preview, jpeg,
                   video_buffer, video_buffer_size, video_stream>>

copyPreview ==
    /\ pc = "output" /\ Output = "preview" /\ preview_really_started
    /\ ends
    /\ UNCHANGED <<device, notifier, camera, params, preview, slots, video_stream>>

(* The first video output starts the recording, with parameters of its     *)
(* own; then the recording is noted.                                       *)
start_recording ==
    /\ pc = "output" /\ Output = "video" /\ preview_really_started
    /\ IF video_stream
       THEN pc' = "video" /\ UNCHANGED <<hal1_params, current_params, recording>>
       ELSE /\ pc' = "recording" /\ recording' = (hal1 = "previewing")
            /\ current_params' = set(current_params, Keys, Recording)
            /\ hal1_params' = current_params'
    /\ UNCHANGED <<device, request, i, copied, notifier, hal1, picture, lent, compressed,
                   previous_params, served, preview, slots, video_stream>>

recordingStarted ==
    /\ pc = "recording"
    /\ pc' = "video" /\ video_stream' = TRUE
    /\ UNCHANGED <<device, request, i, copied, notifier, camera, params, preview, slots>>

copyVideoAndEmpty ==
    /\ pc = "video" /\ video_buffer_size # 0
    /\ copied' = video_buffer /\ pc' = "release" /\ video_buffer_size' = 0
    /\ UNCHANGED <<device, request, i, notifier, camera, params, preview, jpeg, jpeg_size,
                   video_buffer, video_stream>>

copyVideo ==
    /\ pc = "video" /\ video_buffer_size # 0
    /\ copied' = video_buffer /\ pc' = "release"
    /\ UNCHANGED <<device, request, i, notifier, camera, params, preview, slots,
                   video_stream>>

release_recording_frame ==
    /\ pc = "release"
    /\ lent' = [lent EXCEPT ![video_buffer] = "home"]
    /\ pc' = "empty"
    /\ UNCHANGED <<device, request, i, copied, notifier, hal1, recording, picture, compressed,
                   params, preview, slots, video_stream>>

emptyVideo ==
    /\ pc = "empty"
    /\ video_buffer_size' = 0
    /\ ends
    /\ UNCHANGED <<device, notifier, camera, params, preview, jpeg, jpeg_size, video_buffer,
                   video_stream>>

(***************************************************************************)
(* flush, at any moment: the recording or the picture is given up and HAL1 *)
(* releases what it has, a recording that is not noted yet or not.         *)
(***************************************************************************)
camera3_flush ==
    /\ device = "configured"
    /\ hal1' = "released" /\ picture' = None /\ video_stream' = FALSE
    /\ recording' \in IF video_stream THEN {FALSE} ELSE {FALSE, recording}
    /\ lent' = [f \in Frames |-> IF lent[f] = "lent" /\ ~ recording' THEN "reclaimed" ELSE lent[f]]
    /\ compressed' = (compressed /\ video_stream)
    /\ UNCHANGED <<device, thread, notifier, params, preview, slots>>

-----------------------------------------------------------------------------
(* Callbacks of the notifier thread.                                       *)
previewFrame ==
    /\ notifier = "idle" /\ hal1 = "previewing" /\ buffer # "none"
    /\ notifier' = "frame" /\ buffer' = "filled"
    /\ UNCHANGED <<device, thread, camera, params, preview_really_started, stale, slots,
                   video_stream>>

frameCounted ==
    /\ notifier \in {"frame", "stale"}
    /\ notifier' = "idle" /\ preview_really_started' = TRUE
    /\ stale' = (stale \/ notifier = "stale")
    /\ UNCHANGED <<device, thread, camera, params, buffer, slots, video_stream>>

compressedImage ==
    /\ notifier = "idle" /\ picture # None /\ compressed /\ buffer # "none"
    /\ notifier' = "jpeg"
    /\ jpeg' = picture /\ jpeg_size' = 1 /\ picture' = None
    /\ UNCHANGED <<device, thread, hal1, recording, lent, compressed, params, preview,
                   video_buffer, video_buffer_size, video_stream>>

(* HAL1 sometimes calls back with a buffer that is none.                   *)
invalidImage ==
    /\ notifier = "idle" /\ picture # None /\ compressed
    /\ picture' = None
    /\ UNCHANGED <<device, thread, notifier, hal1, recording, lent, compressed, params,
                   preview, slots, video_stream>>

onlyStops == hal1' = "stopped"
start_preview == hal1' = "previewing"

(* The JPEG has been taken: the preview is stopped, with a picture that    *)
(* HAL1 may be taking, and started; only then are its frames waited for    *)
(* again.                                                                  *)
restartPreview ==
    /\ notifier = "jpeg" /\ jpeg_size = 0
    /\ notifier' = "restarted"
    /\ start_preview /\ picture' = None
    /\ UNCHANGED <<device, thread, recording, lent, compressed, params, preview, slots,
                   video_stream>>

leaveJpeg ==
    /\ notifier = "restarted"
    /\ notifier' = "idle" /\ preview_really_started' = FALSE /\ stale' = FALSE
    /\ UNCHANGED <<device, thread, camera, params, buffer, slots, video_stream>>

hal1_data_timestamp_callback(f) ==
    /\ notifier = "idle" /\ recording /\ lent[f] # "lent"
    /\ notifier' = "video"
    /\ lent' = [lent EXCEPT ![f] = "lent"]
    /\ video_buffer' = f /\ video_buffer_size' = 1
    /\ UNCHANGED <<device, thread, hal1, recording, picture, compressed, params, preview,
                   jpeg, jpeg_size, video_stream>>

leaveVideo ==
    /\ notifier = "video" /\ video_buffer_size = 0
    /\ notifier' = "idle"
    /\ UNCHANGED <<device, thread, camera, params, preview, slots, video_stream>>

-----------------------------------------------------------------------------
RequestThread == copyJpeg \/ copyPreview \/ start_recording \/ recordingStarted \/ copyVideo
                    \/ release_recording_frame \/ emptyVideo \/ awaitPreview

Framework == \/ camera_device_open \/ camera3_close \/ camera3_flush
             \/ \E v \in BOOLEAN : camera3_configure_streams(v)
             \/ \E r \in Requests : process_capture_request(r)

videoFrame == \E f \in Frames : hal1_data_timestamp_callback(f)

Notifier == previewFrame \/ frameCounted \/ compressedImage \/ invalidImage \/ restartPreview
                \/ leaveJpeg \/ videoFrame \/ leaveVideo

Next == RequestThread \/ Framework \/ Notifier

(* HAL1 queues what it has to call back with, so neither a picture nor a   *)
(* recording frame is kept back by preview frames for ever.                *)
Spec == /\ Init /\ [][Next]_vars
        /\ WF_vars(RequestThread)
        /\ WF_vars(previewFrame) /\ SF_vars(compressedImage) /\ SF_vars(videoFrame)
        /\ WF_vars(frameCounted \/ restartPreview \/ leaveJpeg \/ leaveVideo)

-----------------------------------------------------------------------------
(* The threads, HAL1 and the slots.                                        *)
TypeOK ==
    /\ device \in {"closed", "open", "configured"}
    /\ pc \in {"idle", "configuring", "output", "recording", "video", "release", "empty"}
    /\ request \in Requests \cup {None} /\ i \in Nat \ {0}
    /\ notifier \in {"idle", "frame", "stale", "jpeg", "restarted", "video"}
    /\ hal1 \in {"stopped", "previewing", "capturing", "released"}
    /\ recording \in BOOLEAN /\ compressed \in BOOLEAN /\ picture \in {None, "own", "old"}
    /\ lent \in [Frames -> {"home", "lent", "reclaimed"}]
    /\ {hal1_params, current_params, previous_params} \subseteq Parameters /\ served \in 0..2
    /\ buffer \in {"none", "raw", "filled"} /\ preview_really_started \in BOOLEAN
    /\ stale \in BOOLEAN
    /\ jpeg \in {None, "own", "old"} /\ jpeg_size \in 0..1
    /\ video_buffer \in Frames \cup {None} /\ copied \in Frames \cup {None}
    /\ video_buffer_size \in 0..1 /\ video_stream \in BOOLEAN

(***************************************************************************)
(* The picture a request finds in the slot is the one it has taken, never  *)
(* that of an earlier request: whatever the order of the spinning threads, *)
(* of flushes, reconfigurations and failed captures, no picture is left in *)
(* the slot (hal1_data_callback and process_capture_request).  A preview   *)
(* output is not copied from the buffer that configure_streams has just    *)
(* allocated before a frame was written to it (preview_really_started).    *)
(* The exception: a frame that was copied into the old buffer and counted  *)
(* only after configure_streams has cleared the flag.                      *)
(***************************************************************************)
PictureIsOwn == pc = "output" /\ Output = "blob" /\ jpeg_size # 0 => jpeg = "own"
OnlyFilledFrames ==
    pc = "output" /\ Output = "preview" /\ preview_really_started => buffer = "filled" \/ stale
OutputIsOwn == PictureIsOwn /\ OnlyFilledFrames

(***************************************************************************)
(* The recording frame given back to HAL1 is the one that has been copied, *)
(* and has not been given back before; the callback does not replace it in *)
(* between (release_recording_frame before video_buffer_size = 0).         *)
(***************************************************************************)
FrameReleasedOnce == pc = "release" => copied = video_buffer /\ lent[video_buffer] # "home"

(***************************************************************************)
(* While a request is served, HAL1 works with the settings of the request, *)
(* although the late ones are not sent if nothing seems to have changed    *)
(* since the last request, which may have been to another HAL1 device or   *)
(* before a recording.  The exceptions: late settings of the first request *)
(* after a configuration, and what a recording sets once the request has   *)
(* come to its video output.                                               *)
(***************************************************************************)
Serving == pc \in {"output", "recording", "video", "release", "empty"}

NotSent(k) == k \in Late /\ served = 1
Overridden(k) == k \in DOMAIN Recording /\ \E j \in 1..i : request.outputs[j] = "video"

OwnSettings ==
    Serving => \A k \in DOMAIN request.settings :
        hal1_params[k] = request.settings[k] \/ NotSent(k) \/ Overridden(k)

(* What the request thread spins for.                                      *)
AwaitsPreview == pc = "output" /\ Output # "blob" /\ ~ preview_really_started
AwaitsJpeg    == pc = "output" /\ Output = "blob" /\ jpeg_size = 0
AwaitsVideo   == pc = "video" /\ video_buffer_size = 0

(* Each thread spins for the other, on different slots.                    *)
Crossed ==
    \/ notifier = "jpeg" /\ jpeg_size # 0 /\ (AwaitsPreview \/ AwaitsVideo)
    \/ notifier = "video" /\ video_buffer_size # 0 /\ (AwaitsPreview \/ AwaitsJpeg)

(* The request waits for a picture that nobody is taking.                  *)
NoPicture == AwaitsJpeg /\ picture = None

(* It waits for a frame, and the recording has not started, has been       *)
(* stopped, or has no frame left to lend.                                  *)
NoRecording == AwaitsVideo /\ (~ recording \/ \A f \in Frames : lent[f] = "lent")

(* It waits for a preview that a flush or a lost picture has ended.        *)
NoPreview ==
    AwaitsPreview /\ hal1 \in {"released", "capturing"} /\ notifier = "idle" /\ picture = None

(***************************************************************************)
(* Every request returns, but for these cases: the threads wait for one    *)
(* another, or what the request waits for has not been started or has been *)
(* given up.                                                               *)
(***************************************************************************)
RequestReturns ==
    pc # "idle" ~> (pc = "idle" \/ Crossed \/ NoPicture \/ NoRecording \/ NoPreview)

-----------------------------------------------------------------------------
(***************************************************************************)
(* What one would expect of the adapter and the code does not do.          *)
(***************************************************************************)
NeverCrossed == ~ Crossed
AlwaysAPicture == ~ (NoPicture /\ request.still)

(* No preview is copied from a buffer that is not filled, whatever crosses *)
(* the configuration.                                                      *)
AlwaysFilled == pc = "output" /\ Output = "preview" /\ preview_really_started => buffer = "filled"

(* The settings of a request are in effect from its first output on: not   *)
(* the late ones of the first request to a camera that was reopened, if    *)
(* they make the parameters what they were before.                         *)
SettingsApplied ==
    pc = "output" /\ i = 1 =>
        \A k \in DOMAIN request.settings : hal1_params[k] = request.settings[k]

(* A request is served with nothing that an earlier one has set.           *)
NoCarryOver ==
    pc = "output" /\ i = 1 => \A k \in Keys \ DOMAIN request.settings : hal1_params[k] = Default[k]

(* A recording frame is not read after the recording has been stopped.     *)
NotReadAfterStop == pc = "release" => lent[copied] = "lent"
=============================================================================
