--------------------------- MODULE Hal3on1Proofs ----------------------------
(***************************************************************************)
(* Proofs about the camera adapter, for any requests, any pool of          *)
(* recording frames and any settings: what a request hands out is its own, *)
(* and a recording frame is given back once.                               *)
(***************************************************************************)
EXTENDS Hal3on1, TLAPS

(***************************************************************************)
(* The inductive invariant.  A request that is being served stands at one  *)
(* of its outputs, and its settings are in the current parameters but for  *)
(* those the recording has replaced; their late ones are as at the last    *)
(* request, so comparing with that shows whether they have been sent.      *)
(***************************************************************************)
AtOutput ==
    /\ Serving => request \in Requests /\ i \in 1..Len(request.outputs)
    /\ pc \in {"recording", "video", "release", "empty"} => request.outputs[i] = "video"

LastParams ==
    /\ served # 0 => \A k \in Late : current_params[k] = previous_params[k]
    /\ Serving => /\ served # 0
                  /\ \A k \in DOMAIN request.settings :
                        current_params[k] = request.settings[k] \/ Overridden(k)
    /\ OwnSettings

(* Nobody is at work in a camera that is closed.                           *)
ClosedIsQuiet == device = "closed" => pc = "idle" /\ notifier = "idle" /\ ~ recording /\ hal1 = "stopped"

(* There is at most one picture, HAL1's or in the slot, and the request    *)
(* that has taken it has yet to come to an output for it.                  *)
OnePicture ==
    /\ picture # None => picture = "own" /\ jpeg_size = 0
    /\ jpeg_size # 0 => jpeg = "own"
    /\ picture # None \/ jpeg_size # 0 =>
          Serving /\ \E k \in i..Len(request.outputs) : request.outputs[k] = "blob"

(* A frame counts only if it is in the present buffer, or crossed the      *)
(* configuration.                                                          *)
CountedIsFilled ==
    /\ pc # "configuring" /\ preview_really_started => buffer = "filled" \/ stale
    /\ notifier = "frame" => buffer = "filled"

(* A frame in the slot keeps the notifier in its callback until the slot   *)
(* is emptied, which is after the frame was given back.                    *)
FrameInSlot ==
    /\ video_buffer_size # 0 =>
          notifier = "video" /\ video_buffer \in Frames /\ (pc # "empty" => lent[video_buffer] # "home")
    /\ pc \in {"release", "empty"} => video_buffer_size # 0
    /\ pc = "release" => copied = video_buffer

CameraInv ==
    /\ TypeOK /\ AtOutput /\ LastParams /\ ClosedIsQuiet
    /\ OnePicture /\ CountedIsFilled /\ FrameInSlot

-----------------------------------------------------------------------------
(* What is set are parameters again.                                       *)
LEMMA SetType ==
    ASSUME NEW p \in Parameters, NEW keys, NEW s \in Settings \cup {Recording}
    PROVE  set(p, keys, s) \in Parameters
<1>1. \A k \in DOMAIN s : s[k] \in Values
  BY CameraAssumption
<1> QED
  BY <1>1 DEF set, Parameters

(* The parameters stay as they should be where none are set and the        *)
(* request goes on, to its next output or to its end.                      *)
LEMMA ParamsStay ==
    ASSUME CameraInv, UNCHANGED <<hal1_params, current_params, previous_params, served, request>>,
           Serving' => Serving /\ i' \in {i, i + 1}
    PROVE  LastParams'
<1>1. i \in Nat
  BY DEF CameraInv, TypeOK
<1>2. ASSUME Serving', NEW k, Overridden(k) PROVE Overridden(k)'
  BY <1>1, <1>2 DEF Overridden
<1>3. \A k : NotSent(k)' <=> NotSent(k)
  BY DEF NotSent
<1> QED
  BY <1>2, <1>3 DEF CameraInv, LastParams, OwnSettings

LEMMA InitInv == Init => CameraInv
<1> SUFFICES ASSUME Init PROVE CameraInv
  OBVIOUS
<1> USE DEF Init
<1>1. {recording, compressed, preview_really_started, stale, video_stream} \subseteq BOOLEAN
  BY Zenon
<1>2. TypeOK
  <2>1. {hal1_params, current_params, previous_params} \subseteq Parameters
    BY CameraAssumption DEF Empty, Parameters
  <2> QED
    BY <1>1, <2>1 DEF TypeOK
<1>3. AtOutput /\ LastParams /\ ClosedIsQuiet
  BY DEF AtOutput, LastParams, OwnSettings, ClosedIsQuiet, Serving
<1>4. OnePicture /\ CountedIsFilled /\ FrameInSlot
  BY DEF OnePicture, CountedIsFilled, FrameInSlot
<1> QED
  BY <1>2, <1>3, <1>4 DEF CameraInv

(* One lemma for each action, with one step for each part of the          *)
(* invariant: first the actions without parameters.                        *)
LEMMA OpenStep == CameraInv /\ camera_device_open => CameraInv'
<1> SUFFICES ASSUME CameraInv, camera_device_open PROVE CameraInv'
  OBVIOUS
<1> USE DEF camera_device_open, slots, camera, thread, params, preview
<1>1. /\ recording' \in BOOLEAN /\ compressed' \in BOOLEAN /\ preview_really_started' \in BOOLEAN
      /\ video_stream' \in BOOLEAN /\ stale' \in BOOLEAN
  BY Zenon DEF CameraInv, TypeOK
<1>2. TypeOK'
  BY <1>1, CameraAssumption DEF CameraInv, TypeOK
<1>3. AtOutput'
  BY DEF CameraInv, AtOutput, Serving
<1>4. LastParams'
  BY DEF CameraInv, LastParams, OwnSettings, ClosedIsQuiet, Serving
<1>5. ClosedIsQuiet'
  BY DEF CameraInv, ClosedIsQuiet
<1>6. OnePicture'
  BY DEF CameraInv, OnePicture, Serving
<1>7. CountedIsFilled'
  BY DEF CameraInv, CountedIsFilled, ClosedIsQuiet
<1>8. FrameInSlot'
  BY DEF CameraInv, FrameInSlot, ClosedIsQuiet
<1> QED
  BY <1>2, <1>3, <1>4, <1>5, <1>6, <1>7, <1>8 DEF CameraInv

LEMMA CloseStep == CameraInv /\ camera3_close => CameraInv'
<1> SUFFICES ASSUME CameraInv, camera3_close PROVE CameraInv'
  OBVIOUS
<1> USE DEF camera3_close, slots, camera, thread, params, preview
<1>1. recording' \in BOOLEAN
  BY Zenon DEF CameraInv, TypeOK
<1>2. TypeOK'
  BY <1>1 DEF CameraInv, TypeOK
<1>3. AtOutput'
  BY DEF CameraInv, AtOutput, Serving
<1>4. LastParams'
  BY ParamsStay DEF Serving
<1>5. ClosedIsQuiet'
  BY DEF CameraInv, ClosedIsQuiet
<1>6. OnePicture'
  BY DEF CameraInv, OnePicture, Serving
<1>7. CountedIsFilled'
  BY DEF CameraInv, CountedIsFilled
<1>8. FrameInSlot'
  BY DEF CameraInv, FrameInSlot
<1> QED
  BY <1>2, <1>3, <1>4, <1>5, <1>6, <1>7, <1>8 DEF CameraInv

LEMMA AwaitStep == CameraInv /\ awaitPreview => CameraInv'
<1> SUFFICES ASSUME CameraInv, awaitPreview PROVE CameraInv'
  OBVIOUS
<1> USE DEF awaitPreview, slots, camera, thread, params, preview
<1>1. preview_really_started' \in BOOLEAN /\ stale' \in BOOLEAN
  BY Zenon DEF CameraInv, TypeOK
<1>2. TypeOK'
  BY <1>1 DEF CameraInv, TypeOK
<1>3. AtOutput'
  BY DEF CameraInv, AtOutput, Serving
<1>4. LastParams'
  BY ParamsStay DEF Serving
<1>5. ClosedIsQuiet'
  BY DEF CameraInv, ClosedIsQuiet
<1>6. OnePicture'
  BY DEF CameraInv, OnePicture, Serving
<1>7. CountedIsFilled'
  BY DEF CameraInv, CountedIsFilled
<1>8. FrameInSlot'
  BY DEF CameraInv, FrameInSlot
<1> QED
  BY <1>2, <1>3, <1>4, <1>5, <1>6, <1>7, <1>8 DEF CameraInv

LEMMA CopyJpegStep == CameraInv /\ copyJpeg => CameraInv'
<1> SUFFICES ASSUME CameraInv, copyJpeg PROVE CameraInv'
  OBVIOUS
<1> USE DEF copyJpeg, slotEmptied, ends, nextOutput, Output, slots, camera, thread, params, preview
<1>1. compressed' \in BOOLEAN
  BY Zenon DEF CameraInv, TypeOK
<1>2. TypeOK'
  BY <1>1 DEF CameraInv, TypeOK
<1>3. AtOutput'
  BY DEF CameraInv, AtOutput, Serving, TypeOK
<1>4. LastParams'
  BY ParamsStay DEF Serving
<1>5. ClosedIsQuiet'
  BY DEF CameraInv, ClosedIsQuiet
<1>6. OnePicture'
  BY DEF CameraInv, OnePicture, Serving, AtOutput
<1>7. CountedIsFilled'
  BY DEF CameraInv, CountedIsFilled
<1>8. FrameInSlot'
  BY DEF CameraInv, FrameInSlot
<1> QED
  BY <1>2, <1>3, <1>4, <1>5, <1>6, <1>7, <1>8 DEF CameraInv

LEMMA CopyPreviewStep == CameraInv /\ copyPreview => CameraInv'
<1> SUFFICES ASSUME CameraInv, copyPreview PROVE CameraInv'
  OBVIOUS
<1> USE DEF copyPreview, ends, nextOutput, Output, slots, camera, thread, params, preview
<1>1. TypeOK'
  BY DEF CameraInv, TypeOK
<1>2. AtOutput'
  BY DEF CameraInv, AtOutput, Serving, TypeOK
<1>3. LastParams'
  BY ParamsStay DEF Serving
<1>4. ClosedIsQuiet'
  BY DEF CameraInv, ClosedIsQuiet
<1>5. OnePicture'
  BY DEF CameraInv, OnePicture, Serving, AtOutput
<1>6. CountedIsFilled'
  BY DEF CameraInv, CountedIsFilled
<1>7. FrameInSlot'
  BY DEF CameraInv, FrameInSlot
<1> QED
  BY <1>1, <1>2, <1>3, <1>4, <1>5, <1>6, <1>7 DEF CameraInv

LEMMA StartRecordingStep == CameraInv /\ start_recording => CameraInv'
<1> SUFFICES ASSUME CameraInv, start_recording PROVE CameraInv'
  OBVIOUS
<1> USE DEF start_recording, Output, slots, camera, thread, params, preview
<1>1. recording' \in BOOLEAN
  BY Zenon DEF CameraInv, TypeOK
<1>2. TypeOK'
  <2>1. set(current_params, Keys, Recording) \in Parameters
    BY SetType DEF CameraInv, TypeOK
  <2>2. {hal1_params', current_params', previous_params'} \subseteq Parameters
    BY <2>1 DEF CameraInv, TypeOK
  <2> QED
    BY <1>1, <2>2 DEF CameraInv, TypeOK
<1>3. AtOutput'
  BY DEF CameraInv, AtOutput, Serving
<1>4. LastParams'
  <2>1. CASE video_stream
    BY <2>1, ParamsStay DEF Serving
  <2>2. CASE ~ video_stream
    <3> DEFINE new == set(current_params, Keys, Recording)
    <3>1. /\ hal1_params' = new /\ current_params' = new
          /\ UNCHANGED <<request, i, previous_params, served>>
      BY <2>2
    <3>2. /\ Late \subseteq Keys /\ DOMAIN Recording \cap Late = {}
          /\ request \in Requests /\ DOMAIN request.settings \subseteq Keys
      BY CameraAssumption DEF CameraInv, AtOutput, Serving
    <3>3. \A k \in Keys \ DOMAIN Recording : new[k] = current_params[k]
      BY DEF set
    <3>4. \A k : Overridden(k)' <=> Overridden(k)
      BY <3>1 DEF Overridden
    <3>5. ASSUME NEW k \in DOMAIN request.settings PROVE new[k] = request.settings[k] \/ Overridden(k)
      <4>1. k \in DOMAIN Recording => Overridden(k)
        BY DEF CameraInv, AtOutput, Serving, Overridden
      <4> QED
        BY <3>2, <3>3, <4>1 DEF CameraInv, LastParams, Serving
    <3>6. \A k \in Late : new[k] = previous_params[k]
      BY <3>2, <3>3 DEF CameraInv, LastParams, Serving
    <3> HIDE DEF new
    <3> QED
      BY <3>1, <3>4, <3>5, <3>6 DEF CameraInv, LastParams, OwnSettings, Serving
  <2> QED
    BY <2>1, <2>2
<1>5. ClosedIsQuiet'
  BY DEF CameraInv, ClosedIsQuiet
<1>6. OnePicture'
  BY DEF CameraInv, OnePicture, Serving
<1>7. CountedIsFilled'
  BY DEF CameraInv, CountedIsFilled
<1>8. FrameInSlot'
  BY DEF CameraInv, FrameInSlot
<1> QED
  BY <1>2, <1>3, <1>4, <1>5, <1>6, <1>7, <1>8 DEF CameraInv

LEMMA RecordingStartedStep == CameraInv /\ recordingStarted => CameraInv'
<1> SUFFICES ASSUME CameraInv, recordingStarted PROVE CameraInv'
  OBVIOUS
<1> USE DEF recordingStarted, slots, camera, thread, params, preview
<1>1. video_stream' \in BOOLEAN
  BY Zenon DEF CameraInv, TypeOK
<1>2. TypeOK'
  BY <1>1 DEF CameraInv, TypeOK
<1>3. AtOutput'
  BY DEF CameraInv, AtOutput, Serving
<1>4. LastParams'
  BY ParamsStay DEF Serving
<1>5. ClosedIsQuiet'
  BY DEF CameraInv, ClosedIsQuiet
<1>6. OnePicture'
  BY DEF CameraInv, OnePicture, Serving
<1>7. CountedIsFilled'
  BY DEF CameraInv, CountedIsFilled
<1>8. FrameInSlot'
  BY DEF CameraInv, FrameInSlot
<1> QED
  BY <1>2, <1>3, <1>4, <1>5, <1>6, <1>7, <1>8 DEF CameraInv

LEMMA CopyVideoStep == CameraInv /\ copyVideo => CameraInv'
<1> SUFFICES ASSUME CameraInv, copyVideo PROVE CameraInv'
  OBVIOUS
<1> USE DEF copyVideo, slots, camera, thread, params, preview
<1>1. TypeOK'
  BY DEF CameraInv, TypeOK
<1>2. AtOutput'
  BY DEF CameraInv, AtOutput, Serving
<1>3. LastParams'
  BY ParamsStay DEF Serving
<1>4. ClosedIsQuiet'
  BY DEF CameraInv, ClosedIsQuiet
<1>5. OnePicture'
  BY DEF CameraInv, OnePicture, Serving
<1>6. CountedIsFilled'
  BY DEF CameraInv, CountedIsFilled
<1>7. FrameInSlot'
  BY DEF CameraInv, FrameInSlot
<1> QED
  BY <1>1, <1>2, <1>3, <1>4, <1>5, <1>6, <1>7 DEF CameraInv

LEMMA ReleaseStep == CameraInv /\ release_recording_frame => CameraInv'
<1> SUFFICES ASSUME CameraInv, release_recording_frame PROVE CameraInv'
  OBVIOUS
<1> USE DEF release_recording_frame, slots, camera, thread, params, preview
<1>1. TypeOK'
  BY DEF CameraInv, TypeOK, FrameInSlot
<1>2. AtOutput'
  BY DEF CameraInv, AtOutput, Serving
<1>3. LastParams'
  BY ParamsStay DEF Serving
<1>4. ClosedIsQuiet'
  BY DEF CameraInv, ClosedIsQuiet
<1>5. OnePicture'
  BY DEF CameraInv, OnePicture, Serving
<1>6. CountedIsFilled'
  BY DEF CameraInv, CountedIsFilled
<1>7. FrameInSlot'
  BY DEF CameraInv, FrameInSlot, TypeOK
<1> QED
  BY <1>1, <1>2, <1>3, <1>4, <1>5, <1>6, <1>7 DEF CameraInv

LEMMA EmptyVideoStep == CameraInv /\ emptyVideo => CameraInv'
<1> SUFFICES ASSUME CameraInv, emptyVideo PROVE CameraInv'
  OBVIOUS
<1> USE DEF emptyVideo, ends, nextOutput, slots, camera, thread, params, preview
<1>1. TypeOK'
  BY DEF CameraInv, TypeOK
<1>2. AtOutput'
  BY DEF CameraInv, AtOutput, Serving, TypeOK
<1>3. LastParams'
  BY ParamsStay DEF Serving
<1>4. ClosedIsQuiet'
  BY DEF CameraInv, ClosedIsQuiet
<1>5. OnePicture'
  BY DEF CameraInv, OnePicture, Serving, AtOutput
<1>6. CountedIsFilled'
  BY DEF CameraInv, CountedIsFilled
<1>7. FrameInSlot'
  BY DEF CameraInv, FrameInSlot
<1> QED
  BY <1>1, <1>2, <1>3, <1>4, <1>5, <1>6, <1>7 DEF CameraInv

LEMMA FlushStep == CameraInv /\ camera3_flush => CameraInv'
<1> SUFFICES ASSUME CameraInv, camera3_flush PROVE CameraInv'
  OBVIOUS
<1> USE DEF camera3_flush, slots, camera, thread, params, preview
<1>1. recording' \in BOOLEAN /\ video_stream' \in BOOLEAN /\ compressed' \in BOOLEAN
  BY Zenon DEF CameraInv, TypeOK
<1>2. TypeOK'
  BY <1>1 DEF CameraInv, TypeOK
<1>3. AtOutput'
  BY DEF CameraInv, AtOutput, Serving
<1>4. LastParams'
  BY ParamsStay DEF Serving
<1>5. ClosedIsQuiet'
  BY DEF CameraInv, ClosedIsQuiet
<1>6. OnePicture'
  BY DEF CameraInv, OnePicture, Serving
<1>7. CountedIsFilled'
  BY DEF CameraInv, CountedIsFilled
<1>8. FrameInSlot'
  BY DEF CameraInv, FrameInSlot, TypeOK
<1> QED
  BY <1>2, <1>3, <1>4, <1>5, <1>6, <1>7, <1>8 DEF CameraInv

LEMMA PreviewFrameStep == CameraInv /\ previewFrame => CameraInv'
<1> SUFFICES ASSUME CameraInv, previewFrame PROVE CameraInv'
  OBVIOUS
<1> USE DEF previewFrame, slots, camera, thread, params, preview
<1>1. TypeOK'
  BY DEF CameraInv, TypeOK
<1>2. AtOutput'
  BY DEF CameraInv, AtOutput, Serving
<1>3. LastParams'
  BY ParamsStay DEF Serving
<1>4. ClosedIsQuiet'
  BY DEF CameraInv, ClosedIsQuiet
<1>5. OnePicture'
  BY DEF CameraInv, OnePicture, Serving
<1>6. CountedIsFilled'
  BY DEF CameraInv, CountedIsFilled, TypeOK
<1>7. FrameInSlot'
  BY DEF CameraInv, FrameInSlot
<1> QED
  BY <1>1, <1>2, <1>3, <1>4, <1>5, <1>6, <1>7 DEF CameraInv

LEMMA FrameCountedStep == CameraInv /\ frameCounted => CameraInv'
<1> SUFFICES ASSUME CameraInv, frameCounted PROVE CameraInv'
  OBVIOUS
<1> USE DEF frameCounted, slots, camera, thread, params, preview
<1>1. preview_really_started' \in BOOLEAN /\ stale' \in BOOLEAN
  BY Zenon DEF CameraInv, TypeOK
<1>2. TypeOK'
  BY <1>1 DEF CameraInv, TypeOK
<1>3. AtOutput'
  BY DEF CameraInv, AtOutput, Serving
<1>4. LastParams'
  BY ParamsStay DEF Serving
<1>5. ClosedIsQuiet'
  BY DEF CameraInv, ClosedIsQuiet
<1>6. OnePicture'
  BY DEF CameraInv, OnePicture, Serving
<1>7. CountedIsFilled'
  BY DEF CameraInv, CountedIsFilled
<1>8. FrameInSlot'
  BY DEF CameraInv, FrameInSlot
<1> QED
  BY <1>2, <1>3, <1>4, <1>5, <1>6, <1>7, <1>8 DEF CameraInv

LEMMA CompressedImageStep == CameraInv /\ compressedImage => CameraInv'
<1> SUFFICES ASSUME CameraInv, compressedImage PROVE CameraInv'
  OBVIOUS
<1> USE DEF compressedImage, slots, camera, thread, params, preview
<1>1. TypeOK'
  BY DEF CameraInv, TypeOK
<1>2. AtOutput'
  BY DEF CameraInv, AtOutput, Serving
<1>3. LastParams'
  BY ParamsStay DEF Serving
<1>4. ClosedIsQuiet'
  BY DEF CameraInv, ClosedIsQuiet, OnePicture, Serving
<1>5. OnePicture'
  BY DEF CameraInv, OnePicture, Serving
<1>6. CountedIsFilled'
  BY DEF CameraInv, CountedIsFilled
<1>7. FrameInSlot'
  BY DEF CameraInv, FrameInSlot
<1> QED
  BY <1>1, <1>2, <1>3, <1>4, <1>5, <1>6, <1>7 DEF CameraInv

LEMMA InvalidImageStep == CameraInv /\ invalidImage => CameraInv'
<1> SUFFICES ASSUME CameraInv, invalidImage PROVE CameraInv'
  OBVIOUS
<1> USE DEF invalidImage, slots, camera, thread, params, preview
<1>1. TypeOK'
  BY DEF CameraInv, TypeOK
<1>2. AtOutput'
  BY DEF CameraInv, AtOutput, Serving
<1>3. LastParams'
  BY ParamsStay DEF Serving
<1>4. ClosedIsQuiet'
  BY DEF CameraInv, ClosedIsQuiet
<1>5. OnePicture'
  BY DEF CameraInv, OnePicture, Serving
<1>6. CountedIsFilled'
  BY DEF CameraInv, CountedIsFilled
<1>7. FrameInSlot'
  BY DEF CameraInv, FrameInSlot
<1> QED
  BY <1>1, <1>2, <1>3, <1>4, <1>5, <1>6, <1>7 DEF CameraInv

LEMMA RestartPreviewStep == CameraInv /\ restartPreview => CameraInv'
<1> SUFFICES ASSUME CameraInv, restartPreview PROVE CameraInv'
  OBVIOUS
<1> USE DEF restartPreview, start_preview, slots, camera, thread, params, preview
<1>1. TypeOK'
  BY DEF CameraInv, TypeOK
<1>2. AtOutput'
  BY DEF CameraInv, AtOutput, Serving
<1>3. LastParams'
  BY ParamsStay DEF Serving
<1>4. ClosedIsQuiet'
  BY DEF CameraInv, ClosedIsQuiet
<1>5. OnePicture'
  BY DEF CameraInv, OnePicture, Serving
<1>6. CountedIsFilled'
  BY DEF CameraInv, CountedIsFilled
<1>7. FrameInSlot'
  BY DEF CameraInv, FrameInSlot
<1> QED
  BY <1>1, <1>2, <1>3, <1>4, <1>5, <1>6, <1>7 DEF CameraInv

LEMMA LeaveJpegStep == CameraInv /\ leaveJpeg => CameraInv'
<1> SUFFICES ASSUME CameraInv, leaveJpeg PROVE CameraInv'
  OBVIOUS
<1> USE DEF leaveJpeg, slots, camera, thread, params, preview
<1>1. preview_really_started' \in BOOLEAN /\ stale' \in BOOLEAN
  BY Zenon DEF CameraInv, TypeOK
<1>2. TypeOK'
  BY <1>1 DEF CameraInv, TypeOK
<1>3. AtOutput'
  BY DEF CameraInv, AtOutput, Serving
<1>4. LastParams'
  BY ParamsStay DEF Serving
<1>5. ClosedIsQuiet'
  BY DEF CameraInv, ClosedIsQuiet
<1>6. OnePicture'
  BY DEF CameraInv, OnePicture, Serving
<1>7. CountedIsFilled'
  BY DEF CameraInv, CountedIsFilled
<1>8. FrameInSlot'
  BY DEF CameraInv, FrameInSlot
<1> QED
  BY <1>2, <1>3, <1>4, <1>5, <1>6, <1>7, <1>8 DEF CameraInv

LEMMA LeaveVideoStep == CameraInv /\ leaveVideo => CameraInv'
<1> SUFFICES ASSUME CameraInv, leaveVideo PROVE CameraInv'
  OBVIOUS
<1> USE DEF leaveVideo, slots, camera, thread, params, preview
<1>1. TypeOK'
  BY DEF CameraInv, TypeOK
<1>2. AtOutput'
  BY DEF CameraInv, AtOutput, Serving
<1>3. LastParams'
  BY ParamsStay DEF Serving
<1>4. ClosedIsQuiet'
  BY DEF CameraInv, ClosedIsQuiet
<1>5. OnePicture'
  BY DEF CameraInv, OnePicture, Serving
<1>6. CountedIsFilled'
  BY DEF CameraInv, CountedIsFilled
<1>7. FrameInSlot'
  BY DEF CameraInv, FrameInSlot
<1> QED
  BY <1>1, <1>2, <1>3, <1>4, <1>5, <1>6, <1>7 DEF CameraInv

(* The actions with parameters.                                            *)
LEMMA ConfigureStep ==
    ASSUME NEW hasVideo \in BOOLEAN, CameraInv, camera3_configure_streams(hasVideo)
    PROVE  CameraInv'
<1> USE DEF camera3_configure_streams, slots, camera, thread, params, preview
<1>1. TypeOK'
  BY CameraAssumption DEF CameraInv, TypeOK, started
<1>2. AtOutput' /\ LastParams'
  BY DEF CameraInv, AtOutput, LastParams, OwnSettings, Serving
<1>3. ClosedIsQuiet' /\ OnePicture'
  BY DEF CameraInv, ClosedIsQuiet, OnePicture, Serving
<1>4. CountedIsFilled' /\ FrameInSlot'
  BY DEF CameraInv, CountedIsFilled, FrameInSlot
<1> QED
  BY <1>1, <1>2, <1>3, <1>4 DEF CameraInv

(* A request begins where no picture and no parameters of another count.   *)
LEMMA RequestStep ==
    ASSUME NEW r \in Requests, CameraInv, process_capture_request(r)
    PROVE  CameraInv'
<1>1. /\ pc = "idle" /\ pc' = "output" /\ request' = r /\ i' = 1 /\ jpeg' = aged(jpeg)
      /\ UNCHANGED <<device, copied, notifier, recording, lent, buffer, preview_really_started,
                     stale, jpeg_size, video_buffer, video_buffer_size, video_stream>>
  BY DEF process_capture_request, preview
<1>2. /\ r \in [still : BOOLEAN, outputs : Seq(Outputs), settings : Settings]
      /\ r.outputs # <<>> /\ (r.still => \E k \in 1..Len(r.outputs) : r.outputs[k] = "blob")
  BY CameraAssumption
<1>3. picture = None /\ jpeg_size = 0
  BY <1>1 DEF CameraInv, OnePicture, Serving
<1>4. None # "own"
  BY CameraAssumption
<1>5. \/ r.still /\ compressed' = TRUE /\ take_picture
      \/ ~ r.still /\ UNCHANGED <<compressed, hal1>> /\ picture' = None
  BY <1>3, <1>4 DEF process_capture_request, aged
<1>6. /\ picture' = None \/ (picture' = "own" /\ r.still)
      /\ hal1' \in {"stopped", "previewing", "capturing", "released"}
  BY <1>3, <1>4, <1>5 DEF take_picture, aged, CameraInv, TypeOK
<1> DEFINE early == set(current_params, Keys \ Late, r.settings)
           new == set(early, Late, r.settings)
<1>7. /\ hal1_params' = (IF new # previous_params THEN new ELSE early)
      /\ current_params' = new /\ previous_params' = new
      /\ served' = (IF served = 0 THEN 1 ELSE 2)
  BY DEF process_capture_request, set_parameters
<1>8. TypeOK'
  <2>1. compressed' \in BOOLEAN
    <3>1. CASE compressed' = TRUE
      BY <3>1, Zenon
    <3>2. CASE compressed' = compressed
      BY <3>2 DEF CameraInv, TypeOK
    <3> QED
      BY <1>5, <3>1, <3>2
  <2>2. jpeg' \in {None, "own", "old"}
    BY <1>1 DEF CameraInv, TypeOK, aged
  <2>3. early \in Parameters /\ new \in Parameters
    <3>1. early \in Parameters
      BY <1>2, SetType DEF CameraInv, TypeOK
    <3> HIDE DEF early
    <3> QED
      BY <1>2, <3>1, SetType
  <2>4. {hal1_params', current_params', previous_params'} \subseteq Parameters /\ served' \in 0..2
    BY <1>7, <2>3
  <2> QED
    BY <1>1, <1>6, <2>1, <2>2, <2>4 DEF CameraInv, TypeOK
<1>9. AtOutput'
  BY <1>1, <1>2 DEF AtOutput
<1>10. LastParams'
  <2>1. Late \subseteq Keys /\ DOMAIN r.settings \subseteq Keys
    BY <1>2, CameraAssumption
  <2>2. /\ \A k \in DOMAIN r.settings : new[k] = r.settings[k]
        /\ \A k \in DOMAIN r.settings \ Late : early[k] = r.settings[k]
        /\ \A k \in Late : early[k] = current_params[k]
    BY <2>1 DEF set
  <2>3. served # 0 => \A k \in Late : current_params[k] = previous_params[k]
    BY DEF CameraInv, LastParams
  <2>4. served \in 0..2
    BY DEF CameraInv, TypeOK
  <2> HIDE DEF early, new
  <2>5. ASSUME NEW k \in DOMAIN r.settings
        PROVE  hal1_params'[k] = r.settings[k] \/ (k \in Late /\ served' = 1)
    BY <1>7, <2>2, <2>3, <2>4
  <2> QED
    BY <1>1, <1>7, <2>2, <2>5 DEF LastParams, OwnSettings, NotSent, Serving
<1>11. OnePicture'
  BY <1>1, <1>2, <1>3, <1>6 DEF OnePicture, Serving
<1>12. ClosedIsQuiet'
  BY DEF process_capture_request, ClosedIsQuiet
<1>13. CountedIsFilled' /\ FrameInSlot'
  BY <1>1 DEF CameraInv, CountedIsFilled, FrameInSlot
<1> QED
  BY <1>8, <1>9, <1>10, <1>11, <1>12, <1>13 DEF CameraInv

LEMMA VideoFrameStep ==
    ASSUME NEW f \in Frames, CameraInv, hal1_data_timestamp_callback(f)
    PROVE  CameraInv'
<1> USE DEF hal1_data_timestamp_callback, slots, camera, thread, params, preview
<1>1. TypeOK'
  BY DEF CameraInv, TypeOK
<1>2. AtOutput' /\ LastParams'
  BY ParamsStay DEF CameraInv, AtOutput, Serving
<1>3. ClosedIsQuiet' /\ OnePicture'
  BY DEF CameraInv, ClosedIsQuiet, OnePicture, Serving
<1>4. CountedIsFilled'
  BY DEF CameraInv, CountedIsFilled
<1>5. FrameInSlot'
  BY DEF CameraInv, TypeOK, FrameInSlot
<1> QED
  BY <1>1, <1>2, <1>3, <1>4, <1>5 DEF CameraInv

LEMMA StutterStep == CameraInv /\ UNCHANGED vars => CameraInv'
<1> SUFFICES ASSUME CameraInv, UNCHANGED vars PROVE CameraInv'
  OBVIOUS
<1> USE DEF vars, slots, camera, thread, params, preview
<1>1. TypeOK'
  BY DEF CameraInv, TypeOK
<1>2. AtOutput' /\ LastParams' /\ ClosedIsQuiet'
  BY ParamsStay DEF CameraInv, AtOutput, ClosedIsQuiet, Serving
<1>3. OnePicture' /\ CountedIsFilled' /\ FrameInSlot'
  BY DEF CameraInv, OnePicture, CountedIsFilled, FrameInSlot, Serving
<1> QED
  BY <1>1, <1>2, <1>3 DEF CameraInv

-----------------------------------------------------------------------------
(* Every step preserves the invariant.                                     *)
LEMMA InvStep == CameraInv /\ [Next]_vars => CameraInv'
<1> SUFFICES ASSUME CameraInv, [Next]_vars PROVE CameraInv'
  OBVIOUS
<1>1. CASE RequestThread
  BY <1>1, CopyJpegStep, CopyPreviewStep, StartRecordingStep, RecordingStartedStep, CopyVideoStep,
     ReleaseStep, EmptyVideoStep, AwaitStep DEF RequestThread
<1>2. CASE Framework
  BY <1>2, OpenStep, CloseStep, FlushStep, ConfigureStep, RequestStep DEF Framework
<1>3. CASE Notifier
  BY <1>3, PreviewFrameStep, FrameCountedStep, CompressedImageStep, InvalidImageStep, RestartPreviewStep,
     LeaveJpegStep, VideoFrameStep, LeaveVideoStep DEF Notifier, videoFrame
<1>4. CASE UNCHANGED vars
  BY <1>4, StutterStep
<1> QED
  BY <1>1, <1>2, <1>3, <1>4 DEF Next

(* The invariant holds for any requests, frames and settings.              *)
THEOREM Invariance == Spec => []CameraInv
BY InitInv, InvStep, PTL DEF Spec

(* The threads, HAL1 and the slots have their types.                       *)
THEOREM TypeCorrect == Spec => []TypeOK
<1>1. CameraInv => TypeOK
  BY DEF CameraInv
<1> QED
  BY <1>1, Invariance, PTL

(***************************************************************************)
(* The picture a request finds in the slot is its own, and a preview is    *)
(* copied from a buffer that a frame was written to, unless one that was   *)
(* copied before the configuration is counted after it                     *)
(* (hal1_data_callback, configure_streams, process_capture_request).       *)
(***************************************************************************)
THEOREM OwnOutput == Spec => []OutputIsOwn
<1>1. CameraInv => OutputIsOwn
  BY DEF CameraInv, OnePicture, CountedIsFilled, OutputIsOwn, PictureIsOwn, OnlyFilledFrames
<1> QED
  BY <1>1, Invariance, PTL

(* The frame given back to HAL1 is the one that was copied, and is given   *)
(* back once (release_recording_frame).                                    *)
THEOREM ReleasedOnce == Spec => []FrameReleasedOnce
<1>1. CameraInv => FrameReleasedOnce
  BY DEF CameraInv, FrameInSlot, FrameReleasedOnce
<1> QED
  BY <1>1, Invariance, PTL

(***************************************************************************)
(* HAL1 works with the settings of the request that is being served, but   *)
(* for the late ones of the first request and for what a recording sets    *)
(* (process_capture_request), whichever keys requests set or leave out.    *)
(***************************************************************************)
THEOREM SettingsAreOwn == Spec => []OwnSettings
<1>1. CameraInv => OwnSettings
  BY DEF CameraInv, LastParams
<1> QED
  BY <1>1, Invariance, PTL
=============================================================================
