----------------------------- MODULE PageCapture -----------------------------
(***************************************************************************)
(* The page's microphone and webcam (mic.js, cam.js and the functions of    *)
(* viewer.js that start and stop them).  A start waits for the browser's    *)
(* permission, and the microphone for its worklet and context as well;      *)
(* meanwhile the user may stop it and start again, control may go and come  *)
(* back, the socket may close.  Each start is a capture of its own; what it *)
(* is granted in vain it must give back.                                    *)
(*                                                                          *)
(* The packets and frames themselves are left out.                          *)
(***************************************************************************)
EXTENDS Integers

CONSTANT MaxCapture    \* the bound: how often each device is started

ASSUME CaptureAssumption == MaxCapture \in Nat

Device == {"mic", "cam"}
Captures == 1..MaxCapture

VARIABLES
  control,     \* state.role is "controller"
  offered,     \* state.micAvailable and state.camAvailable
  switched,       \* state.mic and state.cam: what the buttons say
  stage,       \* of each capture: how far its start has come
  tracks,      \* the captures whose tracks are live: the browser's indicator is on
  capturing,   \* mic.js `active`, cam.js `stream`: a capture, or 0
  generation   \* the start that micGeneration or cam.js `generation` is of, 0 after a stop

captureVars == <<control, offered, switched, stage, tracks, capturing, generation>>

May(d) == control /\ offered[d]
Move(d, i, s) == stage' = [stage EXCEPT ![d][i] = s]

\* stopMic and micStop, stopCam and camStop
Stopped(D) ==
  /\ switched' = [d \in Device |-> switched[d] /\ d \notin D]
  /\ tracks' = [d \in Device |-> IF d \in D THEN tracks[d] \ {capturing[d]} ELSE tracks[d]]
  /\ capturing' = [d \in Device |-> IF d \in D THEN 0 ELSE capturing[d]]
  /\ generation' = [d \in Device |-> IF d \in D THEN 0 ELSE generation[d]]

StaysOn == UNCHANGED <<switched, tracks, capturing, generation>>

NextCapture(d, i) == stage[d][i] = "none" /\ \A j \in 1..(i - 1) : stage[d][j] # "none"

-----------------------------------------------------------------------------
(* The microphone. *)

\* micStart up to getUserMedia.  The button can stop it while the prompt is open.
MicStart(i) ==
  /\ May("mic") /\ ~switched["mic"] /\ NextCapture("mic", i)
  /\ Move("mic", i, "asking")
  /\ capturing' = [capturing EXCEPT !["mic"] = i]
  /\ generation' = [generation EXCEPT !["mic"] = i]
  /\ switched' = [switched EXCEPT !["mic"] = TRUE]
  /\ UNCHANGED <<control, offered, tracks>>

\* The browser grants the microphone to a start that was stopped in the meantime.
MicGrantedUnchecked(i) ==
  /\ stage["mic"][i] = "asking"
  /\ Move("mic", i, "loading")
  /\ tracks' = [tracks EXCEPT !["mic"] = @ \cup {i}]
  /\ UNCHANGED <<control, offered, switched, capturing, generation>>

\* getUserMedia resolves: a superseded start stops the tracks it got
MicGranted(i) ==
  /\ stage["mic"][i] = "asking"
  /\ Move("mic", i, IF capturing["mic"] = i THEN "loading" ELSE "over")
  /\ tracks' = [tracks EXCEPT !["mic"] = IF capturing["mic"] = i THEN @ \cup {i} ELSE @]
  /\ UNCHANGED <<control, offered, switched, capturing, generation>>

\* addModule resolves
MicLoaded(i) ==
  /\ stage["mic"][i] = "loading"
  /\ Move("mic", i, IF capturing["mic"] = i THEN "resuming" ELSE "over")
  /\ UNCHANGED <<control, offered>> /\ StaysOn

\* ctx.resume resolves; micStart looks at what has become of control meanwhile
MicResumed(i) ==
  /\ stage["mic"][i] = "resuming"
  /\ Move("mic", i, IF capturing["mic"] = i THEN "running" ELSE "over")
  /\ IF generation["mic"] = i /\ (capturing["mic"] # i \/ ~May("mic")) THEN Stopped({"mic"})
     ELSE StaysOn
  /\ UNCHANGED <<control, offered>>

\* A step of the start throws, a track ends, the encoder or the worklet fails: only the
\* current capture stops the microphone.
MicFails(i) ==
  /\ stage["mic"][i] \in {"asking", "loading", "resuming", "running"}
  /\ Move("mic", i, "over")
  /\ IF capturing["mic"] = i THEN Stopped({"mic"}) ELSE StaysOn
  /\ UNCHANGED <<control, offered>>

-----------------------------------------------------------------------------
(* The webcam. *)

\* camStart up to getUserMedia: the button says off while the prompt is open, so a
\* second start may supersede the first
CamStart(i) ==
  /\ May("cam") /\ ~switched["cam"] /\ NextCapture("cam", i)
  /\ Move("cam", i, "asking")
  /\ generation' = [generation EXCEPT !["cam"] = i]
  /\ UNCHANGED <<control, offered, switched, tracks, capturing>>

\* getUserMedia resolves.  A superseded start returns like one that has its stream, and
\* camStart shows the webcam as on.
CamGranted(i) ==
  /\ stage["cam"][i] = "asking"
  /\ Move("cam", i, IF May("cam") /\ generation["cam"] = i THEN "running" ELSE "over")
  /\ IF ~May("cam") THEN Stopped({"cam"})
     ELSE /\ switched' = [switched EXCEPT !["cam"] = TRUE]
          /\ IF generation["cam"] = i
             THEN /\ capturing' = [capturing EXCEPT !["cam"] = i]
                  /\ tracks' = [tracks EXCEPT !["cam"] = @ \cup {i}]
             ELSE UNCHANGED <<capturing, tracks>>
          /\ UNCHANGED generation
  /\ UNCHANGED <<control, offered>>

\* The permission is denied, or the encoder cannot be configured and stopCam runs: the
\* button stays as it is.
CamDenied(i) ==
  /\ stage["cam"][i] = "asking"
  /\ Move("cam", i, "over")
  /\ \/ UNCHANGED generation
     \/ generation["cam"] = i /\ generation' = [generation EXCEPT !["cam"] = 0]
  /\ UNCHANGED <<control, offered, switched, tracks, capturing>>

\* the encoder fails or the camera goes away
CamEnds(i) ==
  /\ stage["cam"][i] = "running"
  /\ Move("cam", i, "over")
  /\ IF generation["cam"] = i THEN Stopped({"cam"}) ELSE StaysOn
  /\ UNCHANGED <<control, offered>>

-----------------------------------------------------------------------------
(* What concerns both. *)

\* viewer.mic.stop, viewer.cam.stop: the button
PressStop(d) ==
  /\ switched[d]
  /\ Stopped({d}) /\ UNCHANGED <<control, offered, stage>>

\* ROLE: it says whether this page controls, and what the desktop takes
HearRole(controls, features) ==
  /\ control' = controls /\ offered' = [d \in Device |-> d \in features]
  /\ Stopped({d \in Device : ~controls \/ d \notin features})
  /\ UNCHANGED stage

\* ws.onclose
CloseSocket == HearRole(FALSE, {})

-----------------------------------------------------------------------------
CaptureInit ==
  /\ control = FALSE /\ offered = [d \in Device |-> FALSE] /\ switched = [d \in Device |-> FALSE]
  /\ stage = [d \in Device |-> [i \in Captures |-> "none"]] /\ tracks = [d \in Device |-> {}]
  /\ capturing = [d \in Device |-> 0] /\ generation = [d \in Device |-> 0]

CaptureNext ==
  \/ \E i \in Captures :
       \/ MicStart(i) \/ MicGranted(i) \/ MicLoaded(i) \/ MicResumed(i) \/ MicFails(i)
       \/ CamStart(i) \/ CamGranted(i) \/ CamDenied(i) \/ CamEnds(i)
  \/ \E d \in Device : PressStop(d)
  \/ \E controls \in BOOLEAN, features \in SUBSET Device : HearRole(controls, features)
  \/ CloseSocket

CaptureSpec == CaptureInit /\ [][CaptureNext]_captureVars

-----------------------------------------------------------------------------
(* Properties. *)

\* Every variable keeps its type.
CaptureTypeOK ==
  /\ control \in BOOLEAN /\ offered \in [Device -> BOOLEAN] /\ switched \in [Device -> BOOLEAN]
  /\ stage \in [Device -> [Captures -> {"none", "asking", "loading", "resuming", "running", "over"}]]
  /\ tracks \in [Device -> SUBSET Captures]
  /\ capturing \in [Device -> {0} \cup Captures] /\ generation \in [Device -> {0} \cup Captures]

\* "Losing control stops it, which also turns the browser's recording indicator off":
\* whatever was stopped, lost or started again while the browser asked for permission,
\* the page holds live tracks only while it controls a desktop that takes them and the
\* button says so, and never those of two captures.
CaptureFollowsControl ==
  \A d \in Device :
    /\ tracks[d] # {} => May(d) /\ switched[d]
    /\ \A i, j \in tracks[d] : i = j
=============================================================================
